---------------------------- MODULE OutputProofs ----------------------------
(***************************************************************************)
(* Proofs about the output: a receiver of data broadcasting is at most one *)
(* interval behind, exit code 0 of a conversion is the truth, captions are *)
(* shown once, in time and with what they need, and the continuity counter *)
(* of the video reports every frame that is not whole, and no other.       *)
(***************************************************************************)
EXTENDS TsOutput, Integers, FiniteSetTheorems, SequenceTheorems, WellFoundedInduction,
        TLAPS

CONSTANTS
  Services, Packets, OwnerOf(_), KindOf(_), ContentsOf(_), Oversized, Tags, TableInterval,
  ItemInterval, MaxRememberedSends, MaxTime,     \* of data broadcasting
  InputSize, MaxPacket, ChunkSize, BufferSize,   \* of a conversion to a file
  Codes, Menu, MaxPending, MaxLead, Cadence, PcrInterval, Start, End, MaxDocuments,
  MaxResources                                   \* of the captions

VARIABLES
  now, onAir, since, packetIdToService, packetIdToEmtTag, captionServices,
  mapService2Pid, lastSent, source, tv,
  mode, at, left, eof, bad, inputBuffer, inputEnded, next, consumed, offset, streamed,
  failed, disk, produced, exitCode,
  clock, managed, glyphs, pending, shown, sent, resources, fates, told, early

Data      == INSTANCE AppDataTransport
File      == INSTANCE Conversion
Subtitles == INSTANCE Captions

-----------------------------------------------------------------------------
(* Data broadcasting.                                                      *)


\* An instance counts as its module does.
LEMMA SameCounts ==
  ASSUME NEW S
  PROVE  (Data!IsFiniteSet(S) <=> IsFiniteSet(S)) /\ Data!Cardinality(S) = Cardinality(S)
BY Zenon DEF Data!IsFiniteSet, IsFiniteSet, Data!Cardinality, Cardinality

\* A non-empty set of numbers has a least one.
LEMMA LeastNumber ==
  ASSUME NEW T \in SUBSET Nat, T # {}
  PROVE  \E n \in T : \A m \in T : n <= m
<1>1. PICK n \in T : \A m \in T : ~(<<m, n>> \in OpToRel(<, Nat))
  BY NatLessThanWellFounded, WFMin
<1>2. OpToRel(<, Nat) = {ss \in Nat \X Nat : ss[1] < ss[2]}
  BY Zenon DEF OpToRel
<1>3. PICK R : R = OpToRel(<, Nat)
  OBVIOUS
<1>4. R = {ss \in Nat \X Nat : ss[1] < ss[2]} /\ \A m \in T : <<m, n>> \notin R
  BY <1>1, <1>2, <1>3, Zenon
<1>5. \A m \in T : m \in Nat /\ n \in Nat /\ ~(m < n)
  BY <1>4
<1> QED
  BY <1>5

\* Numbers up to a limit, from 0 on one after the other, are all of them.
LEMMA UpTo ==
  ASSUME NEW L \in Nat, NEW T, 0 \in T, \A n \in 1..L : n - 1 \in T => n \in T
  PROVE  \A n \in 0..L : n \in T
<1> DEFINE U == {n \in 0..L : n \notin T}
<1> SUFFICES ASSUME U # {} PROVE FALSE
  OBVIOUS
<1>1. U \in SUBSET Nat
  OBVIOUS
<1>2. PICK n \in U : \A m \in U : n <= m
  <2> HIDE DEF U
  <2> QED
    BY <1>1, LeastNumber
<1>3. n \in 0..L /\ n \notin T
  BY DEF U
<1>4. n # 0 /\ n - 1 \in 0..L
  BY <1>3
<1>5. n - 1 \notin U
  BY <1>2, <1>3, <1>4
<1>6. n - 1 \in T
  BY <1>4, <1>5
<1>7. n \in 1..L
  BY <1>3, <1>4
<1> QED
  BY <1>3, <1>6, <1>7

\* A non-empty set of numbers up to a limit has a greatest one.
LEMMA GreatestNumber ==
  ASSUME NEW L \in Nat, NEW T \in SUBSET (0..L), T # {}
  PROVE  \E n \in T : \A m \in T : n >= m
<1> DEFINE U == {n \in Nat : \E m \in T : m = L - n}
<1>1. \A m \in T : L - m \in U
  OBVIOUS
<1>2. PICK u \in U : \A n \in U : u <= n
  <2>1. U \in SUBSET Nat /\ U # {}
    BY <1>1
  <2> HIDE DEF U
  <2> QED
    BY <2>1, LeastNumber
<1>3. L - u \in T /\ u \in Nat
  BY <1>2
<1> QED
  BY <1>1, <1>2, <1>3

\* The latest time is one that the clock has shown.
LEMMA LatestTime ==
  ASSUME Data!TransportAssumption, now \in Data!Times, since \in [Packets -> Data!Times]
  PROVE  /\ Data!Latest \in Data!Times
         /\ now <= Data!Latest
         /\ \A p \in Packets : since[p] <= Data!Latest
<1> DEFINE shownTimes == {now} \cup {since[p] : p \in Packets}
<1>1. shownTimes \in SUBSET (0..MaxTime) /\ MaxTime \in Nat /\ shownTimes # {}
  BY DEF Data!Times, Data!TransportAssumption
<1>2. \E t \in shownTimes : \A u \in shownTimes : t >= u
  <2> HIDE DEF shownTimes
  <2> QED
    BY <1>1, GreatestNumber
<1>3. Data!Latest = CHOOSE t \in shownTimes : \A u \in shownTimes : t >= u
  BY DEF Data!Latest, Data!Max
<1>4. Data!Latest \in shownTimes /\ \A u \in shownTimes : Data!Latest >= u
  <2> HIDE DEF shownTimes
  <2> QED
    BY <1>2, <1>3, Zenon
<1> QED
  BY <1>1, <1>4 DEF Data!Times

-----------------------------------------------------------------------------
\* What is remembered as sent was sent by the latest time.
SentByLatest ==
  \A k \in DOMAIN lastSent :
    lastSent[k] <= now \/ \E p \in Packets : lastSent[k] <= since[p]

\* A service that has a caption's packet ID has captions.
CaptionsRouted ==
  \A p \in DOMAIN packetIdToService :
    KindOf(p) = "caption" => packetIdToService[p] \in captionServices

\* Whether a receiver would have to have what is on air.
Sendable(p) == onAir[p] \notin Oversized /\ (KindOf(p) = "emt" => Data!TagOf(p) # None)

\* What is remembered as sent since it last changed, a receiver has, unless it
\* came on another packet ID; if its service has a PID, it had one then.
SentIsHeld ==
  \A p \in DOMAIN packetIdToService :
    /\ KindOf(p) # "caption" /\ Sendable(p) /\ OwnerOf(p) \in mapService2Pid
    /\ Data!Key(p) \in DOMAIN lastSent /\ lastSent[Data!Key(p)] > since[p]
    => \/ tv[p] = [content |-> onAir[p], tag |-> Data!TagOf(p)]
       \/ Data!Key(p) \in DOMAIN source /\ source[Data!Key(p)] # p

AppInv ==
  /\ Data!TypeOK
  /\ \A p \in Packets : onAir[p] \in ContentsOf(p)
  /\ IsFiniteSet(DOMAIN lastSent)
  /\ SentByLatest
  /\ CaptionsRouted
  /\ SentIsHeld

LEMMA AppStart == Data!TransportAssumption /\ Data!Init => AppInv
<1> SUFFICES ASSUME Data!TransportAssumption, Data!Init PROVE AppInv
  OBVIOUS
<1>1. DOMAIN lastSent = {} /\ DOMAIN source = {} /\ DOMAIN packetIdToService = {}
      /\ DOMAIN packetIdToEmtTag = {}
  BY DEF Data!Init
<1>2. IsFiniteSet(DOMAIN lastSent) /\ Cardinality(DOMAIN lastSent) = 0
  BY <1>1, FS_EmptySet
<1>3. MaxTime \in Nat /\ MaxRememberedSends \in Nat
  BY DEF Data!TransportAssumption
<1>4. Data!TypeOK
  BY <1>1, <1>2, <1>3, SameCounts DEF Data!Init, Data!TypeOK, Data!Times
<1> QED
  BY <1>1, <1>2, <1>4 DEF AppInv, Data!Init, SentByLatest, CaptionsRouted, SentIsHeld

\* What the table keeps at its limit.
LEMMA ForgottenIsPart ==
  ASSUME NEW key, IsFiniteSet(DOMAIN lastSent), Data!TransportAssumption,
         Cardinality(DOMAIN lastSent) <= MaxRememberedSends
  PROVE  /\ DOMAIN Data!Forgotten(key) \subseteq DOMAIN lastSent
         /\ \A k \in DOMAIN Data!Forgotten(key) : Data!Forgotten(key)[k] = lastSent[k]
         /\ key \notin DOMAIN Data!Forgotten(key) =>
              Cardinality(DOMAIN Data!Forgotten(key)) < MaxRememberedSends
         /\ Cardinality(DOMAIN Data!Forgotten(key)) <= MaxRememberedSends
<1> DEFINE recent == {k \in DOMAIN lastSent : ~Data!Elapsed(lastSent[k], Data!Horizon)}
<1>0. MaxRememberedSends \in Nat \ {0}
  BY DEF Data!TransportAssumption
<1>1. CASE key \in DOMAIN lastSent \/ Cardinality(DOMAIN lastSent) < MaxRememberedSends
  <2>1. Data!Forgotten(key) = lastSent
    BY <1>1, SameCounts DEF Data!Forgotten
  <2>2. Cardinality(DOMAIN lastSent) \in Nat
    BY FS_CardinalityType
  <2> QED
    BY <1>0, <1>1, <2>1, <2>2
<1>2. CASE ~(key \in DOMAIN lastSent \/ Cardinality(DOMAIN lastSent) < MaxRememberedSends)
  <2>1. CASE Cardinality(recent) < MaxRememberedSends
    <3>1. Data!Forgotten(key) = [k \in recent |-> lastSent[k]]
      BY <1>2, <2>1, SameCounts DEF Data!Forgotten, Data!Restrict
    <3>2. IsFiniteSet(recent) /\ Cardinality(recent) \in Nat
      BY FS_Subset, FS_CardinalityType
    <3> QED
      BY <1>0, <1>2, <2>1, <3>1, <3>2
  <2>2. CASE ~(Cardinality(recent) < MaxRememberedSends)
    <3>1. Data!Forgotten(key) = <<>>
      BY <1>2, <2>2, SameCounts DEF Data!Forgotten
    <3>2. DOMAIN Data!Forgotten(key) = {}
      BY <3>1
    <3>3. Cardinality(DOMAIN Data!Forgotten(key)) = 0
      BY <3>2, FS_EmptySet
    <3> QED
      BY <1>0, <3>2, <3>3
  <2> QED
    BY <2>1, <2>2
<1> QED
  BY <1>1, <1>2

\* What remembering a key leaves in the table.
LEMMA Remembered ==
  ASSUME NEW key, NEW interval, IsFiniteSet(DOMAIN lastSent), Data!TransportAssumption,
         Cardinality(DOMAIN lastSent) <= MaxRememberedSends,
         Data!Remember(key, interval)
  PROVE  /\ DOMAIN lastSent' \subseteq DOMAIN lastSent \cup {key}
         /\ \A k \in DOMAIN lastSent' : k # key => lastSent'[k] = lastSent[k]
         /\ Data!Due(key, interval) => key \in DOMAIN lastSent' /\ lastSent'[key] = now
         /\ ~Data!Due(key, interval) => lastSent' = lastSent
         /\ IsFiniteSet(DOMAIN lastSent')
         /\ Cardinality(DOMAIN lastSent') <= MaxRememberedSends
<1>1. CASE ~Data!Due(key, interval)
  <2>1. lastSent' = lastSent
    BY <1>1 DEF Data!Remember
  <2> QED
    BY <1>1, <2>1
<1>2. CASE Data!Due(key, interval)
  <2>1. PICK f : f = Data!Forgotten(key)
    OBVIOUS
  <2>2. lastSent' = Data!With(f, key, now)
    BY <1>2, <2>1 DEF Data!Remember
  <2>3. /\ DOMAIN f \subseteq DOMAIN lastSent
        /\ \A k \in DOMAIN f : f[k] = lastSent[k]
        /\ key \notin DOMAIN f => Cardinality(DOMAIN f) < MaxRememberedSends
        /\ Cardinality(DOMAIN f) <= MaxRememberedSends
    BY <2>1, ForgottenIsPart
  <2>4. PICK g : g = Data!With(f, key, now)
    OBVIOUS
  <2>5. /\ DOMAIN g = DOMAIN f \cup {key}
        /\ g[key] = now
        /\ \A x \in DOMAIN f : x # key => g[x] = f[x]
    BY <2>4 DEF Data!With
  <2>6. IsFiniteSet(DOMAIN f) /\ Cardinality(DOMAIN f) \in Nat /\ MaxRememberedSends \in Nat
    BY <2>3, FS_Subset, FS_CardinalityType DEF Data!TransportAssumption
  <2>7. PICK D : D = DOMAIN f
    OBVIOUS
  <2>8. IsFiniteSet(D \cup {key})
        /\ Cardinality(D \cup {key}) = IF key \in D THEN Cardinality(D)
             ELSE Cardinality(D) + 1
    BY <2>6, <2>7, FS_AddElement
  <2> QED
    BY <1>2, <2>2, <2>3, <2>4, <2>5, <2>6, <2>7, <2>8
<1> QED
  BY <1>1, <1>2

-----------------------------------------------------------------------------
(* The steps.                                                              *)

\* If the latest time is when everything changed last, nothing has been sent since.
LEMMA SentBefore ==
  ASSUME AppInv, Data!TransportAssumption, NEW k \in DOMAIN lastSent
  PROVE  lastSent[k] \in Nat /\ lastSent[k] <= Data!Latest
<1>1. lastSent[k] \in Data!Times /\ now \in Data!Times
        /\ since \in [Packets -> Data!Times] /\ MaxTime \in Nat
  BY DEF AppInv, Data!TypeOK, Data!TransportAssumption
<1>2. Data!Latest \in Data!Times /\ now <= Data!Latest
        /\ \A p \in Packets : since[p] <= Data!Latest
  BY <1>1, LatestTime
<1>3. lastSent[k] <= now \/ \E p \in Packets : lastSent[k] <= since[p]
  BY DEF AppInv, SentByLatest
<1> QED
  BY <1>1, <1>2, <1>3 DEF Data!Times

LEMMA ChangeStep ==
  ASSUME AppInv, Data!TransportAssumption, NEW p \in Packets, Data!Change(p)
  PROVE  AppInv'
<1>1. PICK c \in ContentsOf(p) : onAir' = [onAir EXCEPT ![p] = c]
  BY DEF Data!Change
<1>2. since' = [since EXCEPT ![p] = Data!Latest] /\ Data!Latest \in Data!Times
  BY LatestTime DEF Data!Change, AppInv, Data!TypeOK
<1>3. /\ now \in Data!Times /\ onAir \in [Packets -> Data!Contents]
           /\ since \in [Packets -> Data!Times]
      /\ \A q \in Packets : onAir[q] \in ContentsOf(q)
      /\ c \in Data!Contents
      /\ DOMAIN packetIdToService \subseteq Packets
  BY <1>1 DEF AppInv, Data!TypeOK, Data!Contents
<1>4. UNCHANGED <<now, packetIdToService, packetIdToEmtTag, captionServices,
        mapService2Pid, lastSent, source, tv>>
  BY DEF Data!Change
<1>5. Data!TypeOK'
  <2>1. since' \in [Packets -> Data!Times] /\ onAir' \in [Packets -> Data!Contents]
    BY <1>1, <1>2, <1>3
  <2> QED
    BY <1>4, <2>1 DEF AppInv, Data!TypeOK
<1>6. \A q \in Packets : onAir'[q] \in ContentsOf(q)
  BY <1>1, <1>3
<1>7. SentByLatest'
  <2> SUFFICES ASSUME NEW k \in DOMAIN lastSent, ~(lastSent[k] <= now)
               PROVE  \E q \in Packets : lastSent[k] <= since'[q]
    BY <1>4 DEF SentByLatest
  <2>1. lastSent[k] <= Data!Latest
    BY SentBefore
  <2> QED
    BY <1>2, <1>3, <2>1
<1>8. CaptionsRouted'
  BY <1>4 DEF AppInv, CaptionsRouted
<1>9. SentIsHeld'
  <2> SUFFICES ASSUME NEW q \in DOMAIN packetIdToService,
                      KindOf(q) # "caption", Sendable(q)', OwnerOf(q) \in mapService2Pid,
                      Data!Key(q)' \in DOMAIN lastSent, lastSent[Data!Key(q)'] > since'[q]
               PROVE  \/ tv[q] = [content |-> onAir'[q], tag |-> Data!TagOf(q)']
                      \/ Data!Key(q)' \in DOMAIN source /\ source[Data!Key(q)'] # q
    BY <1>4 DEF SentIsHeld
  <2>1. CASE q = p
    <3>1. since'[q] = Data!Latest
      BY <1>2, <1>3, <2>1
    <3>2. lastSent[Data!Key(q)'] \in Nat /\ lastSent[Data!Key(q)'] <= Data!Latest
      BY SentBefore
    <3> QED
      BY <1>2, <3>1, <3>2 DEF Data!Times
  <2>2. CASE q # p
    <3>1. onAir'[q] = onAir[q] /\ since'[q] = since[q]
      BY <1>1, <1>2, <1>3, <2>2
    <3>2. Data!Key(q)' = Data!Key(q) /\ Data!TagOf(q)' = Data!TagOf(q) /\ Sendable(q)
      BY <1>4, <3>1 DEF Data!Key, Data!TagOf, Sendable
    <3> QED
      BY <3>1, <3>2 DEF AppInv, SentIsHeld
  <2> QED
    BY <2>1, <2>2
<1>10. IsFiniteSet(DOMAIN lastSent')
  BY <1>4 DEF AppInv
<1> QED
  BY <1>5, <1>6, <1>7, <1>8, <1>9, <1>10 DEF AppInv

LEMMA ClockStep ==
  ASSUME AppInv, Data!TransportAssumption, Data!Tick \/ Data!SetBack
  PROVE  AppInv'
<1>1. UNCHANGED <<onAir, packetIdToService, packetIdToEmtTag, captionServices,
        mapService2Pid, lastSent, source, tv>>
  BY DEF Data!Tick, Data!SetBack
<1>2. now \in Data!Times /\ since \in [Packets -> Data!Times] /\ MaxTime \in Nat
        /\ Data!Latest \in Data!Times
  BY LatestTime DEF AppInv, Data!TypeOK, Data!TransportAssumption
<1>3. now' \in Data!Times /\ since' \in [Packets -> Data!Times]
  BY <1>2 DEF Data!Tick, Data!SetBack, Data!Times
<1>4. Data!TypeOK'
  BY <1>1, <1>3 DEF AppInv, Data!TypeOK
<1>5. \A q \in Packets : onAir'[q] \in ContentsOf(q)
  BY <1>1 DEF AppInv
<1>6. CaptionsRouted' /\ IsFiniteSet(DOMAIN lastSent')
  BY <1>1 DEF AppInv, CaptionsRouted
<1>7. DOMAIN packetIdToService \subseteq Packets
  BY DEF AppInv, Data!TypeOK
<1>8. \A q \in DOMAIN packetIdToService :
        Data!Key(q)' = Data!Key(q) /\ Data!TagOf(q)' = Data!TagOf(q)
          /\ (Sendable(q)' <=> Sendable(q))
  BY <1>1 DEF Data!Key, Data!TagOf, Sendable
<1>9. CASE Data!Tick
  <2>1. now' = now + 1 /\ since' = since
    BY <1>9 DEF Data!Tick
  <2>2. SentByLatest'
    <3> SUFFICES ASSUME NEW k \in DOMAIN lastSent
                 PROVE  lastSent[k] <= now + 1 \/ \E q \in Packets : lastSent[k] <= since[q]
      BY <1>1, <2>1 DEF SentByLatest
    <3>1. lastSent[k] \in Nat
      BY SentBefore
    <3>2. lastSent[k] <= now \/ \E q \in Packets : lastSent[k] <= since[q]
      BY DEF AppInv, SentByLatest
    <3> QED
      BY <1>2, <3>1, <3>2 DEF Data!Times
  <2>3. SentIsHeld'
    BY <1>1, <1>8, <2>1 DEF AppInv, SentIsHeld
  <2> QED
    BY <1>4, <1>5, <1>6, <2>2, <2>3 DEF AppInv
<1>10. CASE Data!SetBack
  <2>1. \A q \in Packets : since'[q] = Data!Latest
    BY <1>10 DEF Data!SetBack
  <2>2. \A k \in DOMAIN lastSent : k \in Data!Keys /\ lastSent[k] \in Nat
            /\ lastSent[k] <= Data!Latest
    BY SentBefore DEF AppInv, Data!TypeOK
  <2>3. SentByLatest'
    <3> SUFFICES ASSUME NEW k \in DOMAIN lastSent
                 PROVE  \E q \in Packets : lastSent[k] <= since'[q]
      BY <1>1 DEF SentByLatest
    <3>1. \E q \in Packets : TRUE
      BY <2>2 DEF Data!Keys, Data!Contents
    <3> QED
      BY <2>1, <2>2, <3>1
  <2>4. SentIsHeld'
    <3> SUFFICES ASSUME NEW q \in DOMAIN packetIdToService,
          Data!Key(q)' \in DOMAIN lastSent,
                        lastSent[Data!Key(q)'] > since'[q]
                 PROVE  FALSE
      BY <1>1 DEF SentIsHeld
    <3> QED
      BY <1>2, <1>7, <2>1, <2>2 DEF Data!Times
  <2> QED
    BY <1>4, <1>5, <1>6, <2>3, <2>4 DEF AppInv
<1> QED
  BY <1>9, <1>10

LEMMA ClearStep ==
  ASSUME AppInv, Data!TransportAssumption, Data!Clear
  PROVE  AppInv'
<1>1. /\ DOMAIN lastSent' = {} /\ DOMAIN packetIdToService' = {}
           /\ DOMAIN packetIdToEmtTag' = {}
      /\ captionServices' = {} /\ mapService2Pid' = {}
  BY DEF Data!Clear
<1>2. IsFiniteSet(DOMAIN lastSent') /\ Cardinality(DOMAIN lastSent') = 0
  BY <1>1, FS_EmptySet
<1>3. /\ now' \in Data!Times /\ onAir' \in [Packets -> Data!Contents]
           /\ since' \in [Packets -> Data!Times]
      /\ MaxRememberedSends \in Nat
  BY DEF Data!Clear, AppInv, Data!TypeOK, Data!TransportAssumption
<1>4. UNCHANGED <<now, onAir, source, tv>>
  BY DEF Data!Clear
<1>5. Data!TypeOK'
  BY <1>1, <1>2, <1>3, <1>4, SameCounts DEF AppInv, Data!TypeOK
<1>6. SentByLatest' /\ CaptionsRouted' /\ SentIsHeld'
  BY <1>1 DEF SentByLatest, CaptionsRouted, SentIsHeld
<1>7. \A q \in Packets : onAir'[q] \in ContentsOf(q)
  BY <1>4 DEF AppInv
<1> QED
  BY <1>2, <1>5, <1>6, <1>7 DEF AppInv

LEMMA MptStep ==
  ASSUME AppInv, Data!TransportAssumption, NEW s \in Services, Data!OnMpt(s)
  PROVE  AppInv'
<1> DEFINE owned == {p \in Packets : OwnerOf(p) = s}
           others == {p \in DOMAIN packetIdToService : packetIdToService[p] # s}
           kept == {p \in DOMAIN packetIdToEmtTag : p \in others}
           had(p) == p \in DOMAIN packetIdToService /\ packetIdToService[p] = s
<1>1. PICK listed \in SUBSET owned :
        LET emts == {p \in listed : KindOf(p) = "emt"}
        IN  /\ packetIdToService' = [p \in others \cup listed |->
                                       IF p \in listed THEN s ELSE packetIdToService[p]]
            /\ \E tags \in [emts -> Tags \cup {None}] :
                 /\ packetIdToEmtTag' = [p \in kept \cup {q \in emts : tags[q] # None} |->
                                           IF p \in emts THEN tags[p]
                                             ELSE packetIdToEmtTag[p]]
                 /\ since' = [p \in Packets |->
                                IF p \in listed
                                     /\ (~had(p) \/ (p \in emts /\ Data!TagOf(p) # tags[p]))
                                THEN Data!Latest ELSE since[p]]
            /\ captionServices' =
                 IF \E p \in listed : KindOf(p) = "caption"
                 THEN captionServices \cup {s} ELSE captionServices \ {s}
            /\ UNCHANGED <<now, onAir, mapService2Pid, lastSent, source, tv>>
  BY Zenon DEF Data!OnMpt, Data!TagOf
<1> DEFINE emts == {p \in listed : KindOf(p) = "emt"}
<1>2. PICK tags \in [emts -> Tags \cup {None}] :
        /\ packetIdToEmtTag' = [p \in kept \cup {q \in emts : tags[q] # None} |->
                                  IF p \in emts THEN tags[p] ELSE packetIdToEmtTag[p]]
        /\ since' = [p \in Packets |->
                       IF p \in listed
                            /\ (~had(p) \/ (p \in emts /\ Data!TagOf(p) # tags[p]))
                       THEN Data!Latest ELSE since[p]]
  BY <1>1, Zenon
<1>3. /\ packetIdToService' = [p \in others \cup listed |->
                                 IF p \in listed THEN s ELSE packetIdToService[p]]
      /\ captionServices' = IF \E p \in listed : KindOf(p) = "caption"
                            THEN captionServices \cup {s} ELSE captionServices \ {s}
      /\ UNCHANGED <<now, onAir, mapService2Pid, lastSent, source, tv>>
  BY <1>1, Zenon
<1>4. /\ now \in Data!Times /\ since \in [Packets -> Data!Times]
           /\ Data!Latest \in Data!Times
      /\ DOMAIN packetIdToService \subseteq Packets
      /\ \A p \in DOMAIN packetIdToService : packetIdToService[p] = OwnerOf(p)
      /\ DOMAIN packetIdToEmtTag \subseteq {p \in DOMAIN packetIdToService : KindOf(p) = "emt"}
      /\ \A p \in DOMAIN packetIdToEmtTag : packetIdToEmtTag[p] \in Tags
      /\ now <= Data!Latest /\ \A p \in Packets : since[p] <= Data!Latest
  BY LatestTime DEF AppInv, Data!TypeOK
<1>5. \A p \in listed : p \in Packets /\ OwnerOf(p) = s
  OBVIOUS
<1>6. \A p \in others : p \notin listed /\ p \in Packets
          /\ packetIdToService[p] = OwnerOf(p)
  BY <1>4, <1>5
<1>7. /\ DOMAIN packetIdToService' \subseteq Packets
      /\ \A p \in DOMAIN packetIdToService' : packetIdToService'[p] = OwnerOf(p)
  BY <1>3, <1>5, <1>6
<1>8. /\ DOMAIN packetIdToEmtTag' \subseteq {p \in DOMAIN packetIdToService' : KindOf(p) = "emt"}
      /\ \A p \in DOMAIN packetIdToEmtTag' : packetIdToEmtTag'[p] \in Tags
  BY <1>2, <1>3, <1>4
<1>9. since' \in [Packets -> Data!Times]
  BY <1>2, <1>4
<1>10. captionServices' \in SUBSET Services
  BY <1>3 DEF AppInv, Data!TypeOK
<1>11. Data!TypeOK'
  BY <1>3, <1>7, <1>8, <1>9, <1>10 DEF AppInv, Data!TypeOK
<1>12. \A q \in Packets : onAir'[q] \in ContentsOf(q)
  BY <1>3 DEF AppInv
<1>13. SentByLatest'
  <2> SUFFICES ASSUME NEW k \in DOMAIN lastSent, NEW p \in Packets, lastSent[k] <= since[p]
               PROVE  lastSent[k] <= since'[p]
    BY <1>3 DEF AppInv, SentByLatest
  <2>1. lastSent[k] \in Nat /\ lastSent[k] <= Data!Latest
    BY SentBefore
  <2> QED
    BY <1>2, <2>1
<1>14. CaptionsRouted'
  BY <1>3, <1>5, <1>6 DEF AppInv, CaptionsRouted
<1>15. SentIsHeld'
  <2> SUFFICES ASSUME NEW q \in DOMAIN packetIdToService',
                      KindOf(q) # "caption", Sendable(q)', OwnerOf(q) \in mapService2Pid,
                      Data!Key(q)' \in DOMAIN lastSent, lastSent[Data!Key(q)'] > since'[q]
               PROVE  \/ tv[q] = [content |-> onAir[q], tag |-> Data!TagOf(q)']
                      \/ Data!Key(q)' \in DOMAIN source /\ source[Data!Key(q)'] # q
    BY <1>3 DEF SentIsHeld
  <2>1. q \in Packets /\ packetIdToService'[q] = OwnerOf(q)
    BY <1>7
  <2>2. since'[q] # Data!Latest
    <3>1. lastSent[Data!Key(q)'] \in Nat /\ lastSent[Data!Key(q)'] <= Data!Latest
      BY SentBefore
    <3> QED
      BY <1>4, <3>1 DEF Data!Times
  <2>3. /\ since'[q] = since[q]
        /\ q \in listed => had(q) /\ (q \in emts => Data!TagOf(q) = tags[q])
    BY <1>2, <2>1, <2>2
  <2>4. q \in DOMAIN packetIdToService /\ packetIdToService[q] = packetIdToService'[q]
    BY <1>3, <1>6, <2>1, <2>3
  <2>5. Data!TagOf(q)' = Data!TagOf(q)
    <3>1. CASE q \in listed
      <4>1. CASE q \in emts
        <5>1. tags[q] = Data!TagOf(q) /\ tags[q] \in Tags \cup {None}
          BY <2>3, <3>1, <4>1
        <5>2. q \in DOMAIN packetIdToEmtTag' <=> tags[q] # None
          BY <1>2, <1>6, <3>1, <4>1
        <5>3. tags[q] # None => packetIdToEmtTag'[q] = tags[q]
          BY <1>2, <4>1
        <5> QED
          BY <5>1, <5>2, <5>3 DEF Data!TagOf
      <4>2. CASE q \notin emts
        <5>1. q \notin DOMAIN packetIdToEmtTag /\ q \notin DOMAIN packetIdToEmtTag'
          BY <1>4, <1>8, <3>1, <4>2
        <5> QED
          BY <5>1 DEF Data!TagOf
      <4> QED
        BY <4>1, <4>2
    <3>2. CASE q \notin listed
      <4>1. q \in others
        BY <1>3, <3>2
      <4>2. q \in DOMAIN packetIdToEmtTag' <=> q \in DOMAIN packetIdToEmtTag
        BY <1>2, <3>2, <4>1
      <4>3. q \in DOMAIN packetIdToEmtTag' => packetIdToEmtTag'[q] = packetIdToEmtTag[q]
        BY <1>2, <3>2
      <4> QED
        BY <4>2, <4>3 DEF Data!TagOf
    <3> QED
      BY <3>1, <3>2
  <2>6. Data!Key(q)' = Data!Key(q) /\ Sendable(q)
    BY <1>3, <2>4, <2>5 DEF Data!Key, Sendable
  <2> QED
    BY <2>3, <2>4, <2>5, <2>6 DEF AppInv, SentIsHeld
<1>16. IsFiniteSet(DOMAIN lastSent')
  BY <1>3 DEF AppInv
<1> QED
  BY <1>11, <1>12, <1>13, <1>14, <1>15, <1>16 DEF AppInv

LEMMA PltStep ==
  ASSUME AppInv, Data!TransportAssumption, Data!OnPlt
  PROVE  AppInv'
<1>1. PICK given \in SUBSET Services :
        /\ mapService2Pid' = given
        /\ since' = [p \in Packets |-> IF OwnerOf(p) \in given \ mapService2Pid
                                       THEN Data!Latest ELSE since[p]]
  BY DEF Data!OnPlt
<1>2. UNCHANGED <<now, onAir, packetIdToService, packetIdToEmtTag, captionServices, lastSent,
        source, tv>>
  BY DEF Data!OnPlt
<1>3. /\ since \in [Packets -> Data!Times] /\ Data!Latest \in Data!Times
      /\ DOMAIN packetIdToService \subseteq Packets
  BY LatestTime DEF AppInv, Data!TypeOK
<1>4. Data!TypeOK'
  <2>1. since' \in [Packets -> Data!Times]
    BY <1>1, <1>3
  <2> QED
    BY <1>1, <1>2, <2>1 DEF AppInv, Data!TypeOK
<1>5. SentByLatest'
  <2> SUFFICES ASSUME NEW k \in DOMAIN lastSent, NEW p \in Packets, lastSent[k] <= since[p]
               PROVE  lastSent[k] <= since'[p]
    BY <1>2 DEF AppInv, SentByLatest
  <2>1. lastSent[k] <= Data!Latest
    BY SentBefore
  <2> QED
    BY <1>1, <2>1
<1>6. SentIsHeld'
  <2> SUFFICES ASSUME NEW q \in DOMAIN packetIdToService, KindOf(q) # "caption",
                      Sendable(q)', OwnerOf(q) \in given, Data!Key(q)' \in DOMAIN lastSent,
                      lastSent[Data!Key(q)'] > since'[q]
               PROVE  \/ tv[q] = [content |-> onAir[q], tag |-> Data!TagOf(q)']
                      \/ Data!Key(q)' \in DOMAIN source /\ source[Data!Key(q)'] # q
    BY <1>1, <1>2 DEF SentIsHeld
  <2>1. Data!Key(q)' = Data!Key(q) /\ Data!TagOf(q)' = Data!TagOf(q) /\ Sendable(q)
    BY <1>2 DEF Data!Key, Data!TagOf, Sendable
  <2>2. since'[q] # Data!Latest
    <3>1. lastSent[Data!Key(q)] \in Nat /\ lastSent[Data!Key(q)] <= Data!Latest
      BY <2>1, SentBefore
    <3> QED
      BY <1>3, <2>1, <3>1 DEF Data!Times
  <2>3. since'[q] = since[q] /\ OwnerOf(q) \in mapService2Pid
    BY <1>1, <1>3, <2>2
  <2> QED
    BY <2>1, <2>3 DEF AppInv, SentIsHeld
<1>7. /\ \A q \in Packets : onAir'[q] \in ContentsOf(q)
      /\ CaptionsRouted' /\ IsFiniteSet(DOMAIN lastSent')
  BY <1>2 DEF AppInv, CaptionsRouted
<1> QED
  BY <1>4, <1>5, <1>6, <1>7 DEF AppInv

\* What a section leaves: the table remembers it or not, and a receiver gets it or
\* not; the latter only if it is a caption or was due.
LEMMA SectionLeaves ==
  ASSUME AppInv, Data!TransportAssumption, NEW p \in Packets, Data!OnSection(p)
  PROVE  /\ Data!Received
         /\ \/ UNCHANGED <<lastSent, source, tv>>
            \/ /\ Data!Routed(p) /\ KindOf(p) = "caption" /\ UNCHANGED lastSent
               /\ Data!Sent(p, Data!Key(p), None)
            \/ /\ Data!Routed(p) /\ KindOf(p) # "caption"
               /\ Data!Remember(Data!Key(p), Data!IntervalOf(p))
                    /\ Data!Due(Data!Key(p), Data!IntervalOf(p))
               /\ IF ~Sendable(p) THEN \/ Data!NotSent /\ onAir[p] \in Oversized
                                   \/ Data!CountedAsSent(p, Data!Key(p))
                                   \/ Data!Sent(p, Data!Key(p), Data!TagOf(p))
                  ELSE Data!Sent(p, Data!Key(p), Data!TagOf(p))
<1>1. DOMAIN packetIdToEmtTag \subseteq {q \in DOMAIN packetIdToService : KindOf(q) = "emt"}
  BY DEF AppInv, Data!TypeOK
<1>2. CASE Data!OnTableSection(p)
  <2>1. KindOf(p) \in {"table", "emt"} /\ Data!IntervalOf(p) = TableInterval
    BY <1>2 DEF Data!OnTableSection, Data!IntervalOf
  <2>2. KindOf(p) = "table" => Data!TagOf(p) = None
    BY <1>1 DEF Data!TagOf
  <2>3. p \in DOMAIN packetIdToEmtTag => Data!TagOf(p) = packetIdToEmtTag[p]
    BY DEF Data!TagOf
  <2>4. p \notin DOMAIN packetIdToEmtTag /\ KindOf(p) = "emt" => ~Sendable(p)
    BY DEF Data!TagOf, Sendable
  <2>5. ~Data!Due(Data!Key(p), TableInterval)
          /\ Data!Remember(Data!Key(p), TableInterval) => UNCHANGED lastSent
    BY DEF Data!Remember
  <2>6. Data!Received
    BY <1>2 DEF Data!OnTableSection
  <2>7. CASE ~Data!Routed(p) \/ ~Data!Due(Data!Key(p), TableInterval)
    BY <1>2, <2>5, <2>6, <2>7 DEF Data!OnTableSection, Data!NotSent
  <2>8. CASE Data!Routed(p) /\ Data!Due(Data!Key(p), TableInterval)
    <3>1. /\ Data!Remember(Data!Key(p), TableInterval)
          /\ IF KindOf(p) = "table" THEN Data!Sent(p, Data!Key(p), None)
             ELSE IF p \in DOMAIN packetIdToEmtTag
                    THEN Data!Sent(p, Data!Key(p), packetIdToEmtTag[p])
             ELSE Data!CountedAsSent(p, Data!Key(p))
      BY <1>2, <2>8 DEF Data!OnTableSection
    <3>2. CASE KindOf(p) = "table"
      BY <2>1, <2>2, <2>6, <2>8, <3>1, <3>2
    <3>3. CASE KindOf(p) = "emt" /\ p \in DOMAIN packetIdToEmtTag
      BY <2>1, <2>3, <2>6, <2>8, <3>1, <3>3
    <3>4. CASE KindOf(p) = "emt" /\ p \notin DOMAIN packetIdToEmtTag
      BY <2>1, <2>4, <2>6, <2>8, <3>1, <3>4
    <3> QED
      BY <2>1, <3>2, <3>3, <3>4
  <2> QED
    BY <2>7, <2>8
<1>3. CASE Data!OnItem(p)
  <2>1. KindOf(p) = "item" /\ Data!IntervalOf(p) = ItemInterval /\ Data!Received
    BY <1>3 DEF Data!OnItem, Data!IntervalOf
  <2>2. Data!TagOf(p) = None
    BY <1>1, <2>1 DEF Data!TagOf
  <2>3. ~Data!Due(Data!Key(p), ItemInterval)
          /\ Data!Remember(Data!Key(p), ItemInterval) => UNCHANGED lastSent
    BY DEF Data!Remember
  <2>4. CASE ~Data!Routed(p) \/ ~Data!Due(Data!Key(p), ItemInterval)
    BY <1>3, <2>1, <2>3, <2>4 DEF Data!OnItem, Data!NotSent
  <2>5. CASE Data!Routed(p) /\ Data!Due(Data!Key(p), ItemInterval)
    <3>1. /\ Data!Remember(Data!Key(p), ItemInterval)
          /\ IF onAir[p] \notin Oversized THEN Data!Sent(p, Data!Key(p), None)
               ELSE Data!NotSent
      BY <1>3, <2>5 DEF Data!OnItem
    <3>2. Sendable(p) <=> onAir[p] \notin Oversized
      BY <2>1 DEF Sendable
    <3> QED
      BY <2>1, <2>2, <2>5, <3>1, <3>2
  <2> QED
    BY <2>4, <2>5
<1>4. CASE Data!OnCaption(p)
  BY <1>4 DEF Data!OnCaption, Data!NotSent
<1> QED
  BY <1>2, <1>3, <1>4 DEF Data!OnSection

LEMMA SectionStep ==
  ASSUME AppInv, Data!TransportAssumption, NEW p \in Packets, Data!OnSection(p)
  PROVE  AppInv'
<1>1. UNCHANGED <<now, onAir, since, packetIdToService, packetIdToEmtTag, captionServices,
        mapService2Pid>>
  BY SectionLeaves DEF Data!Received
<1>2. /\ now \in Data!Times /\ onAir \in [Packets -> Data!Contents]
           /\ since \in [Packets -> Data!Times]
      /\ DOMAIN packetIdToService \subseteq Packets
      /\ \A q \in DOMAIN packetIdToService : packetIdToService[q] = OwnerOf(q)
      /\ DOMAIN packetIdToEmtTag \subseteq {q \in DOMAIN packetIdToService : KindOf(q) = "emt"}
      /\ \A q \in DOMAIN packetIdToEmtTag : packetIdToEmtTag[q] \in Tags
      /\ DOMAIN lastSent \subseteq Data!Keys
           /\ \A k \in DOMAIN lastSent : lastSent[k] \in Data!Times
      /\ Cardinality(DOMAIN lastSent) <= MaxRememberedSends
      /\ DOMAIN source \subseteq Data!Keys /\ \A k \in DOMAIN source : source[k] \in Packets
      /\ tv \in [Packets -> Data!Has \cup {None}]
      /\ IsFiniteSet(DOMAIN lastSent)
  BY SameCounts DEF AppInv, Data!TypeOK
<1>3. \A q \in DOMAIN packetIdToService :
        Data!Key(q)' = Data!Key(q) /\ Data!TagOf(q)' = Data!TagOf(q)
          /\ (Sendable(q)' <=> Sendable(q))
  BY <1>1 DEF Data!Key, Data!TagOf, Sendable
<1>4. Data!Routed(p) => Data!Key(p) \in Data!Keys
  BY <1>2 DEF Data!Routed, Data!Key, Data!Keys, Data!TransportAssumption
<1>5. Data!TagOf(p) \in Tags \cup {None}
  BY <1>2 DEF Data!TagOf
<1>6. ASSUME NEW tag \in Tags \cup {None}, Data!Routed(p), Data!Sent(p, Data!Key(p), tag)
      PROVE  /\ tv' \in [Packets -> Data!Has \cup {None}]
             /\ OwnerOf(p) \in mapService2Pid =>
                  tv'[p] = [content |-> onAir[p], tag |-> tag]
             /\ \A q \in Packets : q # p => tv'[q] = tv[q]
             /\ source' = Data!With(source, Data!Key(p), p)
  <2>1. /\ tv' = IF OwnerOf(p) \in mapService2Pid
                  THEN [tv EXCEPT ![p] = [content |-> onAir[p], tag |-> tag]] ELSE tv
        /\ source' = Data!With(source, Data!Key(p), p)
    BY <1>2, <1>6 DEF Data!Sent, Data!Routed
  <2>2. [content |-> onAir[p], tag |-> tag] \in Data!Has
    BY <1>2 DEF Data!Has
  <2> QED
    BY <1>2, <2>1, <2>2
<1>7. ASSUME Data!Routed(p), source' = Data!With(source, Data!Key(p), p)
      PROVE  /\ DOMAIN source' \subseteq Data!Keys
                  /\ \A k \in DOMAIN source' : source'[k] \in Packets
             /\ Data!Key(p) \in DOMAIN source' /\ source'[Data!Key(p)] = p
             /\ \A k \in DOMAIN source : k # Data!Key(p) => k \in DOMAIN source'
                    /\ source'[k] = source[k]
  BY <1>2, <1>4, <1>7 DEF Data!With
<1>8. CASE UNCHANGED <<lastSent, source, tv>>
  BY <1>1, <1>3, <1>8 DEF AppInv, Data!TypeOK, SentByLatest, CaptionsRouted, SentIsHeld
<1>9. CASE Data!Routed(p) /\ KindOf(p) = "caption" /\ UNCHANGED lastSent
             /\ Data!Sent(p, Data!Key(p), None)
  <2>1. Data!TypeOK'
    BY <1>1, <1>2, <1>6, <1>7, <1>9 DEF AppInv, Data!TypeOK
  <2>2. SentIsHeld'
    <3> SUFFICES ASSUME NEW q \in DOMAIN packetIdToService, KindOf(q) # "caption",
                        Sendable(q), OwnerOf(q) \in mapService2Pid,
                        Data!Key(q) \in DOMAIN lastSent, lastSent[Data!Key(q)] > since[q]
                 PROVE  \/ tv'[q] = [content |-> onAir[q], tag |-> Data!TagOf(q)]
                        \/ Data!Key(q) \in DOMAIN source' /\ source'[Data!Key(q)] # q
      BY <1>1, <1>3, <1>9 DEF SentIsHeld
    <3>1. \/ tv[q] = [content |-> onAir[q], tag |-> Data!TagOf(q)]
          \/ Data!Key(q) \in DOMAIN source /\ source[Data!Key(q)] # q
      BY DEF AppInv, SentIsHeld
    <3>2. q \in Packets /\ q # p
      BY <1>2, <1>9
    <3> QED
      BY <1>6, <1>7, <1>9, <3>1, <3>2
  <2> QED
    BY <1>1, <1>9, <2>1, <2>2 DEF AppInv, SentByLatest, CaptionsRouted
<1>10. CASE /\ Data!Routed(p) /\ KindOf(p) # "caption"
            /\ Data!Remember(Data!Key(p), Data!IntervalOf(p))
                 /\ Data!Due(Data!Key(p), Data!IntervalOf(p))
            /\ IF ~Sendable(p) THEN \/ Data!NotSent /\ onAir[p] \in Oversized
                                \/ Data!CountedAsSent(p, Data!Key(p))
                                \/ Data!Sent(p, Data!Key(p), Data!TagOf(p))
               ELSE Data!Sent(p, Data!Key(p), Data!TagOf(p))
  <2>1. /\ DOMAIN lastSent' \subseteq DOMAIN lastSent \cup {Data!Key(p)}
        /\ \A k \in DOMAIN lastSent' : k # Data!Key(p) => lastSent'[k] = lastSent[k]
        /\ lastSent'[Data!Key(p)] = now
        /\ IsFiniteSet(DOMAIN lastSent')
        /\ Cardinality(DOMAIN lastSent') <= MaxRememberedSends
    BY <1>2, <1>10, Remembered
  <2>2. /\ tv' \in [Packets -> Data!Has \cup {None}]
        /\ \A q \in Packets : q # p => tv'[q] = tv[q]
    BY <1>2, <1>5, <1>6, <1>10 DEF Data!NotSent, Data!CountedAsSent
  <2>3. source' = source \/ source' = Data!With(source, Data!Key(p), p)
    BY <1>10 DEF Data!NotSent, Data!CountedAsSent, Data!Sent
  <2>4. /\ DOMAIN source' \subseteq Data!Keys
             /\ \A k \in DOMAIN source' : source'[k] \in Packets
        /\ \A k \in DOMAIN source : k # Data!Key(p) => k \in DOMAIN source'
               /\ source'[k] = source[k]
    BY <1>2, <1>7, <1>10, <2>3
  <2>5. Data!TypeOK'
    <3>1. DOMAIN lastSent' \subseteq Data!Keys
            /\ \A k \in DOMAIN lastSent' : lastSent'[k] \in Data!Times
      BY <1>2, <1>4, <1>10, <2>1
    <3> QED
      BY <1>1, <2>1, <2>2, <2>4, <3>1, SameCounts DEF AppInv, Data!TypeOK
  <2>6. SentByLatest'
    <3> SUFFICES ASSUME NEW k \in DOMAIN lastSent'
                 PROVE  lastSent'[k] <= now \/ \E q \in Packets : lastSent'[k] <= since[q]
      BY <1>1 DEF SentByLatest
    <3>1. CASE k = Data!Key(p)
      BY <1>2, <2>1, <3>1 DEF Data!Times
    <3>2. CASE k # Data!Key(p)
      BY <2>1, <3>2 DEF AppInv, SentByLatest
    <3> QED
      BY <3>1, <3>2
  <2>7. SentIsHeld'
    <3> SUFFICES ASSUME NEW q \in DOMAIN packetIdToService, KindOf(q) # "caption",
                        Sendable(q), OwnerOf(q) \in mapService2Pid,
                        Data!Key(q) \in DOMAIN lastSent', lastSent'[Data!Key(q)] > since[q]
                 PROVE  \/ tv'[q] = [content |-> onAir[q], tag |-> Data!TagOf(q)]
                        \/ Data!Key(q) \in DOMAIN source' /\ source'[Data!Key(q)] # q
      BY <1>1, <1>3 DEF SentIsHeld
    <3>0. q \in Packets
      BY <1>2
    <3>1. CASE q = p
      BY <1>5, <1>6, <1>10, <3>1
    <3>2. CASE q # p /\ Data!Key(q) = Data!Key(p)
      <4>1. onAir[q] = onAir[p]
        BY <3>2 DEF Data!Key
      <4>2. onAir[p] \notin Oversized
        BY <4>1 DEF Sendable
      <4>3. source' = Data!With(source, Data!Key(p), p)
        BY <1>10, <4>2 DEF Data!CountedAsSent, Data!Sent
      <4> QED
        BY <1>7, <1>10, <3>2, <4>3
    <3>3. CASE Data!Key(q) # Data!Key(p)
      <4>1. Data!Key(q) \in DOMAIN lastSent
              /\ lastSent'[Data!Key(q)] = lastSent[Data!Key(q)]
        BY <2>1, <3>3
      <4>2. \/ tv[q] = [content |-> onAir[q], tag |-> Data!TagOf(q)]
            \/ Data!Key(q) \in DOMAIN source /\ source[Data!Key(q)] # q
        BY <4>1 DEF AppInv, SentIsHeld
      <4> QED
        BY <2>2, <2>4, <3>0, <3>3, <4>2
    <3> QED
      BY <3>1, <3>2, <3>3
  <2> QED
    BY <1>1, <2>1, <2>5, <2>6, <2>7 DEF AppInv, CaptionsRouted
<1> QED
  BY <1>8, <1>9, <1>10, SectionLeaves, Zenon

\* A section that comes when its content, route, tag and PID are an interval old
\* leaves the receiver with it.
LEMMA SectionCatchesUp ==
  ASSUME AppInv, Data!TransportAssumption, NEW p \in Packets, Data!OnSection(p),
         Data!Routed(p), OwnerOf(p) \in mapService2Pid,
         now >= since[p] + Data!IntervalOf(p), Sendable(p)
  PROVE  \/ tv'[p] = [content |-> onAir[p], tag |-> Data!TagOf(p)]
         \/ Data!Key(p) \in DOMAIN source /\ source[Data!Key(p)] # p
<1>1. /\ now \in Data!Times /\ since \in [Packets -> Data!Times]
           /\ tv \in [Packets -> Data!Has \cup {None}]
      /\ DOMAIN packetIdToEmtTag \subseteq {q \in DOMAIN packetIdToService : KindOf(q) = "emt"}
      /\ \A k \in DOMAIN lastSent : lastSent[k] \in Data!Times
      /\ KindOf(p) \in {"table", "emt", "item", "caption"}
      /\ TableInterval \in Nat /\ ItemInterval \in Nat /\ MaxTime \in Nat
      /\ packetIdToService[p] = OwnerOf(p)
  BY DEF AppInv, Data!TypeOK, Data!TransportAssumption, Data!Routed
<1>2. CASE Data!Sent(p, Data!Key(p), Data!TagOf(p))
  BY <1>1, <1>2 DEF Data!Sent
<1>3. CASE KindOf(p) = "caption"
  <2>1. packetIdToService[p] \in captionServices /\ onAir[p] \notin Oversized
    BY <1>3 DEF AppInv, CaptionsRouted, Data!Routed, Sendable
  <2>2. Data!TagOf(p) = None
    BY <1>1, <1>3 DEF Data!TagOf
  <2>3. Data!OnCaption(p)
    BY <1>3 DEF Data!OnSection, Data!OnTableSection, Data!OnItem
  <2> QED
    BY <1>2, <2>1, <2>2, <2>3 DEF Data!OnCaption
<1>4. CASE KindOf(p) # "caption" /\ ~Data!Due(Data!Key(p), Data!IntervalOf(p))
  <2>1. Data!Key(p) \in DOMAIN lastSent /\ lastSent[Data!Key(p)] > since[p]
    <3>1. PICK t : t = lastSent[Data!Key(p)]
      OBVIOUS
    <3>2. Data!Key(p) \in DOMAIN lastSent /\ ~(now < t
            \/ now - t >= Data!IntervalOf(p)) /\ t \in Data!Times
      BY <1>1, <1>4, <3>1 DEF Data!Due, Data!Elapsed
    <3>3. Data!IntervalOf(p) \in Nat
      BY <1>1, <1>4 DEF Data!IntervalOf
    <3>4. PICK i \in Nat : i = Data!IntervalOf(p)
      BY <3>3
    <3> QED
      BY <1>1, <3>1, <3>2, <3>4 DEF Data!Times
  <2>2. \/ tv[p] = [content |-> onAir[p], tag |-> Data!TagOf(p)]
        \/ Data!Key(p) \in DOMAIN source /\ source[Data!Key(p)] # p
    BY <1>4, <2>1 DEF AppInv, SentIsHeld, Data!Routed
  <2>3. tv' = tv
    BY <1>4, SectionLeaves
  <2> QED
    BY <2>2, <2>3
<1>5. CASE KindOf(p) # "caption" /\ Data!Due(Data!Key(p), Data!IntervalOf(p))
  <2>1. CASE Data!OnTableSection(p)
    <3>1. KindOf(p) \in {"table", "emt"} /\ Data!IntervalOf(p) = TableInterval
      BY <2>1 DEF Data!OnTableSection, Data!IntervalOf
    <3>2. KindOf(p) = "table" => Data!TagOf(p) = None
      BY <1>1 DEF Data!TagOf
    <3>3. KindOf(p) = "emt" => p \in DOMAIN packetIdToEmtTag
            /\ Data!TagOf(p) = packetIdToEmtTag[p]
      BY DEF Sendable, Data!TagOf
    <3> QED
      BY <1>2, <1>5, <2>1, <3>1, <3>2, <3>3 DEF Data!OnTableSection
  <2>2. CASE Data!OnItem(p)
    <3>1. KindOf(p) = "item" /\ Data!IntervalOf(p) = ItemInterval
      BY <2>2 DEF Data!OnItem, Data!IntervalOf
    <3>2. Data!TagOf(p) = None
      BY <1>1, <3>1 DEF Data!TagOf
    <3> QED
      BY <1>2, <1>5, <2>2, <3>1, <3>2 DEF Data!OnItem, Sendable
  <2> QED
    BY <1>5, <2>1, <2>2 DEF Data!OnSection, Data!OnCaption
<1> QED
  BY <1>3, <1>4, <1>5

\* The steps of the specification.
LEMMA AppStep ==
  ASSUME AppInv, Data!TransportAssumption, [Data!Next]_(Data!vars)
  PROVE  AppInv' /\ [Data!CatchesUp]_(Data!vars)
<1>1. ASSUME Data!Next PROVE AppInv' /\ Data!CatchesUp
  <2>1. AppInv'
    BY <1>1, ChangeStep, SectionStep, MptStep, PltStep, ClockStep, ClearStep DEF Data!Next
  <2>2. Data!CatchesUp
    BY SectionCatchesUp, Zenon DEF Data!CatchesUp, Sendable
  <2> QED
    BY <2>1, <2>2
<1>2. ASSUME UNCHANGED Data!vars PROVE AppInv'
  <2>1. \A p \in Packets : (Data!Key(p)' = Data!Key(p))
            /\ (Data!TagOf(p)' = Data!TagOf(p)) /\ (Sendable(p)' <=> Sendable(p))
    BY <1>2 DEF Data!vars, Data!Key, Data!TagOf, Sendable
  <2>2. DOMAIN packetIdToService \subseteq Packets
    BY DEF AppInv, Data!TypeOK
  <2>3. SentIsHeld'
    BY <1>2, <2>1, <2>2 DEF Data!vars, AppInv, SentIsHeld
  <2> QED
    BY <1>2, <2>3 DEF Data!vars, AppInv, Data!TypeOK, SentByLatest, CaptionsRouted
<1> QED
  BY <1>1, <1>2

\* A receiver of data broadcasting is at most one interval behind, whatever services,
\* contents and intervals there are, however much is remembered, and whatever was
\* dropped before the service had a PID.
THEOREM ReceiverCatchesUp ==
  ASSUME Data!TransportAssumption
  PROVE  Data!Spec => [][Data!CatchesUp]_(Data!vars)
<1>1. Data!Init => AppInv
  BY AppStart
<1>2. AppInv /\ [Data!Next]_(Data!vars) => AppInv' /\ [Data!CatchesUp]_(Data!vars)
  BY AppStep
<1> QED
  BY <1>1, <1>2, PTL DEF Data!Spec

-----------------------------------------------------------------------------
(* The conversion of a file, for every length of the input, chunk and      *)
(* buffer, wherever reading and writing fail.                              *)


-----------------------------------------------------------------------------
(* The inductive invariant.  It follows the data from the input to the     *)
(* file: none of them is in two places, and none is lost while the stream  *)
(* has not failed.                                                         *)

\* Input is not read twice, and a packet takes at least one byte of it.
InputAccounted ==
  /\ left + inputBuffer + produced <= InputSize
  /\ consumed + inputBuffer + left <= InputSize

\* Output is not written twice; without a failure none is missing.
OutputAccounted ==
  /\ disk + streamed + offset <= produced
  /\ ~failed => disk + streamed + offset = produced

\* The flags of the input are set at its end only.
EndIsEnd ==
  /\ eof => left = 0
  /\ inputEnded => eof

\* A round ends when the packet at the front is not whole; the one that has found
\* the end has nothing to consume.
RoundsEnd ==
  /\ at = "read" => File!ReadsMore /\ inputBuffer < next
  /\ at = "demux" /\ inputEnded => inputBuffer < next /\ consumed = 0
  /\ at = "commit" => failed \/ (inputEnded /\ inputBuffer < MaxPacket)

\* The exit code is set at the end, and 0 says what it should.
ExitAtEnd ==
  /\ exitCode # None => at = "done"
  /\ File!ExitZeroMeansWhole

Numbers ==
  /\ left \in Nat /\ inputBuffer \in Nat /\ consumed \in Nat
  /\ offset \in 0..BufferSize
  /\ streamed \in Nat /\ disk \in Nat /\ produced \in Nat
  /\ next \in 1..MaxPacket

Labels ==
  /\ mode \in {"file", "stdout", "decode"}
  /\ at \in {"read", "demux", "commit", "done"}
  /\ eof \in BOOLEAN /\ bad \in BOOLEAN /\ inputEnded \in BOOLEAN /\ failed \in BOOLEAN
  /\ exitCode \in {None, 0, 1}

ConvInv ==
  /\ Numbers /\ Labels
  /\ InputAccounted /\ OutputAccounted
  /\ EndIsEnd /\ RoundsEnd /\ ExitAtEnd

\* What the stream takes is in it or in the file, or the stream has failed.
LEMMA StreamTakes ==
  ASSUME NEW n \in Nat, streamed \in Nat, disk \in Nat, failed \in BOOLEAN, File!WriteStream(n)
  PROVE  /\ streamed' \in Nat /\ disk' \in Nat /\ failed' \in BOOLEAN
         /\ disk' + streamed' <= disk + streamed + n
         /\ ~failed' => ~failed /\ disk' + streamed' = disk + streamed + n
<1>1. CASE ~failed /\ streamed' = streamed + n /\ UNCHANGED <<failed, disk>>
  BY <1>1
<1>2. CASE /\ ~failed /\ disk' = disk + streamed + n /\ streamed' = 0
           /\ UNCHANGED failed
  BY <1>2
<1>3. CASE failed' = TRUE /\ UNCHANGED <<streamed, disk>>
  BY <1>3
<1> QED
  BY <1>1, <1>2, <1>3 DEF File!WriteStream

\* Initially nothing has been read.
LEMMA ConvInit == File!ConversionAssumption /\ File!Init => ConvInv
<1> SUFFICES ASSUME File!ConversionAssumption, File!Init PROVE ConvInv
  OBVIOUS
<1> USE DEF File!ConversionAssumption, File!Init
<1>1. Numbers
  BY DEF Numbers
<1>2. Labels
  BY DEF Labels
<1>3. InputAccounted /\ OutputAccounted
  BY DEF InputAccounted, OutputAccounted
<1>4. EndIsEnd /\ RoundsEnd /\ ExitAtEnd
  BY DEF EndIsEnd, RoundsEnd, File!ReadsMore, ExitAtEnd, File!ExitZeroMeansWhole
<1> QED
  BY <1>1, <1>2, <1>3, <1>4 DEF ConvInv

\* A read moves bytes from the input to the buffer.
LEMMA ConvRead ==
  ASSUME File!ConversionAssumption, ConvInv, File!Read
  PROVE  ConvInv'
<1> USE DEF File!ConversionAssumption, ConvInv, Numbers, Labels
<1>1. PICK n \in 0..left :
        /\ left' = left - n /\ inputBuffer' = inputBuffer + n
        /\ \/ /\ ~eof /\ ~bad /\ n = (IF left < ChunkSize THEN left ELSE ChunkSize)
              /\ eof' = (n < ChunkSize) /\ UNCHANGED bad
           \/ ~eof /\ ~bad /\ n < ChunkSize /\ bad' = TRUE /\ UNCHANGED eof
           \/ (eof \/ bad) /\ n = 0 /\ UNCHANGED <<eof, bad>>
        /\ inputEnded' = (n = 0 /\ eof')
  BY DEF File!Read
<1>2. /\ at = "read" /\ consumed' = 0
      /\ at' = IF inputBuffer' = 0 /\ inputEnded' THEN "commit" ELSE "demux"
      /\ UNCHANGED <<mode, next, exitCode, offset, streamed, failed, disk, produced>>
  BY DEF File!Read, File!out
<1>3. Numbers'
  BY <1>1, <1>2
<1>4. Labels'
  <2>1. eof' \in BOOLEAN
    <3>1. CASE UNCHANGED eof
      BY <3>1
    <3>2. CASE eof' = (n < ChunkSize) /\ n < ChunkSize
      BY <3>2
    <3>3. CASE eof' = (n < ChunkSize) /\ ~(n < ChunkSize)
      BY <3>3
    <3> QED
      BY <1>1, <3>1, <3>2, <3>3
  <2>2. bad' \in BOOLEAN
    BY <1>1
  <2>3. inputEnded' \in BOOLEAN
    BY <1>1
  <2> QED
    BY <1>2, <2>1, <2>2, <2>3
<1>5. EndIsEnd'
  BY <1>1 DEF EndIsEnd
<1>6. InputAccounted' /\ OutputAccounted'
  BY <1>1, <1>2 DEF InputAccounted, OutputAccounted
<1>7. RoundsEnd'
  <2>1. inputEnded' => inputBuffer' < next'
    BY <1>1, <1>2 DEF RoundsEnd
  <2> QED
    BY <1>2, <2>1 DEF RoundsEnd
<1>8. ExitAtEnd'
  BY <1>2 DEF ExitAtEnd, File!ExitZeroMeansWhole
<1> HIDE DEF Numbers, Labels
<1> QED
  BY <1>3, <1>4, <1>5, <1>6, <1>7, <1>8

\* A packet leaves the buffer, and what it brings goes to the stream or to the
\* buffer in front of it.
LEMMA ConvDemux ==
  ASSUME File!ConversionAssumption, ConvInv, File!Demux
  PROVE  ConvInv'
<1> USE DEF File!ConversionAssumption, ConvInv, Numbers, Labels
<1>1. /\ at = "demux" /\ inputBuffer >= next
      /\ inputBuffer' = inputBuffer - next /\ consumed' = consumed + next
      /\ next' \in 1..MaxPacket
      /\ UNCHANGED <<mode, at, left, eof, bad, inputEnded, exitCode>>
  BY DEF File!Demux
<1>2. /\ offset' \in 0..BufferSize
      /\ streamed' \in Nat /\ disk' \in Nat /\ produced' \in {produced, produced + 1}
      /\ failed' \in BOOLEAN
      /\ OutputAccounted'
  <2>1. CASE UNCHANGED File!out
    BY <2>1 DEF File!out, OutputAccounted
  <2>2. CASE produced' = produced + 1 /\ mode # "file" /\ File!WriteStream(1) /\ UNCHANGED offset
    BY <2>2, StreamTakes DEF OutputAccounted
  <2>3. CASE produced' = produced + 1 /\ mode = "file" /\ File!WriteBuffered
    <3>1. CASE offset + 1 > BufferSize
      BY <2>3, <3>1, StreamTakes DEF File!WriteBuffered, OutputAccounted
    <3>2. CASE ~(offset + 1 > BufferSize)
      BY <2>3, <3>2 DEF File!WriteBuffered, OutputAccounted
    <3> QED
      BY <3>1, <3>2
  <2> QED
    BY <2>1, <2>2, <2>3 DEF File!Demux
<1>3. InputAccounted'
  <2>1. /\ left \in Nat /\ inputBuffer \in Nat /\ consumed \in Nat
        /\ produced \in Nat /\ next \in Nat /\ next >= 1 /\ InputSize \in Nat
    OBVIOUS
  <2>2. /\ left + inputBuffer + produced <= InputSize
        /\ consumed + inputBuffer + left <= InputSize
    BY DEF InputAccounted
  <2>3. /\ consumed' = consumed + next /\ inputBuffer' = inputBuffer - next
        /\ left' = left /\ produced' \in Nat /\ produced' <= produced + 1
    BY <1>1, <1>2
  <2> HIDE DEF ConvInv, File!ConversionAssumption
  <2>4. left' + inputBuffer' + produced' <= InputSize
    <3>1. ASSUME NEW l \in Nat, NEW b \in Nat, NEW p \in Nat, NEW q \in Nat,
                 NEW n \in Nat, NEW s \in Nat,
                 n >= 1, q <= p + 1, l + b + p <= s
          PROVE  l + (b - n) + q <= s
      BY <3>1
    <3> QED
      BY <2>1, <2>2, <2>3, <3>1
  <2>5. consumed' + inputBuffer' + left' <= InputSize
    BY <2>1, <2>2, <2>3
  <2> QED
    BY <2>4, <2>5 DEF InputAccounted
<1>4. EndIsEnd' /\ RoundsEnd' /\ ExitAtEnd'
  BY <1>1 DEF EndIsEnd, RoundsEnd, ExitAtEnd, File!ExitZeroMeansWhole
<1> QED
  BY <1>1, <1>2, <1>3, <1>4

\* A round that made no progress at the end of the input is the last one.
LEMMA ConvEndRound ==
  ASSUME File!ConversionAssumption, ConvInv, File!EndRound
  PROVE  ConvInv'
<1> USE DEF File!ConversionAssumption, ConvInv, Numbers, Labels
<1>1. UNCHANGED <<mode, left, eof, bad, inputBuffer, inputEnded, next, consumed,
                  offset, streamed, failed, disk, produced, exitCode>>
  BY DEF File!EndRound, File!in, File!out
<1>2. /\ at = "demux" /\ inputBuffer < next
      /\ at' = IF failed \/ File!StopsWithoutProgress THEN "commit" ELSE "read"
  BY DEF File!EndRound
<1>3. RoundsEnd'
  BY <1>1, <1>2 DEF RoundsEnd, File!ReadsMore, File!StopsWithoutProgress
<1>4. ExitAtEnd'
  BY <1>1, <1>2 DEF ExitAtEnd, File!ExitZeroMeansWhole
<1> QED
  BY <1>1, <1>2, <1>3, <1>4 DEF InputAccounted, OutputAccounted, EndIsEnd

\* The tail is flushed before the exit code is decided.
LEMMA ConvCommit ==
  ASSUME File!ConversionAssumption, ConvInv, File!Commit
  PROVE  ConvInv'
<1> USE DEF File!ConversionAssumption, ConvInv, Numbers, Labels
<1>1. /\ at = "commit" /\ at' = "done" /\ offset' = 0
      /\ exitCode' = IF failed' THEN 1 ELSE 0
      /\ UNCHANGED <<mode, left, eof, bad, inputBuffer, inputEnded, next, consumed,
                     produced>>
  BY DEF File!Commit, File!Flushed, File!in
<1>2. \/ /\ failed = FALSE /\ failed' = FALSE
         /\ disk' = disk + streamed + offset /\ streamed' = 0
      \/ failed' = TRUE /\ UNCHANGED <<streamed, disk>>
  BY DEF File!Commit, File!Flushed
<1>3. Numbers' /\ InputAccounted' /\ OutputAccounted' /\ EndIsEnd'
  BY <1>1, <1>2 DEF InputAccounted, OutputAccounted, EndIsEnd
<1>4. Labels'
  <2>1. CASE ~failed'
    BY <1>1, <1>2, <2>1
  <2>2. CASE failed' = TRUE
    BY <1>1, <2>2
  <2> QED
    BY <1>2, <2>1, <2>2
<1>5. RoundsEnd'
  BY <1>1 DEF RoundsEnd
<1>6. ExitAtEnd'
  BY <1>1, <1>2
  DEF ExitAtEnd, File!ExitZeroMeansWhole, OutputAccounted, RoundsEnd, EndIsEnd
<1> HIDE DEF Numbers, Labels
<1> QED
  BY <1>3, <1>4, <1>5, <1>6

\* Every step keeps it.
LEMMA ConvStep == File!ConversionAssumption /\ ConvInv /\ [File!Next]_(File!vars) => ConvInv'
<1> SUFFICES ASSUME File!ConversionAssumption, ConvInv, [File!Next]_(File!vars) PROVE ConvInv'
  OBVIOUS
<1>1. CASE UNCHANGED File!vars
  BY <1>1
  DEF File!vars, ConvInv, Numbers, Labels, InputAccounted, OutputAccounted,
      EndIsEnd, RoundsEnd, File!ReadsMore, ExitAtEnd, File!ExitZeroMeansWhole
<1> QED
  BY <1>1, ConvRead, ConvDemux, ConvEndRound, ConvCommit DEF File!Next

\* The inductive invariant holds in every reachable state.
LEMMA ConvInvariant ==
  ASSUME File!ConversionAssumption
  PROVE  File!Spec => []ConvInv
<1>1. File!Init => ConvInv
  BY ConvInit
<1>2. ConvInv /\ [File!Next]_(File!vars) => ConvInv'
  BY ConvStep
<1>3. QED
  BY <1>1, <1>2, PTL DEF File!Spec

-----------------------------------------------------------------------------
\* The accounts bound what is counted.
LEMMA ConvTypes ==
  ASSUME File!ConversionAssumption, ConvInv
  PROVE  File!TypeOK
<1> USE DEF ConvInv
<1>1. /\ left \in 0..InputSize /\ inputBuffer \in 0..InputSize
      /\ produced \in 0..InputSize
  BY DEF File!ConversionAssumption, Numbers, InputAccounted
<1>2. streamed \in 0..InputSize /\ disk \in 0..InputSize
  BY <1>1 DEF File!ConversionAssumption, Numbers, OutputAccounted
<1>3. consumed \in 0..inputBuffer + InputSize
  BY DEF File!ConversionAssumption, Numbers, InputAccounted
<1>4. {eof, bad, inputEnded, failed} \subseteq BOOLEAN
  BY DEF Labels
<1> QED
  BY <1>1, <1>2, <1>3, <1>4 DEF File!TypeOK, Numbers, Labels, RoundsEnd

\* Type correctness: no counter exceeds the input, no buffer its size, and main
\* reads only when there is room for a chunk.
THEOREM ConversionTyped ==
  ASSUME File!ConversionAssumption
  PROVE  File!Spec => []File!TypeOK
<1>1. ConvInv => File!TypeOK
  BY ConvTypes
<1>2. QED
  BY <1>1, ConvInvariant, PTL

\* Exit code 0 means that the whole input was converted and that all of the output
\* is in the file, wherever the buffers end and whatever else may fail.
THEOREM ExitZeroIsWhole ==
  ASSUME File!ConversionAssumption
  PROVE  File!Spec => []File!ExitZeroMeansWhole
<1>1. ConvInv => File!ExitZeroMeansWhole
  BY DEF ConvInv, ExitAtEnd
<1>2. QED
  BY <1>1, ConvInvariant, PTL

-----------------------------------------------------------------------------
(* Captions: the inductive invariant.                                      *)

\* Those that wait are of different numbers, which have been sent.
WaitingOnce ==
  /\ \A i \in DOMAIN pending : pending[i].id \in 1..sent
  /\ \A i, j \in DOMAIN pending : pending[i].id = pending[j].id => i = j

\* Management data was written when it was due, or later.
Recent(m) ==
  \/ m.told = None /\ m.managed = 0
  \/ m.told # None /\ m.managed <= m.told

ManagementNow == [managed |-> managed, told |-> told]

NoneBefore == \A d \in 1..MaxDocuments : d > sent => fates[d] = 0

CaptionsInv ==
  /\ Subtitles!TypeOK
  /\ Subtitles!EachCaptionOnce /\ WaitingOnce /\ NoneBefore
  /\ clock # 0 => clock >= Start
  /\ ~early => Recent(ManagementNow)
  /\ Subtitles!ShownInTime /\ Subtitles!LanguageIsKnown

-----------------------------------------------------------------------------
(* What is picked from a sequence.                                         *)

LEMMA PickingExists ==
  ASSUME NEW s, Len(s) \in Nat, NEW chosen
  PROVE  \E f : f = [k \in 0..Len(s) |->
                       IF k = 0 THEN <<>>
                       ELSE IF s[k] \in chosen THEN Append(f[k - 1], s[k]) ELSE f[k - 1]]
<1> DEFINE step(u, k) == IF s[k] \in chosen THEN Append(u, s[k]) ELSE u
           G(f, n) == f = [k \in 0..n |-> IF k = 0 THEN <<>> ELSE step(f[k - 1], k)]
           T == {n \in 0..Len(s) : \E f : G(f, n)}
<1>1. 0 \in T
  <2>1. PICK f : f = [k \in 0..0 |-> <<>>]
    OBVIOUS
  <2>2. G(f, 0)
    BY <2>1
  <2> QED
    BY <2>2
<1>2. ASSUME NEW n \in 1..Len(s), n - 1 \in T PROVE n \in T
  <2> HIDE DEF step
  <2>1. PICK f : G(f, n - 1)
    BY <1>2
  <2>2. PICK g : g = [k \in 0..n |-> IF k = n THEN step(f[n - 1], n) ELSE f[k]]
    OBVIOUS
  <2>3. PICK h : h = [k \in 0..n |-> IF k = 0 THEN <<>> ELSE step(g[k - 1], k)]
    OBVIOUS
  <2>4. ASSUME NEW k \in 0..n PROVE g[k] = h[k]
    <3>1. CASE k = 0
      <4>1. 0 \in 0..(n - 1) /\ k # n
        BY <3>1
      <4>2. f[0] = <<>>
        BY <2>1, <4>1
      <4> QED
        BY <2>2, <2>3, <3>1, <4>1, <4>2
    <3>2. CASE k # 0 /\ k # n
      <4>1. k \in 0..(n - 1) /\ k - 1 \in 0..n /\ k - 1 # n
        BY <3>2
      <4>2. f[k] = step(f[k - 1], k)
        BY <2>1, <3>2, <4>1
      <4>3. g[k - 1] = f[k - 1] /\ g[k] = f[k] /\ h[k] = step(g[k - 1], k)
        BY <2>2, <2>3, <3>2, <4>1
      <4> QED
        BY <4>2, <4>3
    <3>3. CASE k = n
      <4>1. n - 1 \in 0..n /\ n - 1 # n /\ n # 0 /\ n \in 0..n
        OBVIOUS
      <4>2. g[n - 1] = f[n - 1] /\ g[n] = step(f[n - 1], n) /\ h[n] = step(g[n - 1], n)
        BY <2>2, <2>3, <4>1
      <4> QED
        BY <3>3, <4>2
    <3> QED
      BY <3>1, <3>2, <3>3
  <2>5. g = h
    BY <2>2, <2>3, <2>4
  <2>6. G(g, n)
    BY <2>3, <2>5
  <2> QED
    BY <2>6
<1>3. \A n \in 0..Len(s) : n \in T
  <2> HIDE DEF T
  <2> QED
    BY <1>1, <1>2, UpTo
<1>4. \E f : G(f, Len(s))
  BY <1>3
<1> QED
  BY <1>4

LEMMA InformingSteps ==
  ASSUME NEW m, NEW d, Len(d.says) \in Nat
  PROVE  /\ Subtitles!Informing(m, d, 0) = m
         /\ \A n \in 1..Len(d.says) : Subtitles!Informing(m, d, n) =
              Subtitles!Managed(Subtitles!Informing(m, d, n - 1), Subtitles!ManagementTime(Subtitles!PtsOf(d, d.says[n])), clock)
<1> DEFINE step(u, k) == Subtitles!Managed(u, Subtitles!ManagementTime(Subtitles!PtsOf(d, d.says[k])), clock)
           G(f, n) == f = [k \in 0..n |-> IF k = 0 THEN m ELSE step(f[k - 1], k)]
           T == {n \in 0..Len(d.says) : \E f : G(f, n)}
           after == CHOOSE f : G(f, Len(d.says))
<1>1. 0 \in T
  <2>1. PICK f : f = [k \in 0..0 |-> m]
    OBVIOUS
  <2>2. G(f, 0)
    BY <2>1
  <2> QED
    BY <2>2
<1>2. ASSUME NEW n \in 1..Len(d.says), n - 1 \in T PROVE n \in T
  <2> HIDE DEF step
  <2>1. PICK f : G(f, n - 1)
    BY <1>2
  <2>2. PICK g : g = [k \in 0..n |-> IF k = n THEN step(f[n - 1], n) ELSE f[k]]
    OBVIOUS
  <2>3. PICK h : h = [k \in 0..n |-> IF k = 0 THEN m ELSE step(g[k - 1], k)]
    OBVIOUS
  <2>4. ASSUME NEW k \in 0..n PROVE g[k] = h[k]
    <3>1. CASE k = 0
      <4>1. 0 \in 0..(n - 1) /\ k # n
        BY <3>1
      <4>2. f[0] = m
        BY <2>1, <4>1
      <4> QED
        BY <2>2, <2>3, <3>1, <4>1, <4>2
    <3>2. CASE k # 0 /\ k # n
      <4>1. k \in 0..(n - 1) /\ k - 1 \in 0..n /\ k - 1 # n
        BY <3>2
      <4>2. f[k] = step(f[k - 1], k)
        BY <2>1, <3>2, <4>1
      <4>3. g[k - 1] = f[k - 1] /\ g[k] = f[k] /\ h[k] = step(g[k - 1], k)
        BY <2>2, <2>3, <3>2, <4>1
      <4> QED
        BY <4>2, <4>3
    <3>3. CASE k = n
      <4>1. n - 1 \in 0..n /\ n - 1 # n /\ n # 0 /\ n \in 0..n
        OBVIOUS
      <4>2. g[n - 1] = f[n - 1] /\ g[n] = step(f[n - 1], n) /\ h[n] = step(g[n - 1], n)
        BY <2>2, <2>3, <4>1
      <4> QED
        BY <3>3, <4>2
    <3> QED
      BY <3>1, <3>2, <3>3
  <2>5. g = h
    BY <2>2, <2>3, <2>4
  <2>6. G(g, n)
    BY <2>3, <2>5
  <2> QED
    BY <2>6
<1>3. \A n \in 0..Len(d.says) : n \in T
  <2> HIDE DEF T
  <2> QED
    BY <1>1, <1>2, UpTo
<1>4. \E f : G(f, Len(d.says))
  BY <1>3
<1>5. G(after, Len(d.says))
  <2> HIDE DEF G
  <2> QED
    BY <1>4, Zenon
<1>6. \A n : Subtitles!Informing(m, d, n) = after[n]
  BY Zenon DEF Subtitles!Informing
<1>7. 0 \in 0..Len(d.says) /\ \A n \in 1..Len(d.says) : n \in 0..Len(d.says) /\ n # 0
  OBVIOUS
<1>8. /\ after[0] = m
      /\ \A n \in 1..Len(d.says) :
           after[n] = Subtitles!Managed(after[n - 1], Subtitles!ManagementTime(Subtitles!PtsOf(d, d.says[n])), clock)
  <2> HIDE DEF after
  <2> QED
    BY <1>5, <1>7, Zenon
<1> QED
  <2> HIDE DEF after
  <2> QED
    BY <1>6, <1>8, Zenon

\* And after the documents of a sequence, one after another.
InformsAll(m, s) ==
  /\ Subtitles!InformingAll(m, s, 0) = m
  /\ \A n \in 1..Len(s) : Subtitles!InformingAll(m, s, n) =
       Subtitles!Informing(Subtitles!InformingAll(m, s, n - 1), s[n], Len(s[n].says))

LEMMA InformingAllSteps ==
  ASSUME NEW m, NEW s, Len(s) \in Nat
  PROVE  InformsAll(m, s)
<1> DEFINE step(u, k) == Subtitles!Informing(u, s[k], Len(s[k].says))
           G(f, n) == f = [k \in 0..n |-> IF k = 0 THEN m ELSE step(f[k - 1], k)]
           T == {n \in 0..Len(s) : \E f : G(f, n)}
           after == CHOOSE f : G(f, Len(s))
<1>1. 0 \in T
  <2>1. PICK f : f = [k \in 0..0 |-> m]
    OBVIOUS
  <2>2. G(f, 0)
    BY <2>1
  <2> QED
    BY <2>2
<1>2. ASSUME NEW n \in 1..Len(s), n - 1 \in T PROVE n \in T
  <2> HIDE DEF step
  <2>1. PICK f : G(f, n - 1)
    BY <1>2
  <2>2. PICK g : g = [k \in 0..n |-> IF k = n THEN step(f[n - 1], n) ELSE f[k]]
    OBVIOUS
  <2>3. PICK h : h = [k \in 0..n |-> IF k = 0 THEN m ELSE step(g[k - 1], k)]
    OBVIOUS
  <2>4. ASSUME NEW k \in 0..n PROVE g[k] = h[k]
    <3>1. CASE k = 0
      <4>1. 0 \in 0..(n - 1) /\ k # n
        BY <3>1
      <4>2. f[0] = m
        BY <2>1, <4>1
      <4> QED
        BY <2>2, <2>3, <3>1, <4>1, <4>2
    <3>2. CASE k # 0 /\ k # n
      <4>1. k \in 0..(n - 1) /\ k - 1 \in 0..n /\ k - 1 # n
        BY <3>2
      <4>2. f[k] = step(f[k - 1], k)
        BY <2>1, <3>2, <4>1
      <4>3. g[k - 1] = f[k - 1] /\ g[k] = f[k] /\ h[k] = step(g[k - 1], k)
        BY <2>2, <2>3, <3>2, <4>1
      <4> QED
        BY <4>2, <4>3
    <3>3. CASE k = n
      <4>1. n - 1 \in 0..n /\ n - 1 # n /\ n # 0 /\ n \in 0..n
        OBVIOUS
      <4>2. g[n - 1] = f[n - 1] /\ g[n] = step(f[n - 1], n) /\ h[n] = step(g[n - 1], n)
        BY <2>2, <2>3, <4>1
      <4> QED
        BY <3>3, <4>2
    <3> QED
      BY <3>1, <3>2, <3>3
  <2>5. g = h
    BY <2>2, <2>3, <2>4
  <2>6. G(g, n)
    BY <2>3, <2>5
  <2> QED
    BY <2>6
<1>3. \A n \in 0..Len(s) : n \in T
  <2> HIDE DEF T
  <2> QED
    BY <1>1, <1>2, UpTo
<1>4. \E f : G(f, Len(s))
  BY <1>3
<1>5. G(after, Len(s))
  <2> HIDE DEF G
  <2> QED
    BY <1>4, Zenon
<1>6. \A n : Subtitles!InformingAll(m, s, n) = after[n]
  BY Zenon DEF Subtitles!InformingAll
<1>7. 0 \in 0..Len(s) /\ \A n \in 1..Len(s) : n \in 0..Len(s) /\ n # 0
  OBVIOUS
<1>8. /\ after[0] = m
      /\ \A n \in 1..Len(s) :
           after[n] = Subtitles!Informing(after[n - 1], s[n], Len(s[n].says))
  <2> HIDE DEF after
  <2> QED
    BY <1>5, <1>7, Zenon
<1> QED
  <2> HIDE DEF after
  <2> QED
    BY <1>6, <1>8, Zenon DEF InformsAll


Once(s) == \A i, j \in 1..Len(s) : s[i].id = s[j].id => i = j

\* What is picked are elements of the sequence, in its order: all those of the set, and
\* none twice.
LEMMA PickedIs ==
  ASSUME NEW S, NEW s \in Seq(S), NEW chosen, NEW p, p = Subtitles!Picked(s, chosen)
  PROVE  /\ p \in Seq(S) /\ Len(p) \in 0..Len(s)
         /\ \A i \in 1..Len(p) : p[i] \in chosen /\ \E j \in 1..Len(s) : p[i] = s[j]
         /\ \A j \in 1..Len(s) : s[j] \in chosen => \E i \in 1..Len(p) : p[i] = s[j]
         /\ Once(s) => Once(p)
<1> DEFINE G(f) == f = [k \in 0..Len(s) |->
                       IF k = 0 THEN <<>>
                       ELSE IF s[k] \in chosen THEN Append(f[k - 1], s[k]) ELSE f[k - 1]]
           first == CHOOSE f : G(f)
           A(q, n) == q \in Seq(S) /\ Len(q) \in 0..n
           B(q, n) == \A i \in 1..Len(q) : q[i] \in chosen /\ \E j \in 1..n : q[i] = s[j]
           C(q, n) == \A j \in 1..n : s[j] \in chosen => \E i \in 1..Len(q) : q[i] = s[j]
           D(q) == Once(s) => Once(q)
           T == {n \in 0..Len(s) : A(first[n], n) /\ B(first[n], n) /\ C(first[n], n) /\ D(first[n])}
<1>1. Len(s) \in Nat
  OBVIOUS
<1>2. G(first)
  <2>1. \E f : G(f)
    BY <1>1, PickingExists
  <2> HIDE DEF G
  <2> QED
    BY <2>1, Zenon
<1>3. Subtitles!Picked(s, chosen) = first[Len(s)]
  BY Zenon DEF Subtitles!Picked
<1>4. first[0] = <<>>
  <2>1. 0 \in 0..Len(s)
    BY <1>1
  <2> HIDE DEF first
  <2> QED
    BY <1>2, <2>1
<1>5. \A n \in 1..Len(s) : first[n] = IF s[n] \in chosen THEN Append(first[n - 1], s[n])
                                      ELSE first[n - 1]
  <2>1. \A n \in 1..Len(s) : n \in 0..Len(s) /\ n # 0
    OBVIOUS
  <2> HIDE DEF first
  <2> QED
    BY <1>2, <2>1
<1> HIDE DEF first
<1>6. 0 \in T
  <2>1. PICK q : q = first[0]
    OBVIOUS
  <2>2. q \in Seq(S) /\ Len(q) = 0
    BY <1>4, <2>1
  <2>3. A(q, 0) /\ B(q, 0) /\ C(q, 0) /\ D(q)
    BY <2>2 DEF Once
  <2> QED
    BY <1>1, <2>1, <2>3
<1>7. ASSUME NEW n \in 1..Len(s), n - 1 \in T PROVE n \in T
  <2>1. PICK q : q = first[n - 1]
    OBVIOUS
  <2>2. A(q, n - 1) /\ B(q, n - 1) /\ C(q, n - 1) /\ D(q)
    BY <1>7, <2>1
  <2>3. n \in 0..Len(s) /\ s[n] \in S /\ n \in Nat
    OBVIOUS
  <2>4. CASE s[n] \notin chosen
    <3>1. first[n] = q
      BY <1>5, <2>1, <2>4
    <3>2. A(q, n) /\ B(q, n)
      BY <2>2
    <3>3. C(q, n)
      <4>1. ASSUME NEW j \in 1..n, s[j] \in chosen PROVE j \in 1..(n - 1)
        BY <2>4, <4>1
      <4> QED
        BY <2>2, <4>1
    <3> QED
      BY <2>2, <2>3, <3>1, <3>2, <3>3
  <2>5. CASE s[n] \in chosen
    <3>1. PICK r : r = Append(q, s[n])
      OBVIOUS
    <3>2. first[n] = r
      BY <1>5, <2>1, <2>5, <3>1
    <3>3. /\ r \in Seq(S) /\ Len(r) = Len(q) + 1 /\ Len(q) \in 0..(n - 1)
          /\ r[Len(q) + 1] = s[n]
          /\ \A i \in 1..Len(q) : r[i] = q[i]
      BY <2>2, <2>3, <3>1
    <3>4. A(r, n)
      BY <3>3
    <3>5. \A i \in 1..Len(r) : i \in 1..Len(q) \/ i = Len(q) + 1
      BY <3>3
    <3>6. B(r, n)
      <4>1. \A j \in 1..(n - 1) : j \in 1..n
        OBVIOUS
      <4>2. n \in 1..n
        OBVIOUS
      <4>3. ASSUME NEW i \in 1..Len(q) PROVE r[i] \in chosen /\ \E j \in 1..n : r[i] = s[j]
        <5>1. r[i] = q[i]
          BY <3>3
        <5>2. q[i] \in chosen /\ \E j \in 1..(n - 1) : q[i] = s[j]
          BY <2>2
        <5> QED
          BY <4>1, <5>1, <5>2, Zenon
      <4>4. r[Len(q) + 1] \in chosen /\ \E j \in 1..n : r[Len(q) + 1] = s[j]
        BY <2>5, <3>3, <4>2
      <4> QED
        BY <3>5, <4>3, <4>4
    <3>7. C(r, n)
      <4>1. \A j \in 1..n : j \in 1..(n - 1) \/ j = n
        OBVIOUS
      <4>2. \A i \in 1..Len(q) : i \in 1..Len(r)
        BY <3>3
      <4>3. Len(q) + 1 \in 1..Len(r)
        BY <3>3
      <4> QED
        BY <2>2, <3>3, <4>1, <4>2, <4>3
    <3>8. D(r)
      <4> SUFFICES ASSUME Once(s), NEW i \in 1..Len(r), NEW j \in 1..Len(r), r[i].id = r[j].id
                   PROVE  i = j
        BY DEF Once
      <4>1. \A k \in 1..Len(q) : q[k].id # s[n].id
        <5>1. \A l \in 1..(n - 1) : l # n /\ l \in 1..Len(s)
          OBVIOUS
        <5>2. \A l \in 1..(n - 1) : s[l].id # s[n].id
          BY <5>1 DEF Once
        <5> QED
          BY <2>2, <5>2
      <4>2. \A k, l \in 1..Len(q) : q[k].id = q[l].id => k = l
        BY <2>2 DEF Once
      <4> QED
        BY <3>3, <3>5, <4>1, <4>2
    <3> QED
      BY <2>3, <3>2, <3>4, <3>6, <3>7, <3>8
  <2> QED
    BY <2>4, <2>5
<1>8. Len(s) \in T
  <2>1. \A n \in 0..Len(s) : n \in T
    <3> HIDE DEF T
    <3> QED
      BY <1>1, <1>6, <1>7, UpTo
  <2> HIDE DEF T
  <2> QED
    BY <1>1, <2>1
<1>9. A(p, Len(s)) /\ B(p, Len(s)) /\ C(p, Len(s)) /\ D(p)
  BY <1>3, <1>8
<1> QED
  BY <1>9

-----------------------------------------------------------------------------
(* The times of statements.                                                *)

LEMMA DocumentTyped ==
  ASSUME Subtitles!CaptionsAssumption, NEW d \in Subtitles!Documents
  PROVE  /\ d.id \in 1..MaxDocuments /\ d.codes \subseteq Codes
         /\ d.reference \in Nat \cup {None}
         /\ Len(d.says) \in Nat \ {0} /\ DOMAIN d.says = 1..Len(d.says)
         /\ \A n \in 1..Len(d.says) :
              /\ d.says[n].clear \in BOOLEAN /\ Subtitles!Offset(d.says[n].begin) \in Nat
              /\ Subtitles!Offset(d.says[1].begin) <= Subtitles!Offset(d.says[n].begin)
<1>1. PICK item \in Menu, n \in 1..MaxDocuments : d = Subtitles!Numbered(item, n)
  BY DEF Subtitles!Documents
<1>2. /\ d.id = n /\ d.codes = item.codes /\ d.reference = item.reference
      /\ d.says = item.says
  BY <1>1 DEF Subtitles!Numbered
<1>3. /\ item.codes \subseteq Codes /\ item.reference \in Nat \cup {None}
      /\ item.says \in Seq([begin : Nat \cup {None}, clear : BOOLEAN]) \ {<<>>}
      /\ \A i, j \in DOMAIN item.says :
           i < j => Subtitles!Offset(item.says[i].begin) <= Subtitles!Offset(item.says[j].begin)
  BY DEF Subtitles!CaptionsAssumption
<1>4. PICK says : says = item.says
  OBVIOUS
<1>5. Len(says) \in Nat \ {0} /\ DOMAIN says = 1..Len(says)
  BY <1>3, <1>4
<1>6. ASSUME NEW k \in 1..Len(says)
      PROVE  /\ says[k].clear \in BOOLEAN /\ Subtitles!Offset(says[k].begin) \in Nat
             /\ Subtitles!Offset(says[1].begin) <= Subtitles!Offset(says[k].begin)
  <2>1. says[k] \in [begin : Nat \cup {None}, clear : BOOLEAN]
    <3>1. PICK R : R = [begin : Nat \cup {None}, clear : BOOLEAN]
      OBVIOUS
    <3>2. says \in Seq(R)
      BY <1>3, <1>4, <3>1
    <3>3. says[k] \in R
      BY <3>2
    <3> QED
      BY <3>1, <3>3
  <2>2. says[k].clear \in BOOLEAN /\ Subtitles!Offset(says[k].begin) \in Nat
    BY <2>1 DEF Subtitles!Offset
  <2>3. CASE k = 1
    BY <2>2, <2>3
  <2>4. CASE k # 1
    <3>1. 1 \in DOMAIN says /\ k \in DOMAIN says /\ 1 < k
      BY <1>5, <2>4
    <3> QED
      BY <1>3, <1>4, <2>2, <3>1
  <2> QED
    BY <2>3, <2>4
<1> QED
  BY <1>2, <1>3, <1>4, <1>5, <1>6

LEMMA PtsTyped ==
  ASSUME Subtitles!CaptionsAssumption, NEW d \in Subtitles!Documents, clock \in Nat,
         NEW n \in 1..Len(d.says)
  PROVE  /\ Subtitles!PtsOf(d, d.says[n]) \in Nat
         /\ clock # 0 =>
              /\ Subtitles!PtsOf(d, d.says[n]) >= clock
              /\ d.says[n].clear => Subtitles!PtsOf(d, d.says[n]) = clock
              /\ Subtitles!PtsOf(d, d.says[1]) <= clock + MaxLead + Subtitles!Offset(d.says[1].begin)
              /\ ~d.says[1].clear /\ ~d.says[n].clear =>
                   Subtitles!PtsOf(d, d.says[n]) - Subtitles!PtsOf(d, d.says[1])
                     = Subtitles!Offset(d.says[n].begin) - Subtitles!Offset(d.says[1].begin)
<1>1. PICK r : r = d.reference
  OBVIOUS
<1>2. PICK x : x = Subtitles!Offset(d.says[n].begin)
  OBVIOUS
<1>3. PICK y : y = Subtitles!Offset(d.says[1].begin)
  OBVIOUS
<1>4. PICK c : c = d.says[n].clear
  OBVIOUS
<1>5. PICK g : g = d.says[1].clear
  OBVIOUS
<1>6. PICK b : b = Subtitles!Base(d)
  OBVIOUS
<1>7. /\ r \in Nat \cup {None} /\ x \in Nat /\ y \in Nat /\ y <= x
      /\ c \in BOOLEAN /\ g \in BOOLEAN
  <2>1. 1 \in 1..Len(d.says)
    OBVIOUS
  <2> QED
    BY <1>1, <1>2, <1>3, <1>4, <1>5, <2>1, DocumentTyped
<1>8. MaxLead \in Nat /\ None \notin Nat
  BY DEF Subtitles!CaptionsAssumption
<1>9. b \in Nat /\ (clock # 0 => b = clock \/ b + y <= clock + MaxLead)
  BY <1>1, <1>3, <1>6, <1>7, <1>8 DEF Subtitles!Base
<1>10. PICK p : p = Subtitles!Shifted(b, x, y)
  OBVIOUS
<1>11. PICK q : q = Subtitles!Shifted(b, y, y)
  OBVIOUS
<1>12. /\ p \in Nat /\ q \in Nat /\ p - q = x - y
       /\ p >= clock /\ q >= clock
       /\ clock # 0 => q <= clock + MaxLead + y
  BY <1>7, <1>8, <1>9, <1>10, <1>11 DEF Subtitles!Shifted
<1>13. Subtitles!PtsOf(d, d.says[n]) = IF c /\ clock # 0 /\ p > clock THEN clock ELSE p
  BY <1>2, <1>3, <1>4, <1>6, <1>10, Zenon DEF Subtitles!PtsOf
<1>14. Subtitles!PtsOf(d, d.says[1]) = IF g /\ clock # 0 /\ q > clock THEN clock ELSE q
  BY <1>3, <1>5, <1>6, <1>11, Zenon DEF Subtitles!PtsOf
<1>15. PICK u : u = Subtitles!PtsOf(d, d.says[n])
  OBVIOUS
<1>16. PICK v : v = Subtitles!PtsOf(d, d.says[1])
  OBVIOUS
<1>17. /\ u \in Nat
       /\ clock # 0 => /\ u >= clock /\ (c => u = clock)
                       /\ v <= clock + MaxLead + y
                       /\ ~g /\ ~c => u - v = x - y
  BY <1>7, <1>8, <1>12, <1>13, <1>14, <1>15, <1>16
<1> QED
  BY <1>2, <1>3, <1>4, <1>5, <1>15, <1>16, <1>17

-----------------------------------------------------------------------------
(* Management data before statements.                                      *)

ManagementTyped(m) == m.managed \in Nat /\ m.told \in Nat \cup {None}

LEMMA ManagedKeeps ==
  ASSUME Subtitles!CaptionsAssumption, NEW m, ManagementTyped(m), NEW t \in Nat, NEW moment \in Nat
  PROVE  /\ ManagementTyped(Subtitles!Managed(m, t, moment))
         /\ Recent(m) /\ t <= moment => Recent(Subtitles!Managed(m, t, moment))
         /\ Recent(m) /\ t = moment /\ moment = clock /\ clock >= Start => Subtitles!Informed(Subtitles!Managed(m, t, moment))
<1>1. PICK a : a = m.managed
  OBVIOUS
<1>2. PICK b : b = m.told
  OBVIOUS
<1>3. PICK w : w = Subtitles!Managed(m, t, moment)
  OBVIOUS
<1>4. a \in Nat /\ b \in Nat \cup {None}
  BY <1>1, <1>2 DEF ManagementTyped
<1>5. Cadence \in Nat \ {0} /\ Start \in Nat /\ Cadence <= Start /\ None \notin Nat
  BY DEF Subtitles!CaptionsAssumption
<1>6. Recent(m) <=> ((b = None /\ a = 0) \/ (b # None /\ a <= b))
  BY <1>1, <1>2, Zenon DEF Recent
<1>7. CASE a + Cadence <= t
  <2>1. w = [managed |-> IF a = 0 \/ a + 2 * Cadence <= t THEN t ELSE a + Cadence, told |-> moment]
    BY <1>1, <1>3, <1>7, Zenon DEF Subtitles!Managed, Subtitles!Due
  <2>2. w.told = moment /\ w.managed = IF a = 0 \/ a + 2 * Cadence <= t THEN t ELSE a + Cadence
    BY <2>1
  <2>3. PICK c : c = w.managed
    OBVIOUS
  <2>4. c \in Nat /\ c <= t
    BY <1>4, <1>5, <1>7, <2>2, <2>3
  <2>5. moment # None
    BY <1>5
  <2>6. t <= moment => c <= moment
    BY <2>4
  <2>7. Recent(w) <=> ((moment = None /\ c = 0) \/ (moment # None /\ c <= moment))
    BY <2>2, <2>3, Zenon DEF Recent
  <2>8. moment = clock => Subtitles!Informed(w)
    BY <1>5, <2>2, <2>5 DEF Subtitles!Informed
  <2>9. ManagementTyped(w)
    BY <2>2, <2>3, <2>4 DEF ManagementTyped
  <2> QED
    BY <1>3, <2>5, <2>6, <2>7, <2>8, <2>9
<1>8. CASE ~(a + Cadence <= t)
  <2>1. w = m
    BY <1>1, <1>3, <1>8, Zenon DEF Subtitles!Managed, Subtitles!Due
  <2>2. Recent(m) /\ t = clock /\ clock >= Start => b # None /\ b > clock - Cadence
    BY <1>4, <1>5, <1>6, <1>8
  <2>3. (b # None /\ b > clock - Cadence) => Subtitles!Informed(m)
    BY <1>2, Zenon DEF Subtitles!Informed
  <2> QED
    BY <1>3, <2>1, <2>2, <2>3
<1> QED
  BY <1>7, <1>8

LEMMA InformingKeeps ==
  ASSUME Subtitles!CaptionsAssumption, clock \in Nat, NEW d \in Subtitles!Documents, NEW m, ManagementTyped(m)
  PROVE  /\ \A n \in 0..Len(d.says) : ManagementTyped(Subtitles!Informing(m, d, n))
         /\ clock >= Start /\ Recent(m) =>
              /\ \A n \in 0..Len(d.says) : Recent(Subtitles!Informing(m, d, n))
              /\ \A n \in 1..Len(d.says) : Subtitles!Informed(Subtitles!Informing(m, d, n))
<1> DEFINE P(w, n) == /\ ManagementTyped(w)
                      /\ clock >= Start /\ Recent(m) => Recent(w) /\ (n # 0 => Subtitles!Informed(w))
           T == {n \in 0..Len(d.says) : P(Subtitles!Informing(m, d, n), n)}
<1>1. Len(d.says) \in Nat
  BY DocumentTyped
<1>2. 0 \in T
  <2>1. Subtitles!Informing(m, d, 0) = m /\ 0 \in 0..Len(d.says)
    BY <1>1, InformingSteps
  <2>2. P(m, 0)
    OBVIOUS
  <2> HIDE DEF P
  <2> QED
    BY <2>1, <2>2
<1>3. ASSUME NEW n \in 1..Len(d.says), n - 1 \in T PROVE n \in T
  <2>1. PICK v : v = Subtitles!Informing(m, d, n - 1)
    OBVIOUS
  <2>2. PICK t : t = Subtitles!ManagementTime(Subtitles!PtsOf(d, d.says[n]))
    OBVIOUS
  <2>3. PICK w : w = Subtitles!Managed(v, t, clock)
    OBVIOUS
  <2>4. Subtitles!Informing(m, d, n) = w
    <3>1. Subtitles!Informing(m, d, n) =
            Subtitles!Managed(Subtitles!Informing(m, d, n - 1),
                              Subtitles!ManagementTime(Subtitles!PtsOf(d, d.says[n])), clock)
      BY <1>1, InformingSteps, Zenon
    <3> QED
      BY <2>1, <2>2, <2>3, <3>1, Zenon
  <2>5. ManagementTyped(v) /\ (clock >= Start /\ Recent(m) => Recent(v))
    BY <1>3, <2>1
  <2>6. t \in Nat /\ (clock # 0 => t = clock)
    <3>1. PICK u : u = Subtitles!PtsOf(d, d.says[n])
      OBVIOUS
    <3>2. u \in Nat /\ (clock # 0 => u >= clock)
      BY <3>1, PtsTyped
    <3> QED
      BY <2>2, <3>1, <3>2 DEF Subtitles!ManagementTime
  <2>7. clock >= Start => clock # 0
    BY DEF Subtitles!CaptionsAssumption
  <2>8. /\ ManagementTyped(w)
        /\ Recent(v) /\ t <= clock => Recent(w)
        /\ Recent(v) /\ t = clock /\ clock >= Start => Subtitles!Informed(w)
    BY <2>3, <2>5, <2>6, ManagedKeeps
  <2>9. t = clock => t <= clock
    BY <2>6
  <2>10. P(w, n)
    BY <2>5, <2>6, <2>7, <2>8, <2>9
  <2>11. n \in 0..Len(d.says)
    BY <1>1
  <2> HIDE DEF P
  <2> QED
    BY <2>4, <2>10, <2>11
<1>4. \A n \in 0..Len(d.says) : n \in T
  <2> HIDE DEF T
  <2> QED
    BY <1>1, <1>2, <1>3, UpTo
<1>5. \A n \in 0..Len(d.says) : P(Subtitles!Informing(m, d, n), n)
  <2> HIDE DEF P
  <2> QED
    BY <1>4
<1>6. \A n \in 1..Len(d.says) : n \in 0..Len(d.says) /\ n # 0
  BY <1>1
<1> QED
  BY <1>5, <1>6

LEMMA InformingAllKeeps ==
  ASSUME Subtitles!CaptionsAssumption, clock \in Nat, NEW s \in Seq(Subtitles!Documents), NEW m, ManagementTyped(m)
  PROVE  \A n \in 0..Len(s) :
           /\ ManagementTyped(Subtitles!InformingAll(m, s, n))
           /\ clock >= Start /\ Recent(m) => Recent(Subtitles!InformingAll(m, s, n))
<1> DEFINE P(w) == ManagementTyped(w) /\ (clock >= Start /\ Recent(m) => Recent(w))
           T == {n \in 0..Len(s) : P(Subtitles!InformingAll(m, s, n))}
<1>1. Len(s) \in Nat
  OBVIOUS
<1>2. 0 \in T
  <2>1. Subtitles!InformingAll(m, s, 0) = m /\ 0 \in 0..Len(s)
    BY <1>1, InformingAllSteps DEF InformsAll
  <2>2. P(m)
    OBVIOUS
  <2> HIDE DEF P
  <2> QED
    BY <2>1, <2>2
<1>3. ASSUME NEW n \in 1..Len(s), n - 1 \in T PROVE n \in T
  <2>1. PICK v : v = Subtitles!InformingAll(m, s, n - 1)
    OBVIOUS
  <2>2. PICK d : d = s[n]
    OBVIOUS
  <2>3. PICK w : w = Subtitles!Informing(v, d, Len(d.says))
    OBVIOUS
  <2>4. Subtitles!InformingAll(m, s, n) = w
    <3>1. Subtitles!InformingAll(m, s, n) =
            Subtitles!Informing(Subtitles!InformingAll(m, s, n - 1), s[n], Len(s[n].says))
      <4>1. InformsAll(m, s)
        BY <1>1, InformingAllSteps, Zenon
      <4> QED
        BY <4>1, Zenon DEF InformsAll
    <3> QED
      BY <2>1, <2>2, <2>3, <3>1, Zenon
  <2>5. ManagementTyped(v) /\ (clock >= Start /\ Recent(m) => Recent(v))
    BY <1>3, <2>1
  <2>6. d \in Subtitles!Documents
    BY <2>2
  <2>7. Len(d.says) \in 0..Len(d.says)
    BY <2>6, DocumentTyped
  <2>8. P(w)
    BY <2>3, <2>5, <2>6, <2>7, InformingKeeps
  <2>9. n \in 0..Len(s)
    BY <1>1
  <2> HIDE DEF P
  <2> QED
    BY <2>4, <2>8, <2>9
<1>4. \A n \in 0..Len(s) : n \in T
  <2> HIDE DEF T
  <2> QED
    BY <1>1, <1>2, <1>3, UpTo
<1> QED
  <2> HIDE DEF P
  <2>1. \A n \in 0..Len(s) : P(Subtitles!InformingAll(m, s, n))
    BY <1>4
  <2> QED
    BY <2>1 DEF P

-----------------------------------------------------------------------------
(* Steps.                                                                  *)

LEMMA WriteKeeps ==
  ASSUME Subtitles!CaptionsAssumption, clock \in Nat, clock' = clock, ManagementTyped(ManagementNow),
         early \in BOOLEAN, clock # 0 => clock >= Start, ~early => Recent(ManagementNow),
         NEW s \in Seq(Subtitles!Documents), NEW known, \A i \in 1..Len(s) : ~Subtitles!Missing(s[i], known),
         Subtitles!Write(s, known)
  PROVE  /\ managed' \in Nat /\ told' \in Nat \cup {None} /\ early' \in BOOLEAN
         /\ ~early' => Recent(ManagementNow)'
         /\ Subtitles!ShownInTime' /\ Subtitles!LanguageIsKnown'
         /\ \A i \in DOMAIN shown' : 0 \notin shown'[i].glyphs
<1>1. PICK timed : timed = Subtitles!Picked(s, {d \in Subtitles!Documents : Subtitles!HasTime(d)})
  OBVIOUS
<1>2. PICK m : m = ManagementNow
  OBVIOUS
<1>3. PICK after : after = Subtitles!InformingAll(m, timed, Len(timed))
  OBVIOUS
<1>4. /\ managed' = after.managed /\ told' = after.told
      /\ shown' = [k \in 1..Len(timed) |->
                     Subtitles!Converted(Subtitles!InformingAll(m, timed, k - 1), timed[k], known)]
      /\ early' = (early \/ (clock = 0 /\ timed # <<>>))
  BY <1>1, <1>2, <1>3, Zenon DEF Subtitles!Write, ManagementNow
<1>5. /\ timed \in Seq(Subtitles!Documents)
      /\ \A i \in 1..Len(timed) : \E j \in 1..Len(s) : timed[i] = s[j]
  <2>1. PICK C : C = {d \in Subtitles!Documents : Subtitles!HasTime(d)}
    OBVIOUS
  <2>2. PICK D : D = Subtitles!Documents
    OBVIOUS
  <2>3. timed = Subtitles!Picked(s, C)
    BY <1>1, <2>1, Zenon
  <2>4. s \in Seq(D)
    BY <2>2
  <2> QED
    BY <2>2, <2>3, <2>4, PickedIs
<1>6. Len(timed) \in Nat /\ Len(timed) \in 0..Len(timed)
  BY <1>5
<1>7. ManagementTyped(after) /\ (clock >= Start /\ Recent(m) => Recent(after))
  BY <1>2, <1>3, <1>5, <1>6, InformingAllKeeps
<1>8. managed' \in Nat /\ told' \in Nat \cup {None}
  BY <1>4, <1>7 DEF ManagementTyped
<1>9. early' \in BOOLEAN
  BY <1>4
<1>10. ASSUME ~early', timed # <<>> PROVE clock # 0 /\ clock >= Start /\ Recent(m)
  BY <1>2, <1>4, <1>10
<1>11. ASSUME ~early' PROVE Recent(ManagementNow)'
  <2>1. CASE timed = <<>>
    <3>1. Len(timed) = 0
      BY <2>1
    <3>2. after = m
      <4>1. InformsAll(m, timed)
        BY <3>1, InformingAllSteps
      <4> QED
        BY <1>3, <1>6, <3>1, <4>1, Zenon DEF InformsAll
    <3>3. Recent(m)
      BY <1>2, <1>4, <1>11
    <3> QED
      BY <1>4, <3>2, <3>3, Zenon DEF Recent, ManagementNow
  <2>2. CASE timed # <<>>
    <3>1. Recent(after)
      BY <1>7, <1>10, <1>11, <2>2
    <3> QED
      BY <1>4, <3>1, Zenon DEF Recent, ManagementNow
  <2> QED
    BY <2>1, <2>2
<1>12. DOMAIN shown' = 1..Len(timed)
  BY <1>4
<1>13. ASSUME NEW i \in 1..Len(timed)
       PROVE  LET d == timed[i]  w == Subtitles!InformingAll(m, timed, i - 1)
                  st == shown'[i].statements
              IN  /\ d \in Subtitles!Documents /\ ManagementTyped(w)
                  /\ clock >= Start /\ Recent(m) => Recent(w)
                  /\ shown'[i].glyphs = {known[c] : c \in d.codes}
                  /\ DOMAIN st = 1..Len(d.says)
                  /\ \A n \in 1..Len(d.says) :
                       st[n] = [begin |-> Subtitles!Offset(d.says[n].begin), clear |-> d.says[n].clear,
                                pts |-> Subtitles!PtsOf(d, d.says[n]),
                                informed |-> Subtitles!Informed(Subtitles!Informing(w, d, n))]
  <2>1. PICK d : d = timed[i]
    OBVIOUS
  <2>2. PICK w : w = Subtitles!InformingAll(m, timed, i - 1)
    OBVIOUS
  <2>3. PICK st : st = shown'[i].statements
    OBVIOUS
  <2>4. d \in Subtitles!Documents /\ i - 1 \in 0..Len(timed)
    BY <1>5, <1>6, <2>1
  <2>5. ManagementTyped(w) /\ (clock >= Start /\ Recent(m) => Recent(w))
    BY <1>2, <1>5, <2>2, <2>4, InformingAllKeeps
  <2>6. shown'[i] = Subtitles!Converted(w, d, known)
    BY <1>4, <2>1, <2>2
  <2>7. /\ shown'[i].glyphs = {known[c] : c \in d.codes}
        /\ st = [n \in DOMAIN d.says |->
                  [begin |-> Subtitles!Offset(d.says[n].begin), clear |-> d.says[n].clear,
                   pts |-> Subtitles!PtsOf(d, d.says[n]),
                   informed |-> Subtitles!Informed(Subtitles!Informing(w, d, n))]]
    BY <2>3, <2>6 DEF Subtitles!Converted
  <2>8. DOMAIN d.says = 1..Len(d.says)
    BY <2>4, DocumentTyped
  <2>9. DOMAIN st = 1..Len(d.says)
        /\ \A n \in 1..Len(d.says) :
             st[n] = [begin |-> Subtitles!Offset(d.says[n].begin), clear |-> d.says[n].clear,
                      pts |-> Subtitles!PtsOf(d, d.says[n]),
                      informed |-> Subtitles!Informed(Subtitles!Informing(w, d, n))]
    BY <2>7, <2>8
  <2> QED
    BY <2>1, <2>2, <2>3, <2>4, <2>5, <2>7, <2>9, Zenon
<1>14. ASSUME NEW i \in DOMAIN shown' PROVE 0 \notin shown'[i].glyphs
  <2>1. PICK d : d = timed[i]
    OBVIOUS
  <2>2. i \in 1..Len(timed)
    BY <1>12
  <2>3. shown'[i].glyphs = {known[c] : c \in d.codes}
    BY <1>13, <2>1, <2>2, Zenon
  <2>4. ~Subtitles!Missing(d, known)
    BY <1>5, <2>1, <2>2
  <2> QED
    BY <2>3, <2>4 DEF Subtitles!Missing
<1>15. ASSUME clock' # 0, NEW i \in DOMAIN shown', NEW st, st = shown'[i].statements
       PROVE  /\ \A j \in DOMAIN st : st[j].pts >= clock'
              /\ st[1].pts <= clock' + MaxLead + st[1].begin
              /\ \A j \in DOMAIN st : st[j].clear => st[j].pts = clock'
              /\ \A j \in DOMAIN st \ {1} :
                   ~st[1].clear /\ ~st[j].clear => st[j].pts - st[1].pts = st[j].begin - st[1].begin
  <2>1. PICK d : d = timed[i]
    OBVIOUS
  <2>2. PICK w : w = Subtitles!InformingAll(m, timed, i - 1)
    OBVIOUS
  <2>3. i \in 1..Len(timed)
    BY <1>12
  <2>4. /\ d \in Subtitles!Documents /\ DOMAIN st = 1..Len(d.says)
        /\ \A n \in 1..Len(d.says) :
             st[n] = [begin |-> Subtitles!Offset(d.says[n].begin), clear |-> d.says[n].clear,
                      pts |-> Subtitles!PtsOf(d, d.says[n]),
                      informed |-> Subtitles!Informed(Subtitles!Informing(w, d, n))]
    BY <1>13, <1>15, <2>1, <2>2, <2>3, Zenon
  <2>5. ASSUME NEW n \in 1..Len(d.says)
        PROVE  /\ st[n].begin = Subtitles!Offset(d.says[n].begin)
               /\ st[n].clear = d.says[n].clear
               /\ st[n].pts = Subtitles!PtsOf(d, d.says[n])
    <3>1. PICK x : x = Subtitles!Informed(Subtitles!Informing(w, d, n))
      OBVIOUS
    <3>2. PICK y : y = d.says[n].clear
      OBVIOUS
    <3>3. st[n] = [begin |-> Subtitles!Offset(d.says[n].begin), clear |-> y, pts |-> Subtitles!PtsOf(d, d.says[n]),
                   informed |-> x]
      BY <2>4, <3>1, <3>2, Zenon
    <3> QED
      BY <3>2, <3>3
  <2>6. 1 \in 1..Len(d.says)
    BY <2>4, DocumentTyped
  <2>7. \A n \in 1..Len(d.says) :
          /\ Subtitles!PtsOf(d, d.says[n]) >= clock
          /\ d.says[n].clear => Subtitles!PtsOf(d, d.says[n]) = clock
          /\ Subtitles!PtsOf(d, d.says[1]) <= clock + MaxLead + Subtitles!Offset(d.says[1].begin)
          /\ ~d.says[1].clear /\ ~d.says[n].clear =>
               Subtitles!PtsOf(d, d.says[n]) - Subtitles!PtsOf(d, d.says[1])
                 = Subtitles!Offset(d.says[n].begin) - Subtitles!Offset(d.says[1].begin)
    BY <1>15, <2>4, PtsTyped
  <2>8. \A n \in 1..Len(d.says) :
          /\ st[n].pts >= clock /\ (st[n].clear => st[n].pts = clock)
          /\ st[1].pts <= clock + MaxLead + st[1].begin
          /\ ~st[1].clear /\ ~st[n].clear =>
               st[n].pts - st[1].pts = st[n].begin - st[1].begin
    BY <2>5, <2>6, <2>7, Zenon
  <2> QED
    BY <2>4, <2>6, <2>8
<1>16. ASSUME ~early', NEW i \in DOMAIN shown', NEW j \in DOMAIN shown'[i].statements
       PROVE  shown'[i].statements[j].informed
  <2>1. PICK d : d = timed[i]
    OBVIOUS
  <2>2. PICK w : w = Subtitles!InformingAll(m, timed, i - 1)
    OBVIOUS
  <2>3. PICK st : st = shown'[i].statements
    OBVIOUS
  <2>4. i \in 1..Len(timed)
    BY <1>12
  <2>5. timed # <<>>
    BY <1>6, <2>4
  <2>6. clock >= Start /\ Recent(m)
    BY <1>10, <1>16, <2>5
  <2>7. /\ d \in Subtitles!Documents /\ ManagementTyped(w)
        /\ (clock >= Start /\ Recent(m) => Recent(w))
        /\ DOMAIN st = 1..Len(d.says)
        /\ \A n \in 1..Len(d.says) :
             st[n] = [begin |-> Subtitles!Offset(d.says[n].begin), clear |-> d.says[n].clear,
                      pts |-> Subtitles!PtsOf(d, d.says[n]),
                      informed |-> Subtitles!Informed(Subtitles!Informing(w, d, n))]
    BY <1>13, <2>1, <2>2, <2>3, <2>4, Zenon
  <2>8. j \in 1..Len(d.says)
    BY <1>16, <2>3, <2>7
  <2>9. Subtitles!Informed(Subtitles!Informing(w, d, j))
    <3>1. clock >= Start /\ Recent(w) => \A n \in 1..Len(d.says) : Subtitles!Informed(Subtitles!Informing(w, d, n))
      BY <2>7, InformingKeeps
    <3> QED
      BY <2>6, <2>7, <2>8, <3>1
  <2>10. st[j].informed = Subtitles!Informed(Subtitles!Informing(w, d, j))
    <3>1. PICK x : x = Subtitles!Informed(Subtitles!Informing(w, d, j))
      OBVIOUS
    <3>2. PICK y : y = d.says[j].clear
      OBVIOUS
    <3>3. st[j] = [begin |-> Subtitles!Offset(d.says[j].begin), clear |-> y, pts |-> Subtitles!PtsOf(d, d.says[j]),
                   informed |-> x]
      BY <2>7, <2>8, <3>1, <3>2, Zenon
    <3> QED
      BY <3>1, <3>3
  <2> QED
    BY <2>3, <2>9, <2>10
<1>17. Subtitles!ShownInTime'
  BY <1>15, Zenon DEF Subtitles!ShownInTime
<1>18. Subtitles!LanguageIsKnown'
  BY <1>16, Zenon DEF Subtitles!LanguageIsKnown
<1> QED
  BY <1>8, <1>9, <1>11, <1>14, <1>17, <1>18

LEMMA CaptionsStart ==
  ASSUME Subtitles!CaptionsAssumption, Subtitles!Init
  PROVE  CaptionsInv
<1>1. /\ clock = 0 /\ managed = 0 /\ glyphs = [c \in Codes |-> 0] /\ pending = <<>> /\ shown = <<>>
      /\ sent = 0 /\ resources = 0 /\ fates = [d \in 1..MaxDocuments |-> 0]
      /\ told = None /\ early = FALSE
  BY DEF Subtitles!Init
<1>2. DOMAIN pending = {} /\ DOMAIN shown = {} /\ Len(pending) = 0
  BY <1>1
<1>3. pending \in Seq(Subtitles!Documents)
  <2>1. <<>> \in Seq(Subtitles!Documents)
    OBVIOUS
  <2> QED
    BY <1>1, <2>1
<1>4. /\ MaxPending \in Nat /\ End \in Nat /\ MaxDocuments \in Nat /\ MaxResources \in Nat
  BY DEF Subtitles!CaptionsAssumption
<1>5. Subtitles!TypeOK
  <2>1. early \in BOOLEAN
    BY <1>1
  <2>2. glyphs \in [Codes -> 0..MaxResources] /\ fates \in [1..MaxDocuments -> 0..2]
    BY <1>1, <1>4
  <2> QED
    BY <1>1, <1>2, <1>3, <1>4, <2>1, <2>2 DEF Subtitles!TypeOK
<1>6. Subtitles!EachCaptionOnce /\ WaitingOnce /\ NoneBefore
  <2>1. 1..sent = {}
    BY <1>1
  <2>2. Subtitles!EachCaptionOnce /\ WaitingOnce
    BY <1>2, <2>1, Zenon DEF Subtitles!EachCaptionOnce, WaitingOnce
  <2>3. NoneBefore
    BY <1>1 DEF NoneBefore
  <2> QED
    BY <2>2, <2>3
<1>7. Recent(ManagementNow)
  <2>1. ManagementNow.managed = 0 /\ ManagementNow.told = None
    BY <1>1 DEF ManagementNow
  <2> QED
    BY <2>1 DEF Recent
<1>8. Subtitles!ShownInTime /\ Subtitles!LanguageIsKnown
  BY <1>1, <1>2, Zenon DEF Subtitles!ShownInTime, Subtitles!LanguageIsKnown
<1> QED
  BY <1>1, <1>5, <1>6, <1>7, <1>8 DEF CaptionsInv

LEMMA PcrStep ==
  ASSUME Subtitles!CaptionsAssumption, CaptionsInv, NEW t \in Subtitles!Times, Subtitles!Clock(t)
  PROVE  t \in Nat /\ clock' \in 0..End /\ (clock' # 0 => clock' >= Start)
<1>1. clock \in 0..End /\ (clock # 0 => clock >= Start)
  BY DEF CaptionsInv, Subtitles!TypeOK
<1>2. PcrInterval \in Nat /\ Start \in Nat \ {0} /\ End \in Nat /\ Start < End
  BY DEF Subtitles!CaptionsAssumption
<1>3. clock' = IF clock # 0 /\ t < clock + PcrInterval THEN clock ELSE t
  BY DEF Subtitles!Clock
<1>4. CASE clock = 0
  <2>1. t \in Start..(Start + 1)
    BY <1>4 DEF Subtitles!Times
  <2> QED
    BY <1>1, <1>2, <1>3, <1>4, <2>1
<1>5. CASE clock # 0
  <2>1. t \in (clock - 1)..(clock + 2) /\ t <= End
    BY <1>5 DEF Subtitles!Times
  <2> QED
    BY <1>1, <1>2, <1>3, <1>5, <2>1
<1> QED
  BY <1>4, <1>5

\* What is true of the captions that wait and of those that were settled stays so when
\* neither changes, and of what was shown when nothing is.
LEMMA NothingShown ==
  ASSUME CaptionsInv, shown' = <<>>
  PROVE  /\ Subtitles!ShownInTime' /\ Subtitles!LanguageIsKnown'
         /\ UNCHANGED <<pending, sent, fates>> => Subtitles!EachCaptionOnce' /\ WaitingOnce' /\ NoneBefore'
<1>1. DOMAIN shown' = {}
  OBVIOUS
<1>2. Subtitles!ShownInTime' /\ Subtitles!LanguageIsKnown'
  BY <1>1, Zenon DEF Subtitles!ShownInTime, Subtitles!LanguageIsKnown
<1>3. Subtitles!EachCaptionOnce /\ WaitingOnce /\ NoneBefore
  BY DEF CaptionsInv
<1>4. ASSUME UNCHANGED <<pending, sent, fates>>
      PROVE  Subtitles!EachCaptionOnce' /\ WaitingOnce' /\ NoneBefore'
  <2>1. pending' = pending /\ sent' = sent /\ fates' = fates
    BY <1>4
  <2>2. Subtitles!EachCaptionOnce'
    BY <1>1, <1>3, <2>1, Zenon DEF Subtitles!EachCaptionOnce
  <2>3. WaitingOnce'
    BY <1>3, <2>1, Zenon DEF WaitingOnce
  <2>4. NoneBefore'
    BY <1>3, <2>1, Zenon DEF NoneBefore
  <2> QED
    BY <2>2, <2>3, <2>4
<1> QED
  BY <1>2, <1>4

LEMMA VideoPasses ==
  ASSUME Subtitles!CaptionsAssumption, CaptionsInv, Subtitles!ReceiveVideo
  PROVE  CaptionsInv'
<1>1. PICK t \in Subtitles!Times : Subtitles!Clock(t)
  BY DEF Subtitles!ReceiveVideo
<1>2. shown' = <<>> /\ UNCHANGED <<managed, glyphs, pending, sent, resources, fates, told, early>>
  BY DEF Subtitles!ReceiveVideo
<1>3. clock' \in 0..End /\ (clock' # 0 => clock' >= Start)
  BY <1>1, PcrStep
<1>4. Subtitles!TypeOK'
  <2>1. Subtitles!TypeOK
    BY DEF CaptionsInv
  <2> QED
    BY <1>2, <1>3, <2>1, Zenon DEF Subtitles!TypeOK
<1>5. ~early' => Recent(ManagementNow)'
  BY <1>2, Zenon DEF CaptionsInv, Recent, ManagementNow
<1> QED
  BY <1>2, <1>3, <1>4, <1>5, NothingShown DEF CaptionsInv

LEMMA NtpStep ==
  ASSUME Subtitles!CaptionsAssumption, CaptionsInv, Subtitles!ReceiveNtp
  PROVE  CaptionsInv'
<1>1. PICK t \in Subtitles!Times : /\ Subtitles!Clock(t)
                         /\ LET m == Subtitles!Managed([managed |-> managed, told |-> told], t, t)
                            IN  managed' = m.managed /\ told' = m.told
  BY DEF Subtitles!ReceiveNtp
<1>2. shown' = <<>> /\ UNCHANGED <<glyphs, pending, sent, resources, fates, early>>
  BY DEF Subtitles!ReceiveNtp
<1>3. t \in Nat /\ clock' \in 0..End /\ (clock' # 0 => clock' >= Start)
  BY <1>1, PcrStep
<1>4. Subtitles!TypeOK /\ (~early => Recent(ManagementNow))
  BY DEF CaptionsInv
<1>5. ManagementTyped(ManagementNow)
  BY <1>4 DEF Subtitles!TypeOK, ManagementTyped, ManagementNow
<1>6. PICK m : m = Subtitles!Managed(ManagementNow, t, t)
  OBVIOUS
<1>7. managed' = m.managed /\ told' = m.told
  BY <1>1, <1>6, Zenon DEF ManagementNow
<1>8. ManagementTyped(m) /\ (Recent(ManagementNow) => Recent(m))
  BY <1>3, <1>5, <1>6, ManagedKeeps
<1>9. Subtitles!TypeOK'
  <2>1. managed' \in Nat /\ told' \in Nat \cup {None}
    BY <1>7, <1>8 DEF ManagementTyped
  <2> QED
    BY <1>2, <1>3, <1>4, <2>1, Zenon DEF Subtitles!TypeOK
<1>10. ~early' => Recent(ManagementNow)'
  BY <1>2, <1>4, <1>7, <1>8, Zenon DEF Recent, ManagementNow
<1> QED
  BY <1>2, <1>3, <1>9, <1>10, NothingShown DEF CaptionsInv

\* Captions that come to wait have been sent; those that no longer wait are settled.
Waiting == {pending[i].id : i \in DOMAIN pending}

LEMMA AccountsKept ==
  ASSUME Subtitles!CaptionsAssumption, CaptionsInv, sent' \in {sent, sent + 1}, sent' <= MaxDocuments,
         NEW ids, fates' = Subtitles!Settled(ids),
         \A d \in 1..sent : d \in ids \/ d \in Waiting' <=> d \in Waiting,
         \A d \in ids \cup Waiting' : d \in Waiting \/ (d = sent' /\ sent' = sent + 1),
         sent' = sent + 1 => sent' \in ids \cup Waiting',
         ids \cap Waiting' = {}
  PROVE  /\ \A d \in 1..sent' : fates'[d] = IF \E i \in DOMAIN pending' : pending'[i].id = d
                                            THEN 0 ELSE 1
         /\ \A i \in DOMAIN pending' : pending'[i].id \in 1..sent'
         /\ NoneBefore'
         /\ fates' \in [1..MaxDocuments -> 0..2]
<1> DEFINE W == Waiting
           V == Waiting'
<1>1. /\ sent \in 0..MaxDocuments /\ fates \in [1..MaxDocuments -> 0..2]
      /\ MaxDocuments \in Nat
  BY DEF CaptionsInv, Subtitles!TypeOK, Subtitles!CaptionsAssumption
<1>2. \A d : d \in V <=> \E i \in DOMAIN pending' : pending'[i].id = d
  BY DEF Waiting
<1>3. \A d : d \in W <=> \E i \in DOMAIN pending : pending[i].id = d
  BY DEF Waiting
<1>4. W \subseteq 1..sent
  <2>1. \A i \in DOMAIN pending : pending[i].id \in 1..sent
    BY Zenon DEF CaptionsInv, WaitingOnce
  <2> HIDE DEF W
  <2> QED
    BY <1>3, <2>1
<1>5. \A d \in 1..sent : fates[d] = IF d \in W THEN 0 ELSE 1
  BY <1>3, Zenon DEF CaptionsInv, Subtitles!EachCaptionOnce
<1>6. \A d \in 1..MaxDocuments : d > sent => fates[d] = 0
  BY Zenon DEF CaptionsInv, NoneBefore
<1>7. fates' = [d \in 1..MaxDocuments |-> IF d \in ids THEN fates[d] + 1 ELSE fates[d]]
  BY DEF Subtitles!Settled
<1> HIDE DEF W, V
<1>8. /\ \A d \in 1..sent : d \in ids \/ d \in V <=> d \in W
      /\ \A d \in ids \cup V : d \in W \/ (d = sent' /\ sent' = sent + 1)
      /\ sent' = sent + 1 => sent' \in ids \cup V
      /\ ids \cap V = {}
  BY Zenon DEF W, V
<1>9. V \subseteq 1..sent'
  <2> SUFFICES ASSUME NEW d \in V PROVE d \in 1..sent'
    OBVIOUS
  <2>1. d \in W \/ (d = sent' /\ sent' = sent + 1)
    BY <1>8
  <2>2. CASE d \in W
    <3>1. d \in 1..sent
      BY <1>4, <2>2
    <3> QED
      BY <1>1, <3>1
  <2>3. CASE d = sent' /\ sent' = sent + 1
    BY <1>1, <2>3
  <2> QED
    BY <2>1, <2>2, <2>3
<1>10. \A d \in 1..sent' : fates'[d] = IF d \in V THEN 0 ELSE 1
  <2> SUFFICES ASSUME NEW d \in 1..sent' PROVE fates'[d] = IF d \in V THEN 0 ELSE 1
    OBVIOUS
  <2>1. d \in 1..MaxDocuments
    BY <1>1
  <2>2. CASE d \in 1..sent
    BY <1>5, <1>7, <1>8, <2>1, <2>2
  <2>3. CASE d \notin 1..sent
    <3>1. d = sent' /\ sent' = sent + 1 /\ d > sent
      BY <1>1, <2>3
    <3> QED
      BY <1>6, <1>7, <1>8, <2>1, <3>1
  <2> QED
    BY <2>2, <2>3
<1>11. NoneBefore'
  <2> SUFFICES ASSUME NEW d \in 1..MaxDocuments, d > sent' PROVE fates'[d] = 0
    BY Zenon DEF NoneBefore
  <2>1. d > sent /\ d \notin 1..sent /\ d # sent'
    BY <1>1
  <2>2. d \notin ids
    BY <1>4, <1>8, <2>1
  <2> QED
    BY <1>6, <1>7, <2>1, <2>2
<1>12. fates' \in [1..MaxDocuments -> 0..2]
  <2>1. ASSUME NEW d \in 1..MaxDocuments PROVE fates'[d] \in 0..2
    <3>1. CASE d \in 1..sent'
      BY <1>10, <3>1
    <3>2. CASE d \notin 1..sent'
      <4>1. d > sent'
        BY <1>1, <3>2
      <4>2. fates'[d] = 0
        BY <1>11, <4>1, Zenon DEF NoneBefore
      <4> QED
        BY <4>2
    <3> QED
      BY <3>1, <3>2
  <2> QED
    BY <1>7, <2>1
<1>13. \A d \in 1..sent' : fates'[d] = IF \E i \in DOMAIN pending' : pending'[i].id = d
                                          THEN 0 ELSE 1
  BY <1>2, <1>10, Zenon
<1>14. \A i \in DOMAIN pending' : pending'[i].id \in 1..sent'
  BY <1>2, <1>9
<1> QED
  BY <1>11, <1>12, <1>13, <1>14

LEMMA CaptionsCleared ==
  ASSUME Subtitles!CaptionsAssumption, CaptionsInv, Subtitles!Clear
  PROVE  CaptionsInv'
<1>1. /\ clock' = 0 /\ managed' = 0 /\ glyphs' = [c \in Codes |-> 0] /\ pending' = <<>>
      /\ shown' = <<>> /\ sent' = sent /\ resources' = resources
      /\ fates' = Subtitles!Settled({pending[i].id : i \in DOMAIN pending})
      /\ told' = None /\ early' = FALSE
  BY DEF Subtitles!Clear
<1>2. DOMAIN pending' = {} /\ Len(pending') = 0 /\ DOMAIN shown' = {}
  BY <1>1
<1>3. Waiting' = {}
  BY <1>2 DEF Waiting
<1>4. fates' = Subtitles!Settled(Waiting)
  BY <1>1 DEF Waiting
<1>5. Subtitles!TypeOK
  BY DEF CaptionsInv
<1>6. sent' \in {sent, sent + 1} /\ sent' <= MaxDocuments /\ sent' # sent + 1
  BY <1>1, <1>5 DEF Subtitles!TypeOK, Subtitles!CaptionsAssumption
<1>7. PICK w : w = Waiting
  OBVIOUS
<1>8. /\ \A d \in 1..sent' : fates'[d] = IF \E i \in DOMAIN pending' : pending'[i].id = d
                                          THEN 0 ELSE 1
      /\ \A i \in DOMAIN pending' : pending'[i].id \in 1..sent'
      /\ NoneBefore'
      /\ fates' \in [1..MaxDocuments -> 0..2]
  <2>1. \A d \in 1..sent : d \in Waiting \/ d \in Waiting' <=> d \in Waiting
    BY <1>3
  <2>2. \A d \in Waiting \cup Waiting' : d \in Waiting \/ (d = sent' /\ sent' = sent + 1)
    BY <1>3
  <2>3. sent' = sent + 1 => sent' \in Waiting \cup Waiting'
    BY <1>6
  <2>4. Waiting \cap Waiting' = {}
    BY <1>3
  <2> QED
    BY <1>4, <1>6, <2>1, <2>2, <2>3, <2>4, AccountsKept
<1>9. Subtitles!EachCaptionOnce' /\ WaitingOnce'
  BY <1>2, <1>8, Zenon DEF Subtitles!EachCaptionOnce, WaitingOnce
<1>10. Subtitles!TypeOK'
  <2>1. pending' \in Seq(Subtitles!Documents)
    <3>1. <<>> \in Seq(Subtitles!Documents)
      OBVIOUS
    <3> QED
      BY <1>1, <3>1
  <2>2. early' \in BOOLEAN /\ told' \in Nat \cup {None}
    BY <1>1
  <2>3. clock' \in 0..End /\ managed' \in Nat /\ Len(pending') <= MaxPending
    BY <1>1, <1>2 DEF Subtitles!CaptionsAssumption
  <2>4. glyphs' \in [Codes -> 0..MaxResources]
    BY <1>1 DEF Subtitles!CaptionsAssumption
  <2> QED
    BY <1>1, <1>5, <1>8, <2>1, <2>2, <2>3, <2>4, Zenon DEF Subtitles!TypeOK
<1>11. Recent(ManagementNow)'
  <2>1. ManagementNow'.managed = 0 /\ ManagementNow'.told = None
    BY <1>1 DEF ManagementNow
  <2> QED
    BY <2>1 DEF Recent
<1> QED
  BY <1>1, <1>8, <1>9, <1>10, <1>11, NothingShown DEF CaptionsInv

LEMMA DocumentStep ==
  ASSUME Subtitles!CaptionsAssumption, CaptionsInv, Subtitles!ReceiveDocument
  PROVE  CaptionsInv'
<1>1. /\ sent < MaxDocuments /\ sent' = sent + 1 /\ clock' = clock
      /\ UNCHANGED <<glyphs, resources>>
  BY DEF Subtitles!ReceiveDocument
<1>2. PICK item \in Menu :
        LET d == Subtitles!Numbered(item, sent + 1)
        IN  IF Subtitles!Missing(d, glyphs)
            THEN /\ Subtitles!Queued(d)
                 /\ shown' = <<>>
                 /\ UNCHANGED <<managed, told, early>>
            ELSE /\ UNCHANGED pending
                 /\ Subtitles!Write(<<d>>, glyphs)
                 /\ fates' = Subtitles!Settled({d.id})
  BY DEF Subtitles!ReceiveDocument
<1>3. PICK d : d = Subtitles!Numbered(item, sent + 1)
  OBVIOUS
<1>4. Subtitles!TypeOK /\ (~early => Recent(ManagementNow)) /\ (clock # 0 => clock >= Start)
      /\ WaitingOnce
  BY DEF CaptionsInv
<1>5. /\ MaxDocuments \in Nat /\ MaxPending \in Nat \ {0} /\ End \in Nat
  BY DEF Subtitles!CaptionsAssumption
<1>6. sent \in Nat /\ sent' \in 0..MaxDocuments /\ sent + 1 \in 1..MaxDocuments
      /\ sent' \in {sent, sent + 1} /\ sent' <= MaxDocuments
  BY <1>1, <1>4, <1>5 DEF Subtitles!TypeOK
<1>7. d \in Subtitles!Documents /\ d.id = sent + 1
  BY <1>3, <1>6 DEF Subtitles!Documents, Subtitles!Numbered
<1>8. pending \in Seq(Subtitles!Documents) /\ Len(pending) <= MaxPending /\ Len(pending) \in Nat
      /\ DOMAIN pending = 1..Len(pending)
  BY <1>4 DEF Subtitles!TypeOK
<1>9. ASSUME NEW i \in DOMAIN pending PROVE pending[i].id \in 1..sent /\ pending[i].id # sent + 1
  BY <1>4, <1>6, <1>9 DEF WaitingOnce
<1>10. \A i, j \in DOMAIN pending : pending[i].id = pending[j].id => i = j
  BY <1>4, Zenon DEF WaitingOnce
<1>11. CASE Subtitles!Missing(d, glyphs)
  <2> DEFINE full == Len(pending) >= MaxPending
             gone == IF full THEN {pending[1].id} ELSE {}
  <2>1. /\ pending' = Append(IF full THEN Tail(pending) ELSE pending, d)
        /\ fates' = Subtitles!Settled(gone)
        /\ shown' = <<>> /\ UNCHANGED <<managed, told, early>>
    BY <1>2, <1>3, <1>11, Zenon DEF Subtitles!Queued
  <2>2. PICK q : q = IF full THEN Tail(pending) ELSE pending
    OBVIOUS
  <2>3. PICK x : x = IF full THEN 1 ELSE 0
    OBVIOUS
  <2>4. /\ x \in 0..1 /\ x <= Len(pending)
        /\ q \in Seq(Subtitles!Documents) /\ Len(q) = Len(pending) - x /\ Len(q) < MaxPending
        /\ \A i \in 1..Len(q) : q[i] = pending[i + x]
        /\ full <=> x = 1
    <3>1. CASE full
      BY <1>5, <1>8, <2>2, <2>3, <3>1
    <3>2. CASE ~full
      BY <1>5, <1>8, <2>2, <2>3, <3>2
    <3> QED
      BY <3>1, <3>2
  <2>5. pending' = Append(q, d)
    BY <2>1, <2>2
  <2>6. /\ pending' \in Seq(Subtitles!Documents) /\ Len(pending') <= MaxPending
        /\ DOMAIN pending' = 1..(Len(q) + 1) /\ pending'[Len(q) + 1] = d
        /\ \A i \in 1..Len(q) : pending'[i] = pending[i + x]
    BY <1>5, <1>7, <2>4, <2>5
  <2>7. \A i \in 1..Len(q) : i + x \in DOMAIN pending
    BY <1>8, <2>4
  <2>8. ASSUME NEW i \in DOMAIN pending', NEW j \in DOMAIN pending',
               pending'[i].id = pending'[j].id
        PROVE  i = j
    <3>1. /\ (i \in 1..Len(q) \/ i = Len(q) + 1) /\ (j \in 1..Len(q) \/ j = Len(q) + 1)
      BY <1>8, <2>4, <2>6
    <3>2. CASE i \in 1..Len(q) /\ j \in 1..Len(q)
      <4>1. i + x = j + x
        BY <1>10, <2>6, <2>7, <2>8, <3>2
      <4> QED
        BY <2>4, <3>2, <4>1
    <3>3. CASE i \in 1..Len(q) /\ j = Len(q) + 1
      BY <1>7, <1>9, <2>6, <2>7, <2>8, <3>3
    <3>4. CASE i = Len(q) + 1 /\ j \in 1..Len(q)
      BY <1>7, <1>9, <2>6, <2>7, <2>8, <3>4
    <3> QED
      BY <3>1, <3>2, <3>3, <3>4
  <2>9. Waiting = {pending[i].id : i \in DOMAIN pending}
        /\ Waiting' = {pending'[i].id : i \in DOMAIN pending'}
    BY DEF Waiting
  <2>10. PICK W, V : W = Waiting /\ V = Waiting'
    OBVIOUS
  <2>11. \A e : e \in V <=> e = sent + 1 \/ \E i \in DOMAIN pending : i > x /\ pending[i].id = e
    <3>1. \A e : e \in V => e = sent + 1 \/ \E i \in DOMAIN pending : i > x /\ pending[i].id = e
      <4> SUFFICES ASSUME NEW i \in DOMAIN pending', i # Len(q) + 1
                   PROVE  \E k \in DOMAIN pending : k > x /\ pending[k].id = pending'[i].id
        BY <1>7, <2>6, <2>9, <2>10
      <4>1. i \in 1..Len(q) /\ i + x > x
        BY <1>8, <2>4, <2>6
      <4> QED
        BY <2>6, <2>7, <4>1
    <3>2. sent + 1 \in V
      <4>1. Len(q) + 1 \in DOMAIN pending'
        BY <1>8, <2>4, <2>6
      <4> QED
        BY <1>7, <2>6, <2>9, <2>10, <4>1
    <3>3. ASSUME NEW k \in DOMAIN pending, k > x PROVE pending[k].id \in V
      <4>1. k - x \in 1..Len(q) /\ (k - x) + x = k
        BY <1>8, <2>4, <3>3
      <4>2. k - x \in DOMAIN pending' /\ pending'[k - x] = pending[k]
        BY <1>8, <2>4, <2>6, <4>1
      <4> QED
        BY <2>9, <2>10, <4>2
    <3> QED
      BY <3>1, <3>2, <3>3
  <2>12. \A e : e \in W <=> \E i \in DOMAIN pending : pending[i].id = e
    BY <2>9, <2>10
  <2>13. PICK g : g = gone
    OBVIOUS
  <2>14. \A e : e \in g <=> \E i \in DOMAIN pending : i <= x /\ pending[i].id = e
    <3>1. CASE full
      BY <1>8, <2>4, <2>13, <3>1
    <3>2. CASE ~full
      BY <1>8, <2>4, <2>13, <3>2
    <3> QED
      BY <3>1, <3>2
  <2>15. \A i \in DOMAIN pending : i <= x \/ i > x
    BY <1>8, <2>4
  <2>16. \A i \in DOMAIN pending : ~(i <= x /\ i > x)
    BY <1>8, <2>4
  <2>17. \A e \in 1..sent : e \in g \/ e \in V <=> e \in W
    <3>1. \A e \in 1..sent : e # sent + 1
      BY <1>6
    <3> QED
      BY <2>11, <2>12, <2>14, <2>15, <3>1, Zenon
  <2>18. \A e \in g \cup V : e \in W \/ (e = sent' /\ sent' = sent + 1)
    BY <1>1, <2>11, <2>12, <2>14
  <2>19. g \cap V = {}
    <3>1. \A e \in g : e \notin V
      <4> SUFFICES ASSUME NEW e \in g, e \in V PROVE FALSE
        OBVIOUS
      <4>1. PICK i \in DOMAIN pending : i <= x /\ pending[i].id = e
        BY <2>14
      <4>2. e # sent + 1
        BY <1>9, <4>1
      <4>3. PICK j \in DOMAIN pending : j > x /\ pending[j].id = e
        BY <2>11, <4>2
      <4>4. i = j
        BY <1>10, <4>1, <4>3
      <4> QED
        BY <2>16, <4>1, <4>3, <4>4
    <3> QED
      BY <3>1
  <2>20. sent' = sent + 1 => sent' \in g \cup V
    BY <2>11
  <2>21. fates' = Subtitles!Settled(g)
    BY <2>1, <2>13
  <2>22. /\ \A e \in 1..sent' : fates'[e] = IF \E i \in DOMAIN pending' : pending'[i].id = e
                                          THEN 0 ELSE 1
         /\ \A i \in DOMAIN pending' : pending'[i].id \in 1..sent'
         /\ NoneBefore'
         /\ fates' \in [1..MaxDocuments -> 0..2]
    <3> HIDE DEF full, gone
    <3> QED
      BY <1>6, <2>10, <2>17, <2>18, <2>19, <2>20, <2>21, AccountsKept
  <2>23. Subtitles!EachCaptionOnce' /\ WaitingOnce'
    <3>1. DOMAIN shown' = {}
      BY <2>1
    <3> QED
      BY <2>8, <2>22, <3>1, Zenon DEF Subtitles!EachCaptionOnce, WaitingOnce
  <2>24. Subtitles!TypeOK'
    BY <1>1, <1>4, <1>6, <2>1, <2>6, <2>22, Zenon DEF Subtitles!TypeOK
  <2>25. ~early' => Recent(ManagementNow)'
    BY <1>4, <2>1, Zenon DEF Recent, ManagementNow
  <2> QED
    BY <1>1, <1>4, <2>1, <2>22, <2>23, <2>24, <2>25, NothingShown DEF CaptionsInv
<1>12. CASE ~Subtitles!Missing(d, glyphs)
  <2>1. pending' = pending /\ Subtitles!Write(<<d>>, glyphs) /\ fates' = Subtitles!Settled({d.id})
    BY <1>2, <1>3, <1>12, Zenon
  <2>2. PICK s : s = <<d>>
    OBVIOUS
  <2>3. s \in Seq(Subtitles!Documents) /\ Len(s) = 1 /\ s[1] = d
    BY <1>7, <2>2
  <2>4. \A i \in 1..Len(s) : ~Subtitles!Missing(s[i], glyphs)
    BY <1>12, <2>3
  <2>5. ManagementTyped(ManagementNow) /\ clock \in Nat /\ early \in BOOLEAN
    BY <1>4, <1>5 DEF Subtitles!TypeOK, ManagementTyped, ManagementNow
  <2>6. /\ managed' \in Nat /\ told' \in Nat \cup {None} /\ early' \in BOOLEAN
        /\ ~early' => Recent(ManagementNow)'
        /\ Subtitles!ShownInTime' /\ Subtitles!LanguageIsKnown'
        /\ \A i \in DOMAIN shown' : 0 \notin shown'[i].glyphs
    BY <1>1, <1>4, <2>1, <2>2, <2>3, <2>4, <2>5, WriteKeeps
  <2>7. PICK W : W = Waiting
    OBVIOUS
  <2>8. Waiting' = W
    BY <2>1, <2>7, Zenon DEF Waiting
  <2>9. W \subseteq 1..sent
    BY <1>9, <2>7 DEF Waiting
  <2>10. PICK g : g = {d.id}
    OBVIOUS
  <2>11. /\ \A e \in 1..sent : e \in g \/ e \in W <=> e \in W
         /\ \A e \in g \cup W : e \in W \/ (e = sent' /\ sent' = sent + 1)
         /\ sent' = sent + 1 => sent' \in g \cup W
         /\ g \cap W = {}
    BY <1>1, <1>6, <1>7, <2>9, <2>10
  <2>12. /\ \A e \in 1..sent' : fates'[e] = IF \E i \in DOMAIN pending' : pending'[i].id = e
                                          THEN 0 ELSE 1
         /\ \A i \in DOMAIN pending' : pending'[i].id \in 1..sent'
         /\ NoneBefore'
         /\ fates' \in [1..MaxDocuments -> 0..2]
    BY <1>6, <2>1, <2>7, <2>8, <2>10, <2>11, AccountsKept
  <2>13. Subtitles!EachCaptionOnce' /\ WaitingOnce'
    BY <1>10, <2>1, <2>6, <2>12, Zenon DEF Subtitles!EachCaptionOnce, WaitingOnce
  <2>14. Subtitles!TypeOK'
    BY <1>1, <1>4, <1>6, <2>1, <2>6, <2>12, Zenon DEF Subtitles!TypeOK
  <2> QED
    BY <1>1, <1>4, <2>6, <2>12, <2>13, <2>14 DEF CaptionsInv
<1> QED
  BY <1>11, <1>12

LEMMA ResourceStep ==
  ASSUME Subtitles!CaptionsAssumption, CaptionsInv, Subtitles!ReceiveResource
  PROVE  CaptionsInv'
<1>1. /\ resources < MaxResources /\ resources' = resources + 1
      /\ clock' = clock /\ sent' = sent
  BY DEF Subtitles!ReceiveResource
<1>2. PICK codes \in SUBSET Codes \ {{}} :
        LET known == Subtitles!Known(codes)
            ready == Subtitles!Picked(pending, {d \in Subtitles!Documents : ~Subtitles!Missing(d, known)})
        IN  /\ glyphs' = known
            /\ pending' = Subtitles!Picked(pending, {d \in Subtitles!Documents : Subtitles!Keeps(d, known)})
            /\ Subtitles!Write(ready, known)
            /\ fates' = Subtitles!Settled({ready[i].id : i \in DOMAIN ready})
  BY DEF Subtitles!ReceiveResource
<1>3. PICK known : known = Subtitles!Known(codes)
  OBVIOUS
<1>4. PICK R : R = {d \in Subtitles!Documents : ~Subtitles!Missing(d, known)}
  OBVIOUS
<1>5. PICK K : K = {d \in Subtitles!Documents : Subtitles!Keeps(d, known)}
  OBVIOUS
<1>6. PICK ready : ready = Subtitles!Picked(pending, R)
  OBVIOUS
<1>7. PICK kept : kept = Subtitles!Picked(pending, K)
  OBVIOUS
<1>8. PICK g : g = {ready[i].id : i \in DOMAIN ready}
  OBVIOUS
<1>9. glyphs' = known /\ pending' = kept /\ Subtitles!Write(ready, known) /\ fates' = Subtitles!Settled(g)
  BY <1>2, <1>3, <1>4, <1>5, <1>6, <1>7, <1>8, Zenon
<1>10. Subtitles!TypeOK /\ (~early => Recent(ManagementNow)) /\ (clock # 0 => clock >= Start)
       /\ WaitingOnce
  BY DEF CaptionsInv
<1>11. pending \in Seq(Subtitles!Documents) /\ Len(pending) <= MaxPending /\ Len(pending) \in Nat
       /\ DOMAIN pending = 1..Len(pending)
  BY <1>10 DEF Subtitles!TypeOK
<1>12. \A i, j \in 1..Len(pending) : pending[i].id = pending[j].id => i = j
  BY <1>10, <1>11, Zenon DEF WaitingOnce
<1>13. /\ ready \in Seq(Subtitles!Documents)
       /\ \A i \in 1..Len(ready) : ready[i] \in R /\ \E j \in 1..Len(pending) : ready[i] = pending[j]
       /\ \A j \in 1..Len(pending) : pending[j] \in R => \E i \in 1..Len(ready) : ready[i] = pending[j]
  <2>1. PICK D : D = Subtitles!Documents
    OBVIOUS
  <2>2. pending \in Seq(D)
    BY <1>11, <2>1
  <2>3. /\ ready \in Seq(D)
        /\ \A i \in 1..Len(ready) : ready[i] \in R /\ \E j \in 1..Len(pending) : ready[i] = pending[j]
        /\ \A j \in 1..Len(pending) : pending[j] \in R => \E i \in 1..Len(ready) : ready[i] = pending[j]
    BY <1>6, <2>2, PickedIs
  <2> QED
    BY <2>1, <2>3
<1>14. /\ kept \in Seq(Subtitles!Documents) /\ Len(kept) \in 0..Len(pending)
       /\ \A i \in 1..Len(kept) : kept[i] \in K /\ \E j \in 1..Len(pending) : kept[i] = pending[j]
       /\ \A j \in 1..Len(pending) : pending[j] \in K => \E i \in 1..Len(kept) : kept[i] = pending[j]
       /\ \A i, j \in 1..Len(kept) : kept[i].id = kept[j].id => i = j
  <2>1. PICK D : D = Subtitles!Documents
    OBVIOUS
  <2>2. pending \in Seq(D)
    BY <1>11, <2>1
  <2>3. Once(pending)
    BY <1>12 DEF Once
  <2>4. /\ kept \in Seq(D) /\ Len(kept) \in 0..Len(pending) /\ Once(kept)
        /\ \A i \in 1..Len(kept) : kept[i] \in K /\ \E j \in 1..Len(pending) : kept[i] = pending[j]
        /\ \A j \in 1..Len(pending) : pending[j] \in K => \E i \in 1..Len(kept) : kept[i] = pending[j]
    <3>1. kept \in Seq(D) /\ Len(kept) \in 0..Len(pending)
      BY <1>7, <2>2, PickedIs
    <3>2. Once(kept)
      BY <1>7, <2>2, <2>3, PickedIs
    <3>3. \A i \in 1..Len(kept) : kept[i] \in K /\ \E j \in 1..Len(pending) : kept[i] = pending[j]
      BY <1>7, <2>2, PickedIs
    <3>4. \A j \in 1..Len(pending) : pending[j] \in K => \E i \in 1..Len(kept) : kept[i] = pending[j]
      BY <1>7, <2>2, PickedIs
    <3> QED
      BY <3>1, <3>2, <3>3, <3>4
  <2> QED
    BY <2>1, <2>4 DEF Once
<1>15. /\ \A d \in Subtitles!Documents : d \in K <=> d \notin R
       /\ \A d \in R : ~Subtitles!Missing(d, known)
  BY <1>4, <1>5, Zenon DEF Subtitles!Keeps
<1>16. DOMAIN ready = 1..Len(ready) /\ DOMAIN kept = 1..Len(kept)
  BY <1>13, <1>14
<1>17. \A j \in 1..Len(pending) : pending[j] \in Subtitles!Documents
  BY <1>11
<1>18. \A i \in 1..Len(ready) : ~Subtitles!Missing(ready[i], known)
  BY <1>13, <1>15
<1>19. ManagementTyped(ManagementNow) /\ clock \in Nat /\ early \in BOOLEAN
  <2>1. End \in Nat
    BY DEF Subtitles!CaptionsAssumption
  <2> QED
    BY <1>10, <2>1 DEF Subtitles!TypeOK, ManagementTyped, ManagementNow
<1>20. /\ managed' \in Nat /\ told' \in Nat \cup {None} /\ early' \in BOOLEAN
       /\ ~early' => Recent(ManagementNow)'
       /\ Subtitles!ShownInTime' /\ Subtitles!LanguageIsKnown'
       /\ \A i \in DOMAIN shown' : 0 \notin shown'[i].glyphs
  BY <1>1, <1>9, <1>10, <1>13, <1>18, <1>19, WriteKeeps
<1>21. PICK W, V : W = Waiting /\ V = Waiting'
  OBVIOUS
<1>22. /\ \A e : e \in W <=> \E j \in 1..Len(pending) : pending[j].id = e
       /\ \A e : e \in V <=> \E i \in 1..Len(kept) : kept[i].id = e
       /\ \A e : e \in g <=> \E i \in 1..Len(ready) : ready[i].id = e
  <2>1. W = {pending[i].id : i \in DOMAIN pending} /\ V = {pending'[i].id : i \in DOMAIN pending'}
    BY <1>21 DEF Waiting
  <2>2. /\ W = {pending[i].id : i \in 1..Len(pending)}
        /\ V = {kept[i].id : i \in 1..Len(kept)}
        /\ g = {ready[i].id : i \in 1..Len(ready)}
    BY <1>8, <1>9, <1>11, <1>16, <2>1
  <2> QED
    BY <2>2, Zenon
<1>23. \A e : e \in g \/ e \in V <=> e \in W
  <2>1. ASSUME NEW e \in g PROVE e \in W
    <3>1. PICK i \in 1..Len(ready) : ready[i].id = e
      BY <1>22, <2>1, Zenon
    <3>2. PICK j \in 1..Len(pending) : ready[i] = pending[j]
      BY <1>13, <3>1, Zenon
    <3> QED
      BY <1>22, <3>1, <3>2, Zenon
  <2>2. ASSUME NEW e \in V PROVE e \in W
    <3>1. PICK i \in 1..Len(kept) : kept[i].id = e
      BY <1>22, <2>2, Zenon
    <3>2. PICK j \in 1..Len(pending) : kept[i] = pending[j]
      BY <1>14, <3>1, Zenon
    <3> QED
      BY <1>22, <3>1, <3>2, Zenon
  <2>3. ASSUME NEW e \in W PROVE e \in g \/ e \in V
    <3>1. PICK j \in 1..Len(pending) : pending[j].id = e
      BY <1>22, <2>3
    <3>2. pending[j] \in R \/ pending[j] \in K
      BY <1>15, <1>17
    <3>3. CASE pending[j] \in R
      <4>1. PICK i \in 1..Len(ready) : ready[i] = pending[j]
        BY <1>13, <3>3, Zenon
      <4> QED
        BY <1>22, <3>1, <4>1, Zenon
    <3>4. CASE pending[j] \in K
      <4>1. PICK i \in 1..Len(kept) : kept[i] = pending[j]
        BY <1>14, <3>4, Zenon
      <4> QED
        BY <1>22, <3>1, <4>1, Zenon
    <3> QED
      BY <3>2, <3>3, <3>4
  <2> QED
    BY <2>1, <2>2, <2>3
<1>24. g \cap V = {}
  <2> SUFFICES ASSUME NEW e \in g, e \in V PROVE FALSE
    OBVIOUS
  <2>1. PICK j \in 1..Len(pending) : pending[j].id = e /\ pending[j] \in R
    <3>1. PICK i \in 1..Len(ready) : ready[i].id = e
      BY <1>22, Zenon
    <3>2. PICK j \in 1..Len(pending) : ready[i] = pending[j]
      BY <1>13, <3>1, Zenon
    <3>3. ready[i] \in R
      BY <1>13, <3>1, Zenon
    <3> QED
      BY <3>1, <3>2, <3>3, Zenon
  <2>2. PICK k \in 1..Len(pending) : pending[k].id = e /\ pending[k] \in K
    <3>1. PICK i \in 1..Len(kept) : kept[i].id = e
      BY <1>22
    <3>2. PICK k \in 1..Len(pending) : kept[i] = pending[k]
      BY <1>14
    <3> QED
      BY <1>14, <3>1, <3>2
  <2>3. j = k
    BY <1>12, <2>1, <2>2
  <2> QED
    BY <1>15, <1>17, <2>1, <2>2, <2>3
<1>25. sent' \in {sent, sent + 1} /\ sent' <= MaxDocuments /\ sent' # sent + 1
  BY <1>1, <1>10 DEF Subtitles!TypeOK, Subtitles!CaptionsAssumption
<1>26. /\ \A e \in 1..sent' : fates'[e] = IF \E i \in DOMAIN pending' : pending'[i].id = e
                                        THEN 0 ELSE 1
       /\ \A i \in DOMAIN pending' : pending'[i].id \in 1..sent'
       /\ NoneBefore'
       /\ fates' \in [1..MaxDocuments -> 0..2]
  <2>1. /\ \A e \in 1..sent : e \in g \/ e \in V <=> e \in W
        /\ \A e \in g \cup V : e \in W \/ (e = sent' /\ sent' = sent + 1)
        /\ sent' = sent + 1 => sent' \in g \cup V
    BY <1>23, <1>25
  <2> QED
    BY <1>9, <1>21, <1>24, <1>25, <2>1, AccountsKept
<1>27. Subtitles!EachCaptionOnce' /\ WaitingOnce'
  BY <1>9, <1>14, <1>16, <1>20, <1>26, Zenon DEF Subtitles!EachCaptionOnce, WaitingOnce
<1>28. Subtitles!TypeOK'
  <2>1. known \in [Codes -> 0..MaxResources] /\ resources' \in 0..MaxResources
    BY <1>1, <1>3, <1>10 DEF Subtitles!TypeOK, Subtitles!Known, Subtitles!CaptionsAssumption
  <2>2. Len(kept) <= MaxPending
    BY <1>11, <1>14 DEF Subtitles!CaptionsAssumption
  <2> QED
    BY <1>1, <1>9, <1>10, <1>14, <1>20, <1>26, <2>1, <2>2, Zenon DEF Subtitles!TypeOK
<1> QED
  BY <1>1, <1>10, <1>20, <1>26, <1>27, <1>28 DEF CaptionsInv

\* A step of the captions keeps their inductive invariant.
LEMMA CaptionsStep ==
  ASSUME Subtitles!CaptionsAssumption, CaptionsInv, [Subtitles!Next]_(Subtitles!vars)
  PROVE  CaptionsInv'
<1>1. CASE Subtitles!ReceiveResource
  BY <1>1, ResourceStep
<1>2. CASE Subtitles!ReceiveDocument
  BY <1>2, DocumentStep
<1>3. CASE Subtitles!ReceiveVideo
  BY <1>3, VideoPasses
<1>4. CASE Subtitles!ReceiveNtp
  BY <1>4, NtpStep
<1>5. CASE Subtitles!Clear
  BY <1>5, CaptionsCleared
<1>6. CASE UNCHANGED Subtitles!vars
  <2>1. /\ clock' = clock /\ managed' = managed /\ glyphs' = glyphs /\ pending' = pending
        /\ shown' = shown /\ sent' = sent /\ resources' = resources /\ fates' = fates
        /\ told' = told /\ early' = early
    BY <1>6 DEF Subtitles!vars
  <2>2. Subtitles!TypeOK'
    BY <2>1, Zenon DEF CaptionsInv, Subtitles!TypeOK
  <2>3. Subtitles!EachCaptionOnce' /\ WaitingOnce'
    BY <2>1, Zenon DEF CaptionsInv, Subtitles!EachCaptionOnce, WaitingOnce
  <2>4. NoneBefore' /\ (clock' # 0 => clock' >= Start)
    BY <2>1, Zenon DEF CaptionsInv, NoneBefore
  <2>5. ~early' => Recent(ManagementNow)'
    BY <2>1, Zenon DEF CaptionsInv, Recent, ManagementNow
  <2>6. Subtitles!ShownInTime' /\ Subtitles!LanguageIsKnown'
    BY <2>1, Zenon DEF CaptionsInv, Subtitles!ShownInTime, Subtitles!LanguageIsKnown
  <2> QED
    BY <2>2, <2>3, <2>4, <2>5, <2>6, Zenon DEF CaptionsInv
<1> QED
  BY <1>1, <1>2, <1>3, <1>4, <1>5, <1>6 DEF Subtitles!Next

\* A caption received is written or dropped once, with all the glyphs it uses, or waits
\* for them; it is shown in time, and after the management data that tells its language.
THEOREM CaptionsInTime ==
  ASSUME Subtitles!CaptionsAssumption
  PROVE  Subtitles!Spec =>
           [](Subtitles!EachCaptionOnce /\ Subtitles!ShownInTime /\ Subtitles!LanguageIsKnown)
<1>1. CaptionsInv =>
        Subtitles!EachCaptionOnce /\ Subtitles!ShownInTime /\ Subtitles!LanguageIsKnown
  BY DEF CaptionsInv
<1>2. Subtitles!Init => CaptionsInv
  BY CaptionsStart
<1>3. CaptionsInv /\ [Subtitles!Next]_(Subtitles!vars) => CaptionsInv'
  BY CaptionsStep
<1> QED
  BY <1>1, <1>2, <1>3, PTL DEF Subtitles!Spec

-----------------------------------------------------------------------------
(* The video: every frame that is not whole is reported, and no other, for *)
(* frames of any shape, packets of any length and any modulus.             *)
(*                                                                         *)
(* A loss is noticed by the counter only with the next packet, until which *)
(* the frame before it may be neither whole nor known to be damaged: the   *)
(* invariant says for what the writer and the verifier hold which frame it *)
(* is the beginning of, whether that frame can still become whole, and     *)
(* that otherwise the counter has left a gap or will leave one.            *)

\* The access unit delimiter, which is one part.
Delimits(p) == p.nal = 1

\* The part that follows in the frame, if the frame goes on.
Continues(p, q) ==
  /\ q \in Parts /\ q.frame = p.frame /\ ~Delimits(q)
  /\ \/ q.nal = p.nal /\ q.of = p.of /\ p.part < p.of /\ q.part = p.part + 1
     \/ q.nal = p.nal + 1 /\ p.part = p.of /\ q.part = 1

\* A sequence's items.
LEMMA SequenceOf ==
  ASSUME NEW S, NEW s \in Seq(S)
  PROVE  Len(s) \in Nat /\ DOMAIN s = 1..Len(s) /\ \A i \in 1..Len(s) : s[i] \in S
OBVIOUS

\* A frame begins with its delimiter, and there is more than that.
LEMMA ShapeFacts ==
  ASSUME TsOutputAssumption
  PROVE  /\ Len(Shape) \in Nat /\ Len(Shape) > 1
         /\ \A n \in 1..Len(Shape) : Shape[n].of \in Nat \ {0}
         /\ \A n \in 1..Len(Shape) : Shape[n].type \in {"aud", "slice", "other"}
         /\ \A n \in 1..Len(Shape) : Shape[n].type = "aud" <=> n = 1
         /\ Shape[1].of = 1
<1>1. /\ Len(Shape) \in Nat /\ DOMAIN Shape = 1..Len(Shape)
      /\ \A n \in 1..Len(Shape) : Shape[n] \in [type : {"aud", "slice", "other"}, of : Nat \ {0}]
  <2>1. Shape \in Seq([type : {"aud", "slice", "other"}, of : Nat \ {0}])
    BY DEF TsOutputAssumption
  <2> QED
    BY <2>1, SequenceOf
<1>2. \A n \in 1..Len(Shape) : Shape[n].type = "aud" <=> n = 1
  BY <1>1 DEF TsOutputAssumption
<1>3. Len(Shape) # 0
  BY <1>1 DEF TsOutputAssumption
<1>4. Len(Shape) # 1
  <2>1. SUFFICES ASSUME Len(Shape) = 1 PROVE FALSE
    OBVIOUS
  <2>2. Slices(Len(Shape)) = {}
    BY <1>2, <2>1 DEF Slices
  <2>3. Cardinality(Slices(Len(Shape))) = 0
    BY <2>2, FS_EmptySet
  <2> QED
    BY <2>3 DEF TsOutputAssumption
<1> QED
  BY <1>1, <1>2, <1>3, <1>4 DEF TsOutputAssumption

\* The fields of a part.
LEMMA PartFacts ==
  ASSUME TsOutputAssumption, NEW p \in Parts
  PROVE  /\ p.frame \in 1..MaxFrames /\ p.nal \in 1..Len(Shape) /\ p.part \in Nat \ {0}
         /\ p.of \in Nat \ {0} /\ p.of = Shape[p.nal].of /\ p.part <= p.of
         /\ Delimits(p) => p.of = 1 /\ p.part = 1 /\ p = FirstPart(p.frame, 1)
         /\ Header(p) \in Cells /\ p \in Cells
         /\ p # None
<1>1. /\ p.frame \in 1..MaxFrames /\ p.nal \in 1..Len(Shape) /\ p.part \in Nat \ {0}
      /\ p.of \in Nat \ {0} /\ p.of = Shape[p.nal].of /\ p.part <= p.of
      /\ p = [frame |-> p.frame, nal |-> p.nal, part |-> p.part, of |-> p.of]
  BY DEF Parts
<1>2. Delimits(p) => p.of = 1 /\ p.part = 1
  BY <1>1, ShapeFacts DEF Delimits
<1>3. Delimits(p) => p = FirstPart(p.frame, 1)
  BY <1>1, <1>2 DEF Delimits, FirstPart
<1>4. Header(p) \in Cells
  BY <1>1 DEF Header, Cells
<1> QED
  BY <1>1, <1>2, <1>3, <1>4 DEF Cells, TsOutputAssumption

\* A NAL unit's first part is a part.
LEMMA FirstParts ==
  ASSUME TsOutputAssumption, NEW f \in 1..MaxFrames, NEW n \in 1..Len(Shape)
  PROVE  FirstPart(f, n) \in Parts
<1>1. Shape[n].of \in Nat \ {0}
  BY ShapeFacts
<1> QED
  BY <1>1 DEF FirstPart, Parts

\* What follows a part on the air is the next of its frame, or the next frame's delimiter.
LEMMA FollowingPart ==
  ASSUME TsOutputAssumption, NEW p \in Parts
  PROVE  \/ Continues(p, Following(p)) /\ p # LastPart(p.frame)
         \/ /\ p = LastPart(p.frame)
            /\ \/ Following(p) = None /\ p.frame = MaxFrames
               \/ /\ Following(p) \in Parts /\ Following(p).frame = p.frame + 1
                  /\ Delimits(Following(p))
<1>1. /\ p.frame \in 1..MaxFrames /\ p.nal \in 1..Len(Shape) /\ p.part \in Nat \ {0}
      /\ p.of \in Nat \ {0} /\ p.of = Shape[p.nal].of /\ p.part <= p.of
      /\ p = [frame |-> p.frame, nal |-> p.nal, part |-> p.part, of |-> p.of]
  BY DEF Parts
<1>2. CASE p.part < p.of
  <2> DEFINE q == [frame |-> p.frame, nal |-> p.nal, part |-> p.part + 1, of |-> p.of]
  <2>1. Following(p) = q
    BY <1>1, <1>2 DEF Following
  <2>2. q \in Parts
    BY <1>1, <1>2 DEF Parts
  <2>3. ~Delimits(p)
    BY <1>1, <1>2, PartFacts
  <2>4. Continues(p, q)
    BY <1>1, <1>2, <2>2, <2>3 DEF Continues, Delimits
  <2>5. p # LastPart(p.frame)
    BY <1>1, <1>2 DEF LastPart
  <2> QED
    BY <2>1, <2>4, <2>5
<1>3. CASE p.part = p.of /\ p.nal < Len(Shape)
  <2>1. Following(p) = FirstPart(p.frame, p.nal + 1)
    BY <1>1, <1>3 DEF Following
  <2>2. p.nal + 1 \in 1..Len(Shape)
    BY <1>1, <1>3, ShapeFacts
  <2>3. Following(p) \in Parts
    BY <1>1, <2>1, <2>2, FirstParts
  <2>4. Following(p).frame = p.frame /\ Following(p).nal = p.nal + 1 /\ Following(p).part = 1
    BY <2>1 DEF FirstPart
  <2>5. p.nal + 1 # 1
    BY <1>1
  <2>6. Continues(p, Following(p))
    BY <1>3, <2>3, <2>4, <2>5 DEF Continues, Delimits
  <2>7. p # LastPart(p.frame)
    BY <1>1, <1>3, ShapeFacts DEF LastPart
  <2> QED
    BY <2>6, <2>7
<1>4. CASE p.part = p.of /\ p.nal = Len(Shape)
  <2>1. p = LastPart(p.frame)
    BY <1>1, <1>4 DEF LastPart
  <2>2. Following(p) = IF p.frame < MaxFrames THEN FirstPart(p.frame + 1, 1) ELSE None
    BY <1>1, <1>4, ShapeFacts DEF Following
  <2>3. CASE p.frame < MaxFrames
    <3>1. p.frame + 1 \in 1..MaxFrames /\ 1 \in 1..Len(Shape)
      BY <1>1, <2>3, ShapeFacts DEF TsOutputAssumption
    <3>2. Following(p) = FirstPart(p.frame + 1, 1) /\ Following(p) \in Parts
      BY <2>2, <2>3, <3>1, FirstParts
    <3>3. Following(p).frame = p.frame + 1 /\ Delimits(Following(p))
      BY <3>2 DEF FirstPart, Delimits
    <3> QED
      BY <2>1, <3>2, <3>3
  <2>4. CASE ~(p.frame < MaxFrames)
    <3>1. p.frame = MaxFrames
      BY <1>1, <2>4 DEF TsOutputAssumption
    <3> QED
      BY <2>1, <2>2, <2>4, <3>1
  <2> QED
    BY <2>3, <2>4
<1> QED
  BY <1>1, <1>2, <1>3, <1>4, ShapeFacts

-----------------------------------------------------------------------------
(* The processor.                                                          *)

\* The processor is at a part of a frame it has had so far.
AtPart(q, p) == q.timed /\ q.left = IF p.part = 1 THEN 0 ELSE p.of - p.part + 1

\* The slices it has counted before a part that is not a delimiter.
SlicesAt(p) == Slices(IF p.part = 1 THEN p.nal - 1 ELSE p.nal)

\* And it has counted them up to those that it needs.
Counted(q, p) ==
  LET n == Cardinality(SlicesAt(p)) IN q.slices = IF n < SlicesNeeded THEN n ELSE SlicesNeeded

\* A part that is dropped takes the processor's state with it.
LEMMA ProcessDrops ==
  ASSUME NEW q, NEW p, NEW known, ~Process(q, p, known).passed
  PROVE  Process(q, p, known).proc = Cleared
BY DEF Process, Dropped

\* A NAL unit has begun.
LEMMA StartedUnit ==
  ASSUME NEW q, NEW p, NEW known, q \in Procs, NEW u, u = Started(q, p, known), u # None
  PROVE  u = [left   |-> p.of,
              timed  |-> (Shape[p.nal].type = "aud" \/ q.timed),
              slices |-> IF Shape[p.nal].type = "aud" THEN 0
                         ELSE IF Shape[p.nal].type = "slice" /\ q.slices < SlicesNeeded
                              THEN q.slices + 1 ELSE q.slices]
<1>1. /\ q.timed \in BOOLEAN
      /\ q = [left |-> q.left, timed |-> q.timed, slices |-> q.slices]
  BY DEF Procs
<1>2. CASE Shape[p.nal].type = "aud"
  <2>1. Shape[p.nal].type # "slice"
    BY <1>2
  <2>2. u = [[q EXCEPT !.timed = TRUE, !.slices = 0] EXCEPT !.left = p.of, !.slices = @]
    BY <1>2, <2>1, Zenon DEF Started
  <2> QED
    BY <1>1, <1>2, <2>2
<1>3. CASE Shape[p.nal].type # "aud" /\ Shape[p.nal].type = "slice" /\ q.slices < SlicesNeeded
  <2>1. u = [q EXCEPT !.left = p.of, !.slices = @ + 1]
    BY <1>3, Zenon DEF Started
  <2> QED
    BY <1>1, <1>3, <2>1
<1>4. CASE Shape[p.nal].type # "aud" /\ ~(Shape[p.nal].type = "slice" /\ q.slices < SlicesNeeded)
  <2>1. u = [q EXCEPT !.left = p.of, !.slices = @]
    BY <1>4, Zenon DEF Started
  <2> QED
    BY <1>1, <1>4, <2>1
<1> QED
  BY <1>2, <1>3, <1>4

\* A unit of which one part more has been had.
LEMMA LeftOneLess ==
  ASSUME NEW u, NEW n, NEW t, NEW m, u = [left |-> n, timed |-> t, slices |-> m]
  PROVE  [u EXCEPT !.left = @ - 1] = [left |-> n - 1, timed |-> t, slices |-> m]
<1>1. [[left |-> n, timed |-> t, slices |-> m] EXCEPT !.left = n - 1]
        = [left |-> n - 1, timed |-> t, slices |-> m]
  OBVIOUS
<1>2. u.left = n
  OBVIOUS
<1> QED
  BY <1>1, <1>2, Zenon

\* The outcome, by the unit that the processor is in.
LEMMA ProcessForm ==
  ASSUME NEW q, NEW p, NEW known, NEW r, r = Process(q, p, known),
         NEW unit, unit = (IF q.left = 0 THEN Started(q, p, known) ELSE q)
  PROVE  \/ ~r.passed /\ (unit = None \/ ~unit.timed \/ (q.left # 0 /\ ~Fits(q, p)))
         \/ /\ unit # None /\ unit.timed /\ r.passed
            /\ r.proc = [unit EXCEPT !.left = @ - 1]
            /\ r.first \in BOOLEAN /\ r.last \in BOOLEAN
            /\ r.first <=> q.left = 0 /\ Shape[p.nal].type = "aud"
            /\ r.last <=> unit.slices >= SlicesNeeded /\ unit.left = 1
<1>1. r = IF unit = None THEN Dropped
          ELSE IF ~unit.timed \/ (q.left # 0 /\ ~Fits(unit, p)) THEN Dropped
          ELSE [proc   |-> [unit EXCEPT !.left = @ - 1],
                first  |-> q.left = 0 /\ Shape[p.nal].type = "aud",
                last   |-> unit.slices >= SlicesNeeded /\ unit.left = 1,
                passed |-> TRUE]
  BY Zenon DEF Process
<1>2. ~Dropped.passed
  BY DEF Dropped
<1>3. CASE unit = None
  BY <1>1, <1>2, <1>3
<1>4. CASE unit # None /\ (~unit.timed \/ (q.left # 0 /\ ~Fits(unit, p)))
  BY <1>1, <1>2, <1>4
<1>5. CASE unit # None /\ ~(~unit.timed \/ (q.left # 0 /\ ~Fits(unit, p)))
  <2>1. PICK first \in BOOLEAN : first <=> q.left = 0 /\ Shape[p.nal].type = "aud"
    OBVIOUS
  <2>2. PICK last \in BOOLEAN : last <=> unit.slices >= SlicesNeeded /\ unit.left = 1
    OBVIOUS
  <2>3. r = [proc |-> [unit EXCEPT !.left = @ - 1], first |-> first, last |-> last,
             passed |-> TRUE]
    BY <1>1, <1>5, <2>1, <2>2, Zenon
  <2>4. /\ r.proc = [unit EXCEPT !.left = @ - 1] /\ r.first = first /\ r.last = last
        /\ r.passed = TRUE
    <3>1. PICK after : after = [unit EXCEPT !.left = @ - 1]
      OBVIOUS
    <3>2. r = [proc |-> after, first |-> first, last |-> last, passed |-> TRUE]
      BY <2>3, <3>1, Zenon
    <3>3. r.proc = after /\ r.first = first /\ r.last = last /\ r.passed = TRUE
      BY <3>2
    <3> QED
      BY <3>1, <3>3, Zenon
  <2> QED
    BY <1>5, <2>1, <2>2, <2>4, Zenon
<1> QED
  BY <1>3, <1>4, <1>5

\* What is passed on.
LEMMA ProcessPasses ==
  ASSUME TsOutputAssumption, NEW q \in Procs, NEW p \in Parts, NEW known \in BOOLEAN,
         NEW r, r = Process(q, p, known), r.passed
  PROVE  /\ r.proc \in Procs /\ r.proc.timed
         /\ r.first \in BOOLEAN /\ r.last \in BOOLEAN
         /\ r.first => /\ Delimits(p) /\ q.left = 0 /\ ~r.last
                       /\ r.proc = [left |-> 0, timed |-> TRUE, slices |-> 0]
         /\ ~r.first => q.timed
         /\ ~r.first /\ Delimits(p) => q.left # 0
<1>1. /\ q.left \in Nat /\ q.timed \in BOOLEAN /\ q.slices \in 0..SlicesNeeded
      /\ q = [left |-> q.left, timed |-> q.timed, slices |-> q.slices]
      /\ SlicesNeeded \in Nat \ {0}
  BY DEF Procs, TsOutputAssumption
<1>2. /\ p.part \in Nat \ {0} /\ p.of \in Nat \ {0}
      /\ Delimits(p) => p.of = 1 /\ p.part = 1
  BY PartFacts
<1>3. Shape[p.nal].type = "aud" <=> Delimits(p)
  BY PartFacts, ShapeFacts DEF Delimits
<1> DEFINE unit == IF q.left = 0 THEN Started(q, p, known) ELSE q
<1>4. /\ unit # None /\ unit.timed
      /\ r.proc = [unit EXCEPT !.left = @ - 1]
      /\ r.first \in BOOLEAN /\ r.last \in BOOLEAN
      /\ r.first <=> q.left = 0 /\ Shape[p.nal].type = "aud"
      /\ r.last <=> unit.slices >= SlicesNeeded /\ unit.left = 1
  BY ProcessForm
<1>5. CASE q.left # 0
  <2>1. unit = q
    BY <1>5
  <2>2. ~r.first /\ q.timed /\ r.proc = [q EXCEPT !.left = @ - 1]
    BY <1>4, <1>5, <2>1
  <2>3. r.proc \in Procs /\ r.proc.timed
    BY <1>1, <1>5, <2>2 DEF Procs
  <2> QED
    BY <1>4, <1>5, <2>2, <2>3
<1>6. CASE q.left = 0
  <2>1. unit = Started(q, p, known)
    BY <1>6
  <2> HIDE DEF unit
  <2>2. unit = [left   |-> p.of,
                timed  |-> (Shape[p.nal].type = "aud" \/ q.timed),
                slices |-> IF Shape[p.nal].type = "aud" THEN 0
                           ELSE IF Shape[p.nal].type = "slice" /\ q.slices < SlicesNeeded
                                THEN q.slices + 1 ELSE q.slices]
    BY <1>4, <2>1, StartedUnit
  <2>3. CASE Delimits(p)
    <3>1. unit = [left |-> 1, timed |-> TRUE, slices |-> 0]
      <4>1. PICK t, n : /\ t = (Shape[p.nal].type = "aud" \/ q.timed)
                        /\ n = IF Shape[p.nal].type = "aud" THEN 0
                               ELSE IF Shape[p.nal].type = "slice" /\ q.slices < SlicesNeeded
                                    THEN q.slices + 1 ELSE q.slices
        OBVIOUS
      <4>2. unit = [left |-> p.of, timed |-> t, slices |-> n]
        BY <2>2, <4>1, Zenon
      <4>3. t = TRUE /\ n = 0
        BY <1>3, <2>3, <4>1, Zenon
      <4>4. p.of = 1
        BY <1>2, <2>3
      <4> QED
        BY <4>2, <4>3, <4>4, Zenon
    <3>2. r.proc = [left |-> 0, timed |-> TRUE, slices |-> 0]
      <4>1. r.proc = [left |-> 1 - 1, timed |-> TRUE, slices |-> 0]
        <5>1. r.proc = [unit EXCEPT !.left = @ - 1]
          BY <1>4, Zenon
        <5> QED
          BY <3>1, <5>1, LeftOneLess
      <4> QED
        BY <4>1
    <3>3. ~(unit.slices >= SlicesNeeded)
      BY <1>1, <3>1
    <3>4. r.proc \in Procs /\ r.proc.timed
      BY <1>1, <3>2 DEF Procs
    <3> QED
      BY <1>3, <1>4, <1>6, <2>3, <3>2, <3>3, <3>4
  <2>4. CASE ~Delimits(p)
    <3>1. PICK n \in 0..SlicesNeeded : unit.slices = n
      <4>1. unit.slices = IF Shape[p.nal].type = "slice" /\ q.slices < SlicesNeeded
                          THEN q.slices + 1 ELSE q.slices
        BY <1>3, <2>2, <2>4
      <4> QED
        BY <1>1, <4>1
    <3>2. unit.left = p.of /\ unit.timed = q.timed
      <4>1. unit.timed = (Shape[p.nal].type = "aud" \/ q.timed)
        BY <2>2, Zenon
      <4> QED
        BY <1>1, <1>3, <2>2, <2>4, <4>1
    <3>3. unit = [left |-> p.of, timed |-> q.timed, slices |-> n]
      BY <2>2, <3>1, <3>2
    <3>4. r.proc \in Procs /\ r.proc.timed
      BY <1>1, <1>2, <1>4, <3>2, <3>3 DEF Procs
    <3> QED
      BY <1>3, <1>4, <2>4, <3>2, <3>4
  <2> QED
    BY <2>3, <2>4
<1> QED
  BY <1>5, <1>6


\* Between the parts of a unit the slices that were counted are the same; at the
\* beginning of one, one more, if it is a slice.
LEMMA SlicesCounted ==
  ASSUME TsOutputAssumption, NEW n \in 1..Len(Shape)
  PROVE  /\ Cardinality(Slices(0)) = 0 /\ Cardinality(Slices(n)) \in Nat
         /\ Cardinality(Slices(n - 1)) \in Nat
         /\ Cardinality(Slices(n)) =
              Cardinality(Slices(n - 1)) + (IF Shape[n].type = "slice" THEN 1 ELSE 0)
         /\ Cardinality(Slices(1)) = 0
<1>1. IsFiniteSet(Slices(n - 1)) /\ Cardinality(Slices(n - 1)) \in Nat
  <2>1. IsFiniteSet(1..(n - 1))
    BY FS_Interval
  <2>2. Slices(n - 1) \subseteq 1..(n - 1)
    BY DEF Slices
  <2> QED
    BY <2>1, <2>2, FS_Subset, FS_CardinalityType
<1>2. n \notin Slices(n - 1)
  BY DEF Slices
<1>3. Slices(n) = IF Shape[n].type = "slice" THEN Slices(n - 1) \cup {n} ELSE Slices(n - 1)
  <2>1. 1..n = (1..(n - 1)) \cup {n}
    OBVIOUS
  <2> QED
    BY <2>1 DEF Slices
<1>4. Slices(0) = {} /\ Slices(1) = {}
  <2>1. 1..0 = {} /\ 1..1 = {1}
    OBVIOUS
  <2>2. 1 \in 1..Len(Shape)
    BY ShapeFacts
  <2>3. Shape[1].type = "aud"
    BY <2>2, ShapeFacts
  <2> QED
    BY <2>1, <2>3 DEF Slices
<1>5. Cardinality(Slices(0)) = 0 /\ Cardinality(Slices(1)) = 0
  BY <1>4, FS_EmptySet
<1>6. CASE Shape[n].type = "slice"
  <2>1. Cardinality(Slices(n)) = Cardinality(Slices(n - 1)) + 1
    BY <1>1, <1>2, <1>3, <1>6, FS_AddElement
  <2> QED
    BY <1>1, <1>5, <1>6, <2>1
<1>7. CASE Shape[n].type # "slice"
  BY <1>1, <1>3, <1>5, <1>7
<1> QED
  BY <1>6, <1>7

\* A processor that has had the frame so far passes on what follows in it, and
\* sees its end.
LEMMA ProcessInSync ==
  ASSUME TsOutputAssumption, NEW q \in Procs, NEW p \in Parts, NEW known \in BOOLEAN,
         ~Delimits(p), AtPart(q, p), Counted(q, p), NEW r, r = Process(q, p, known)
  PROVE  /\ r.passed /\ ~r.first
         /\ p = LastPart(p.frame) => r.last /\ r.proc.left = 0
         /\ \A t : Continues(p, t) => AtPart(r.proc, t) /\ Counted(r.proc, t)
<1>1. /\ q.left \in Nat /\ q.timed = TRUE /\ q.slices \in 0..SlicesNeeded
      /\ q = [left |-> q.left, timed |-> q.timed, slices |-> q.slices]
      /\ SlicesNeeded \in Nat \ {0} /\ q # None
  BY DEF Procs, TsOutputAssumption, AtPart
<1>2. /\ p.part \in Nat \ {0} /\ p.of \in Nat \ {0} /\ p.part <= p.of
      /\ p.nal \in 1..Len(Shape) /\ p.nal # 1
      /\ p = LastPart(p.frame) => p.nal = Len(Shape) /\ p.part = p.of
  BY PartFacts DEF Delimits, LastPart
<1>3. Shape[p.nal].type # "aud"
  BY <1>2, ShapeFacts DEF Delimits
<1> DEFINE unit == IF q.left = 0 THEN Started(q, p, known) ELSE q
           n == Cardinality(Slices(p.nal))
           m == Cardinality(Slices(p.nal - 1))
<1>4. n \in Nat /\ m \in Nat /\ n = m + (IF Shape[p.nal].type = "slice" THEN 1 ELSE 0)
  BY <1>2, SlicesCounted
<1>5. p = LastPart(p.frame) => n >= SlicesNeeded
  BY <1>2 DEF TsOutputAssumption
<1> HIDE DEF n, m
<1>6. unit = [left |-> p.of - p.part + 1, timed |-> TRUE,
              slices |-> IF n < SlicesNeeded THEN n ELSE SlicesNeeded]
  <2>1. CASE p.part = 1
    <3>1. q.left = 0 /\ q.slices = IF m < SlicesNeeded THEN m ELSE SlicesNeeded
      BY <2>1 DEF AtPart, Counted, SlicesAt, m
    <3>2. unit = IF Shape[p.nal].type = "slice" /\ q.slices < SlicesNeeded
                 THEN [q EXCEPT !.left = p.of, !.slices = @ + 1]
                 ELSE [q EXCEPT !.left = p.of, !.slices = @]
      <4>1. unit = Started(q, p, known)
        BY <3>1
      <4>2. ~(p.part > 1)
        BY <2>1
      <4> HIDE DEF unit
      <4>3. Started(q, p, known) =
              [q EXCEPT !.left = p.of,
                        !.slices = IF Shape[p.nal].type = "slice" /\ @ < SlicesNeeded
                                   THEN @ + 1 ELSE @]
        BY <1>3, <4>2, Zenon DEF Started
      <4> QED
        BY <4>1, <4>3, Zenon
    <3> HIDE DEF unit
    <3>3. p.of = p.of - p.part + 1
      BY <1>2, <2>1
    <3>4. CASE Shape[p.nal].type = "slice" /\ q.slices < SlicesNeeded
      <4>1. unit = [left |-> p.of, timed |-> TRUE, slices |-> q.slices + 1]
        BY <1>1, <3>2, <3>4
      <4>2. q.slices + 1 = IF n < SlicesNeeded THEN n ELSE SlicesNeeded
        BY <1>1, <1>4, <3>1, <3>4
      <4> QED
        BY <3>3, <4>1, <4>2
    <3>5. CASE ~(Shape[p.nal].type = "slice" /\ q.slices < SlicesNeeded)
      <4>1. unit = [left |-> p.of, timed |-> TRUE, slices |-> q.slices]
        BY <1>1, <3>2, <3>5
      <4>2. q.slices = IF n < SlicesNeeded THEN n ELSE SlicesNeeded
        BY <1>1, <1>4, <3>1, <3>5
      <4> QED
        BY <3>3, <4>1, <4>2
    <3> QED
      BY <3>4, <3>5
  <2>2. CASE p.part # 1
    <3>1. /\ q.left = p.of - p.part + 1 /\ q.left # 0
          /\ q.slices = IF n < SlicesNeeded THEN n ELSE SlicesNeeded
      BY <1>2, <2>2 DEF AtPart, Counted, SlicesAt, n
    <3> QED
      BY <1>1, <3>1
  <2> QED
    BY <2>1, <2>2
<1>7. q.left # 0 => Fits(q, p)
  BY <1>1, <1>2 DEF Fits, AtPart
<1>8. unit # None
  <2>1. (IF n < SlicesNeeded THEN n ELSE SlicesNeeded) \in 0..SlicesNeeded
    BY <1>1, <1>4
  <2>2. p.of - p.part + 1 \in Nat
    BY <1>2
  <2> HIDE DEF unit
  <2>3. unit \in Procs
    BY <1>6, <2>1, <2>2 DEF Procs
  <2> QED
    BY <2>3 DEF TsOutputAssumption
<1>9. PICK u : u = unit
  OBVIOUS
<1>10. /\ r.passed /\ ~r.first
       /\ r.proc = [u EXCEPT !.left = @ - 1]
       /\ r.last <=> u.slices >= SlicesNeeded /\ u.left = 1
  <2>1. u.timed
    BY <1>6, <1>9
  <2> QED
    BY <1>3, <1>7, <1>8, <1>9, <2>1, ProcessForm
<1>11. /\ u = [left |-> p.of - p.part + 1, timed |-> TRUE,
               slices |-> IF n < SlicesNeeded THEN n ELSE SlicesNeeded]
       /\ r.proc = [left |-> p.of - p.part, timed |-> TRUE,
                    slices |-> IF n < SlicesNeeded THEN n ELSE SlicesNeeded]
  <2> HIDE DEF unit
  <2>1. u = [left |-> p.of - p.part + 1, timed |-> TRUE,
             slices |-> IF n < SlicesNeeded THEN n ELSE SlicesNeeded]
    BY <1>6, <1>9, Zenon
  <2>2. PICK c : c = IF n < SlicesNeeded THEN n ELSE SlicesNeeded
    OBVIOUS
  <2>3. u = [left |-> p.of - p.part + 1, timed |-> TRUE, slices |-> c]
    BY <2>1, <2>2, Zenon
  <2>4. r.proc = [left |-> p.of - p.part, timed |-> TRUE, slices |-> c]
    <3>1. r.proc = [u EXCEPT !.left = @ - 1]
      BY <1>10, Zenon
    <3>2. PICK k : k = p.of - p.part + 1
      OBVIOUS
    <3>3. k - 1 = p.of - p.part
      BY <1>2, <3>2
    <3>4. u = [left |-> k, timed |-> TRUE, slices |-> c]
      BY <2>3, <3>2, Zenon
    <3>5. r.proc = [left |-> k - 1, timed |-> TRUE, slices |-> c]
      BY <3>1, <3>4, LeftOneLess
    <3> QED
      BY <3>1, <3>3, <3>5, Zenon
  <2> QED
    BY <2>2, <2>3, <2>4, Zenon
<1>12. ASSUME p = LastPart(p.frame) PROVE r.last /\ r.proc.left = 0
  <2>1. u.slices = SlicesNeeded /\ u.left = 1 /\ r.proc.left = 0
    BY <1>1, <1>2, <1>4, <1>5, <1>11, <1>12
  <2> QED
    BY <1>1, <1>10, <2>1
<1>13. ASSUME NEW t, Continues(p, t) PROVE AtPart(r.proc, t) /\ Counted(r.proc, t)
  <2>1. /\ t \in Parts
        /\ \/ t.nal = p.nal /\ t.of = p.of /\ p.part < p.of /\ t.part = p.part + 1
           \/ t.nal = p.nal + 1 /\ p.part = p.of /\ t.part = 1
    BY <1>13 DEF Continues
  <2>2. SlicesAt(t) = Slices(p.nal)
    BY <1>2, <2>1 DEF SlicesAt
  <2>3. Counted(r.proc, t)
    BY <1>11, <2>2 DEF Counted, n
  <2>4. AtPart(r.proc, t)
    BY <1>2, <1>11, <2>1 DEF AtPart
  <2> QED
    BY <2>3, <2>4
<1> QED
  BY <1>10, <1>12, <1>13


-----------------------------------------------------------------------------
(* The writer.                                                             *)

\* How many packets one or two cells more fill.
LEMMA Divided ==
  ASSUME NEW c \in Nat \ {0}, NEW n \in Nat
  PROVE  /\ n < c => n \div c = 0 /\ n % c = n
         /\ n = c => n \div c = 1 /\ n % c = 0
         /\ n = 2 /\ c = 1 => n \div c = 2 /\ n % c = 0
OBVIOUS

\* A sequence that is given by its items.
LEMMA Listed ==
  ASSUME NEW n \in Nat, NEW s, NEW S, s \in [1..n -> S]
  PROVE  s \in Seq(S) /\ Len(s) = n /\ (n = 0 => s = <<>>)
OBVIOUS

\* A part of a sequence that is one item long.
LEMMA OneItem ==
  ASSUME NEW S, NEW s \in Seq(S), NEW i \in 1..Len(s)
  PROVE  SubSeq(s, i, i) = <<s[i]>>
<1>1. s[i] \in S /\ i \in Int /\ Len(s) \in Nat
  OBVIOUS
<1>2. /\ SubSeq(s, i, i) \in Seq(S) /\ Len(SubSeq(s, i, i)) = 1
      /\ SubSeq(s, i, i)[1] = s[i]
  <2>1. \A j \in i..i : s[j] \in S
    BY <1>1
  <2>2. /\ SubSeq(s, i, i) \in Seq(S)
        /\ Len(SubSeq(s, i, i)) = IF i <= i THEN i - i + 1 ELSE 0
        /\ \A j \in 1..(i - i + 1) : SubSeq(s, i, i)[j] = s[i + j - 1]
    BY <1>1, <2>1, SubSeqProperties
  <2>3. i - i + 1 = 1 /\ i + 1 - 1 = i /\ i <= i /\ 1 \in 1..1
    BY <1>1
  <2> QED
    BY <2>2, <2>3
<1>3. <<s[i]>> \in Seq(S) /\ Len(<<s[i]>>) = 1 /\ <<s[i]>>[1] = s[i]
  BY <1>1
<1>4. PICK t, u : t = SubSeq(s, i, i) /\ u = <<s[i]>>
  OBVIOUS
<1>5. /\ t \in Seq(S) /\ u \in Seq(S) /\ Len(t) = Len(u)
      /\ \A j \in 1..Len(t) : t[j] = u[j]
  BY <1>2, <1>3, <1>4
<1>6. t = u
  BY <1>5, SeqEqual
<1> QED
  BY <1>4, <1>6

\* What the packet is filled with, once a part is written.
Filled(w, p, first) == IF first THEN <<Header(p), p>> ELSE Append(w.pending, p)

\* It is no empty packet.
LEMMA FilledIs ==
  ASSUME TsOutputAssumption, NEW w \in Writers, NEW p \in Parts, NEW first \in BOOLEAN,
         NEW cells, cells = Filled(w, p, first)
  PROVE  /\ cells \in Seq(Cells) /\ cells # <<>>
         /\ Len(cells) = IF first THEN 2 ELSE Len(w.pending) + 1
         /\ first => cells[1] = Header(p) /\ cells[2] = p
<1>1. w.pending \in Seq(Cells) /\ Header(p) \in Cells /\ p \in Cells
  BY PartFacts DEF Writers
<1>2. CASE first
  BY <1>1, <1>2 DEF Filled
<1>3. CASE ~first
  BY <1>1, <1>3, AppendProperties DEF Filled
<1> QED
  BY <1>2, <1>3

\* How many packets a part completes.
LEMMA WrittenForms ==
  ASSUME TsOutputAssumption, NEW w \in Writers, NEW p \in Parts,
         NEW first \in BOOLEAN, NEW last \in BOOLEAN,
         Len(w.pending) < PacketCells, first => ~last, ~first => w.open,
         NEW out, out = Written(w, p, first, last),
         NEW cells, cells = Filled(w, p, first)
  PROVE  \/ /\ out.packets = <<>> /\ ~last /\ Len(cells) < PacketCells
            /\ out.writer = [open |-> TRUE, pending |-> cells,
                             index |-> IF first THEN 0 ELSE w.index, cc |-> w.cc]
         \/ /\ Len(out.packets) = 1
            /\ out.packets[1] = [cc |-> w.cc, start |-> (first \/ w.index = 0), cells |-> cells]
            /\ out.writer = [open |-> TRUE, pending |-> <<>>, index |-> 1,
                             cc |-> (w.cc + 1) % CcModulus]
         \/ /\ Len(out.packets) = 2 /\ first
            /\ out.packets[1] = [cc |-> w.cc, start |-> TRUE, cells |-> <<Header(p)>>]
            /\ out.packets[2] = [cc |-> (w.cc + 1) % CcModulus, start |-> FALSE, cells |-> <<p>>]
            /\ out.writer = [open |-> TRUE, pending |-> <<>>, index |-> 1,
                             cc |-> (w.cc + 2) % CcModulus]
<1>1. /\ cells \in Seq(Cells) /\ Len(cells) = IF first THEN 2 ELSE Len(w.pending) + 1
      /\ Len(w.pending) \in Nat /\ w.pending \in Seq(Cells)
      /\ PacketCells \in Nat \ {0} /\ CcModulus \in Nat \ {0, 1} /\ w.cc \in 0..(CcModulus - 1)
  BY FilledIs DEF Writers, TsOutputAssumption
<1> DEFINE size    == Len(cells)
           full    == size \div PacketCells
           count   == IF last /\ size % PacketCells # 0 THEN full + 1 ELSE full
           upTo(i) == IF i * PacketCells < size THEN i * PacketCells ELSE size
           item(i) == [cc    |-> (w.cc + i - 1) % CcModulus,
                       start |-> i = 1 /\ (first \/ w.index = 0),
                       cells |-> SubSeq(cells, (i - 1) * PacketCells + 1, upTo(i))]
<1>2. out = [packets |-> [i \in 1..count |-> item(i)],
             writer  |-> [open    |-> TRUE,
                          pending |-> SubSeq(cells, upTo(count) + 1, size),
                          index   |-> IF count > 0 THEN 1 ELSE IF first THEN 0 ELSE w.index,
                          cc      |-> (w.cc + count) % CcModulus]]
  <2>1. (first \/ ~w.open) <=> first
    OBVIOUS
  <2>2. cells = Append(NewPending(w, IF first \/ ~w.open THEN <<Header(p)>> ELSE <<>>), p)
    <3>1. CASE first
      <4>1. <<Header(p)>> # <<>> /\ cells = Append(<<Header(p)>>, p)
        BY <3>1 DEF Filled
      <4> QED
        BY <3>1, <4>1 DEF NewPending
    <3>2. CASE ~first
      BY <2>1, <3>2 DEF NewPending, Filled
    <3> QED
      BY <3>1, <3>2
  <2>3. PICK new \in BOOLEAN : new = (first \/ ~w.open)
    OBVIOUS
  <2>4. new = first
    BY <2>1, <2>3
  <2> QED
    BY <2>2, <2>3, <2>4, Zenon DEF Written
<1>3. /\ out.packets = [i \in 1..count |-> item(i)]
      /\ out.writer = [open    |-> TRUE,
                       pending |-> SubSeq(cells, upTo(count) + 1, size),
                       index   |-> IF count > 0 THEN 1 ELSE IF first THEN 0 ELSE w.index,
                       cc      |-> (w.cc + count) % CcModulus]
  <2>1. PICK packets, writes :
          /\ packets = [i \in 1..count |-> item(i)]
          /\ writes  = [open    |-> TRUE,
                        pending |-> SubSeq(cells, upTo(count) + 1, size),
                        index   |-> IF count > 0 THEN 1 ELSE IF first THEN 0 ELSE w.index,
                        cc      |-> (w.cc + count) % CcModulus]
    OBVIOUS
  <2>2. out = [packets |-> packets, writer |-> writes]
    BY <1>2, <2>1, Zenon
  <2>3. out.packets = packets /\ out.writer = writes
    BY <2>2
  <2> QED
    BY <2>1, <2>3, Zenon
<1>4. /\ size \in Nat \ {0} /\ w.cc % CcModulus = w.cc
      /\ size <= PacketCells \/ (size = 2 /\ PacketCells = 1 /\ first)
  <2>1. size \in Nat \ {0} /\ w.cc \in Nat /\ w.cc < CcModulus
    BY <1>1
  <2> HIDE DEF size
  <2>2. w.cc % CcModulus = w.cc
    BY <1>1, <2>1, Divided
  <2>3. size <= PacketCells \/ (size = 2 /\ PacketCells = 1 /\ first)
    BY <1>1, <2>1 DEF size
  <2> QED
    BY <2>1, <2>2, <2>3
<1>5. CASE size < PacketCells /\ ~last
  <2>1. count = 0
    <3>1. PacketCells \in Nat \ {0} /\ size \in Nat /\ size < PacketCells
      BY <1>1, <1>4, <1>5
    <3>2. size \div PacketCells = 0
      <4> HIDE DEF size
      <4> QED
        BY <3>1, Divided, Zenon
    <3> QED
      BY <1>5, <3>2
  <2>2. upTo(0) = 0
    BY <1>1, <1>4
  <2>3. SubSeq(cells, upTo(0) + 1, size) = cells
    <3>1. upTo(0) + 1 = 1
      BY <2>2
    <3> HIDE DEF upTo
    <3> QED
      BY <1>1, <3>1, SubSeqFull, Zenon
  <2>4. (w.cc + 0) % CcModulus = w.cc
    BY <1>1, <1>4
  <2> HIDE DEF count, upTo
  <2>5. out.packets = <<>>
    <3>1. PICK s : s = [i \in 1..count |-> item(i)]
      OBVIOUS
    <3>2. s = [i \in 1..0 |-> item(i)]
      BY <2>1, <3>1
    <3>3. s = <<>>
      BY <3>2, Listed
    <3> QED
      BY <1>3, <3>1, <3>3
  <2>6. out.writer = [open |-> TRUE, pending |-> cells,
                      index |-> IF first THEN 0 ELSE w.index, cc |-> w.cc]
    <3>1. ~(0 > 0)
      OBVIOUS
    <3> QED
      BY <1>3, <2>1, <2>3, <2>4, <3>1, Zenon
  <2> QED
    BY <1>5, <2>5, <2>6
<1>6. CASE size = PacketCells \/ (size < PacketCells /\ last)
  <2>1. count = 1
    <3>1. CASE size = PacketCells
      <4>1. full = 1 /\ size % PacketCells = 0
        BY <1>1, <1>4, <3>1, Divided
      <4> QED
        BY <4>1
    <3>2. CASE size < PacketCells /\ last
      <4>1. full = 0 /\ size % PacketCells = size
        BY <1>1, <1>4, <3>2, Divided
      <4> QED
        BY <1>4, <3>2, <4>1
    <3> QED
      BY <1>6, <3>1, <3>2
  <2>2. upTo(1) = size
    BY <1>1, <1>4, <1>6
  <2>3. SubSeq(cells, (1 - 1) * PacketCells + 1, upTo(1)) = cells
    <3>1. (1 - 1) * PacketCells + 1 = 1
      BY <1>1
    <3> QED
      BY <1>1, <2>2, <3>1, SubSeqFull, Zenon
  <2>4. SubSeq(cells, upTo(1) + 1, size) = <<>>
    <3>1. size + 1 \in Int /\ size \in Int /\ size < size + 1
      BY <1>1
    <3> HIDE DEF upTo
    <3> QED
      BY <2>2, <3>1, SubSeqEmpty
  <2>5. (w.cc + 1 - 1) % CcModulus = w.cc /\ (1 = 1) = TRUE
    <3>1. w.cc + 1 - 1 = w.cc
      BY <1>1
    <3> QED
      BY <1>4, <3>1
  <2> HIDE DEF count, upTo
  <2>6. Len(out.packets) = 1 /\ out.packets[1] = item(1)
    <3>1. out.packets = [i \in 1..1 |-> item(i)]
      BY <1>3, <2>1, Zenon
    <3> HIDE DEF item
    <3>2. out.packets[1] = item(1)
      BY <3>1
    <3>3. out.packets \in [1..1 -> {item(1)}]
      BY <3>1
    <3> QED
      BY <3>2, <3>3, Listed
  <2>7. item(1) = [cc |-> w.cc, start |-> (first \/ w.index = 0), cells |-> cells]
    <3>1. PICK b \in BOOLEAN : b = (first \/ w.index = 0)
      OBVIOUS
    <3>2. (1 = 1 /\ (first \/ w.index = 0)) = b
      BY <3>1
    <3> QED
      BY <2>3, <2>5, <3>1, <3>2, Zenon
  <2>8. out.writer = [open |-> TRUE, pending |-> <<>>, index |-> 1,
                      cc |-> (w.cc + 1) % CcModulus]
    <3>1. 1 > 0
      OBVIOUS
    <3> QED
      BY <1>3, <2>1, <2>4, <3>1, Zenon
  <2> QED
    BY <2>6, <2>7, <2>8
<1>7. CASE size = 2 /\ PacketCells = 1 /\ first
  <2>1. count = 2 /\ size % PacketCells = 0
    <3>1. full = 2 /\ size % PacketCells = 0
      BY <1>1, <1>7, Divided
    <3> QED
      BY <3>1
  <2>2. upTo(1) = 1 /\ upTo(2) = 2
    <3>1. 1 * PacketCells = 1 /\ 2 * PacketCells = 2 /\ 1 < 2 /\ ~(2 < 2)
      BY <1>7
    <3> QED
      BY <1>7, <3>1
  <2>3. cells = <<Header(p), p>>
    BY <1>7 DEF Filled
  <2>4. /\ SubSeq(cells, (1 - 1) * PacketCells + 1, upTo(1)) = <<Header(p)>>
        /\ SubSeq(cells, (2 - 1) * PacketCells + 1, upTo(2)) = <<p>>
    <3>1. (1 - 1) * PacketCells + 1 = 1 /\ (2 - 1) * PacketCells + 1 = 2
      BY <1>7
    <3>2. SubSeq(cells, 1, 1) = <<cells[1]>> /\ SubSeq(cells, 2, 2) = <<cells[2]>>
      <4>1. 1 \in 1..Len(cells) /\ 2 \in 1..Len(cells)
        <5>1. Len(cells) = 2
          BY <1>7
        <5> QED
          BY <5>1
      <4> QED
        BY <1>1, <4>1, OneItem
    <3>3. cells[1] = Header(p) /\ cells[2] = p
      BY <2>3
    <3> HIDE DEF upTo
    <3> QED
      BY <2>2, <3>1, <3>2, <3>3, Zenon
  <2>5. SubSeq(cells, upTo(2) + 1, size) = <<>>
    <3>1. 2 + 1 \in Int /\ size \in Int /\ size < 2 + 1
      <4>1. size = 2
        BY <1>7
      <4> HIDE DEF size
      <4> QED
        BY <4>1
    <3> HIDE DEF upTo
    <3> QED
      BY <2>2, <3>1, SubSeqEmpty
  <2>6. (w.cc + 1 - 1) % CcModulus = w.cc /\ w.cc + 2 - 1 = w.cc + 1
    <3>1. w.cc + 1 - 1 = w.cc /\ w.cc + 2 - 1 = w.cc + 1
      BY <1>1
    <3> QED
      BY <1>4, <3>1
  <2> HIDE DEF count, upTo
  <2>7. Len(out.packets) = 2 /\ out.packets[1] = item(1) /\ out.packets[2] = item(2)
    <3>1. out.packets = [i \in 1..2 |-> item(i)]
      BY <1>3, <2>1, Zenon
    <3> HIDE DEF item
    <3>2. out.packets[1] = item(1) /\ out.packets[2] = item(2)
      BY <3>1
    <3>3. out.packets \in [1..2 -> {item(1), item(2)}]
      BY <3>1
    <3> QED
      BY <3>2, <3>3, Listed
  <2>8. item(1) = [cc |-> w.cc, start |-> TRUE, cells |-> <<Header(p)>>]
    <3>1. (1 = 1 /\ (first \/ w.index = 0)) = TRUE
      BY <1>7
    <3> QED
      BY <2>4, <2>6, <3>1, Zenon
  <2>9. item(2) = [cc |-> (w.cc + 1) % CcModulus, start |-> FALSE, cells |-> <<p>>]
    <3>1. (2 = 1 /\ (first \/ w.index = 0)) = FALSE
      OBVIOUS
    <3> QED
      BY <2>4, <2>6, <3>1, Zenon
  <2>10. out.writer = [open |-> TRUE, pending |-> <<>>, index |-> 1,
                       cc |-> (w.cc + 2) % CcModulus]
    <3>1. 2 > 0
      OBVIOUS
    <3> QED
      BY <1>3, <2>1, <2>5, <3>1, Zenon
  <2> QED
    BY <1>7, <2>7, <2>8, <2>9, <2>10
<1> QED
  BY <1>1, <1>4, <1>5, <1>6, <1>7


-----------------------------------------------------------------------------
(* The verifier.                                                           *)

\* Of none, one or two packets.
LEMMA FewVerified ==
  ASSUME NEW v, NEW packets, NEW n \in {0, 1, 2}, Len(packets) = n,
         NEW start, start = [pid |-> v, closed |-> None]
  PROVE  AllVerified(v, packets) =
           IF n = 0 THEN start
           ELSE IF n = 1 THEN Verified(start, packets[1])
           ELSE Verified(Verified(start, packets[1]), packets[2])
<1> DEFINE first  == Verified(start, packets[1])
           second == Verified(Verified(start, packets[1]), packets[2])
           G(f) == f = [i \in 0..Len(packets) |->
                          IF i = 0 THEN [pid |-> v, closed |-> None]
                          ELSE Verified(f[i - 1], packets[i])]
           after == CHOOSE f : G(f)
<1>1. \E f : G(f)
  <2> DEFINE g == [i \in 0..Len(packets) |-> IF i = 0 THEN start ELSE IF i = 1 THEN first ELSE second]
  <2>1. g = [i \in 0..Len(packets) |-> IF i = 0 THEN start ELSE Verified(g[i - 1], packets[i])]
    <3>1. ASSUME NEW i \in 0..Len(packets)
          PROVE  g[i] = IF i = 0 THEN start ELSE Verified(g[i - 1], packets[i])
      <4>1. g[i] = IF i = 0 THEN start ELSE IF i = 1 THEN first ELSE second
        OBVIOUS
      <4>2. CASE i = 0
        BY <4>1, <4>2
      <4>3. CASE i = 1
        <5>1. g[0] = start
          OBVIOUS
        <5>2. i - 1 = 0 /\ i # 0
          BY <4>3
        <5> HIDE DEF g
        <5> QED
          BY <4>1, <4>3, <5>1, <5>2
      <4>4. CASE i = 2
        <5>1. g[1] = first
          BY <4>4
        <5>2. i - 1 = 1 /\ i # 0 /\ i # 1
          BY <4>4
        <5> HIDE DEF g
        <5> QED
          BY <4>1, <4>4, <5>1, <5>2
      <4> QED
        BY <4>2, <4>3, <4>4
    <3>2. g = [i \in 0..Len(packets) |-> g[i]]
      OBVIOUS
    <3> HIDE DEF g
    <3> QED
      BY <3>1, <3>2
  <2> HIDE DEF g
  <2> QED
    BY <2>1
<1>2. G(after)
  <2> HIDE DEF G
  <2> QED
    BY <1>1, Zenon
<1>3. AllVerified(v, packets) = after[Len(packets)]
  BY Zenon DEF AllVerified
<1> HIDE DEF after
<1>4. /\ after[0] = start
      /\ n > 0 => after[1] = Verified(after[0], packets[1])
      /\ n > 1 => after[2] = Verified(after[1], packets[2])
  <2>1. 1 - 1 = 0 /\ 2 - 1 = 1
    OBVIOUS
  <2>2. after[0] = start
    BY <1>2
  <2>3. ASSUME n > 0 PROVE after[1] = Verified(after[0], packets[1])
    <3>1. 1 \in 0..Len(packets)
      BY <2>3
    <3> QED
      BY <1>2, <2>1, <3>1
  <2>4. ASSUME n > 1 PROVE after[2] = Verified(after[1], packets[2])
    <3>1. 2 \in 0..Len(packets)
      BY <2>4
    <3> QED
      BY <1>2, <2>1, <3>1
  <2> QED
    BY <2>2, <2>3, <2>4
<1> QED
  BY <1>3, <1>4

\* A packet that is no repetition, and a verifier that has seen no break since the
\* PES packet began.
Fresh(v, p, broken) ==
  /\ v \in Readers /\ ~v.duplicate /\ ~v.damaged /\ p.cc # v.cc
  /\ broken \in BOOLEAN /\ broken <=> v.cc # None /\ p.cc # (v.cc + 1) % CcModulus

\* The first packet of a PES packet ends the one before it, whole or broken.
BegunBy(v, p, last, broken) ==
  [pid    |-> [cc |-> p.cc, duplicate |-> FALSE, pes |-> p.cells, damaged |-> FALSE],
   closed |-> IF v.pes = None THEN last ELSE [cells |-> v.pes, damaged |-> broken]]

\* A further one is appended.
ExtendedBy(v, p, last) ==
  [pid    |-> [cc |-> p.cc, duplicate |-> FALSE, pes |-> v.pes \o p.cells, damaged |-> FALSE],
   closed |-> last]

\* What the verifier does with such a packet.
LEMMA OneVerified ==
  ASSUME NEW v, NEW last, NEW p, NEW broken, Fresh(v, p, broken)
  PROVE  /\ p.start =>
              Verified([pid |-> v, closed |-> last], p) = BegunBy(v, p, last, broken)
         /\ ~p.start /\ ~broken /\ v.pes # None =>
              Verified([pid |-> v, closed |-> last], p) = ExtendedBy(v, p, last)
<1>0. /\ v \in Readers /\ ~v.duplicate /\ ~v.damaged /\ p.cc # v.cc
      /\ broken \in BOOLEAN /\ broken <=> v.cc # None /\ p.cc # (v.cc + 1) % CcModulus
  BY DEF Fresh
<1>a. PICK r : r = Verified([pid |-> v, closed |-> last], p)
  OBVIOUS
<1> DEFINE before == [pid |-> v, closed |-> last]
           pid    == [v EXCEPT !.cc = p.cc, !.duplicate = FALSE, !.damaged = broken]
<1>1. before.pid = v /\ before.closed = last
  OBVIOUS
<1>2. v = [cc |-> v.cc, duplicate |-> v.duplicate, pes |-> v.pes, damaged |-> v.damaged]
      /\ v.damaged = FALSE /\ v.duplicate = FALSE
  BY <1>0 DEF Readers
<1>3. ~IsFirstRepeat(v, p)
  BY <1>0 DEF IsFirstRepeat
<1>4. (v.damaged \/ Breaks(v, p)) = broken
  <2>1. Breaks(v, p) <=> broken
    BY <1>0 DEF Breaks
  <2>2. PICK b \in BOOLEAN : b = (v.damaged \/ Breaks(v, p))
    OBVIOUS
  <2>3. b <=> broken
    BY <1>2, <2>1, <2>2, Zenon
  <2>4. b = broken
    BY <1>0, <2>3
  <2> QED
    BY <2>2, <2>4, Zenon
<1> HIDE DEF before
<1>5. r = IF ~p.start THEN [before EXCEPT !.pid = Continued(pid, p)]
          ELSE [pid    |-> Opened(pid, p),
                closed |-> IF pid.pes = None THEN before.closed
                           ELSE [cells |-> pid.pes, damaged |-> broken]]
  <2>1. r = Verified(before, p)
    BY <1>a DEF before
  <2> QED
    BY <1>1, <1>3, <1>4, <2>1, Zenon DEF Verified
<1>6. pid = [cc |-> p.cc, duplicate |-> FALSE, pes |-> v.pes, damaged |-> broken]
      /\ pid.pes = v.pes
  <2>1. PICK a, c : a = v.cc /\ c = v.pes
    OBVIOUS
  <2>2. PICK n : n = pid
    OBVIOUS
  <2>3. v = [cc |-> a, duplicate |-> FALSE, pes |-> c, damaged |-> FALSE]
    BY <1>2, <2>1, Zenon
  <2>4. n = [v EXCEPT !.cc = p.cc, !.duplicate = FALSE, !.damaged = broken]
    BY <2>2
  <2>5. n = [cc |-> p.cc, duplicate |-> FALSE, pes |-> c, damaged |-> broken]
    BY <2>3, <2>4
  <2> HIDE DEF pid
  <2>6. pid = [cc |-> p.cc, duplicate |-> FALSE, pes |-> v.pes, damaged |-> broken]
    BY <2>1, <2>2, <2>5, Zenon
  <2> QED
    BY <2>6
<1> HIDE DEF pid
<1>7. ASSUME p.start
      PROVE  r = [pid    |-> [cc |-> p.cc, duplicate |-> FALSE, pes |-> p.cells, damaged |-> FALSE],
                  closed |-> IF v.pes = None THEN last
                             ELSE [cells |-> v.pes, damaged |-> broken]]
  <2>1. Opened(pid, p) = [cc |-> p.cc, duplicate |-> FALSE, pes |-> p.cells, damaged |-> FALSE]
    <3>1. PICK a, c, d, e : a = p.cc /\ c = v.pes /\ d = broken /\ e = p.cells
      OBVIOUS
    <3>2. PICK n : n = pid
      OBVIOUS
    <3>3. PICK m : m = [n EXCEPT !.pes = e, !.damaged = FALSE]
      OBVIOUS
    <3>4. n = [cc |-> a, duplicate |-> FALSE, pes |-> c, damaged |-> d]
      BY <1>6, <3>1, <3>2, Zenon
    <3>5. m = [cc |-> a, duplicate |-> FALSE, pes |-> e, damaged |-> FALSE]
      BY <3>3, <3>4
    <3>6. Opened(pid, p) = m
      BY <3>1, <3>2, <3>3, Zenon DEF Opened
    <3> QED
      BY <3>1, <3>5, <3>6, Zenon
  <2> QED
    BY <1>1, <1>5, <1>6, <1>7, <2>1, Zenon
<1>8. ASSUME ~p.start, ~broken, v.pes # None
      PROVE  r = [pid    |-> [cc |-> p.cc, duplicate |-> FALSE, pes |-> v.pes \o p.cells,
                              damaged |-> FALSE],
                  closed |-> last]
  <2>1. Continued(pid, p) =
          [cc |-> p.cc, duplicate |-> FALSE, pes |-> v.pes \o p.cells, damaged |-> FALSE]
    <3>1. Continued(pid, p) = [pid EXCEPT !.pes = pid.pes \o p.cells]
      BY <1>6, <1>8, Zenon DEF Continued
    <3>2. broken = FALSE
      BY <1>0, <1>8
    <3> QED
      BY <1>6, <3>1, <3>2
  <2>2. [before EXCEPT !.pid = Continued(pid, p)] = [pid |-> Continued(pid, p), closed |-> last]
    BY DEF before
  <2> QED
    BY <1>5, <1>8, <2>1, <2>2, Zenon
<1> QED
  BY <1>a, <1>7, <1>8, Zenon DEF BegunBy, ExtendedBy


\* What PES packets hold, the packets they are written in, and what the verifier has.
SomeCells == Seq(Cells) \ {<<>>}

TsPackets == [cc : 0..(CcModulus - 1), start : BOOLEAN, cells : SomeCells]

Reads == [pid : Readers, closed : [cells : SomeCells, damaged : BOOLEAN] \cup {None}]

\* A packet leaves the verifier well typed.
LEMMA VerifiedTyped ==
  ASSUME TsOutputAssumption, NEW b \in Reads, NEW p \in TsPackets, NEW r, r = Verified(b, p)
  PROVE  r \in Reads
<1>1. PICK v, c : v = b.pid /\ c = b.closed
  OBVIOUS
<1>2. /\ v \in Readers /\ c \in [cells : SomeCells, damaged : BOOLEAN] \cup {None}
      /\ b = [pid |-> v, closed |-> c]
  BY <1>1 DEF Reads
<1>3. /\ p.cc \in 0..(CcModulus - 1) /\ p.start \in BOOLEAN /\ p.cells \in SomeCells
  BY DEF TsPackets
<1>4. CASE IsFirstRepeat(b.pid, p)
  <2>1. PICK w : w = [v EXCEPT !.duplicate = TRUE]
    OBVIOUS
  <2>2. w \in Readers
    BY <1>2, <2>1 DEF Readers
  <2>3. r = [b EXCEPT !.pid = w]
    <3>1. r = [b EXCEPT !.pid.duplicate = TRUE]
      BY <1>4, Zenon DEF Verified
    <3> QED
      BY <1>1, <2>1, <3>1
  <2> QED
    BY <1>2, <2>2, <2>3 DEF Reads
<1>5. CASE ~IsFirstRepeat(b.pid, p)
  <2>1. PICK damaged \in BOOLEAN : damaged = (v.damaged \/ Breaks(v, p))
    OBVIOUS
  <2>2. PICK w : w = [v EXCEPT !.cc = p.cc, !.duplicate = FALSE, !.damaged = damaged]
    OBVIOUS
  <2>3. w \in Readers /\ w.pes = v.pes
    <3>1. v \in [cc : 0..(CcModulus - 1) \cup {None}, duplicate : BOOLEAN,
                 pes : SomeCells \cup {None}, damaged : BOOLEAN]
      BY <1>2 DEF Readers, SomeCells
    <3>2. w \in [cc : 0..(CcModulus - 1) \cup {None}, duplicate : BOOLEAN,
                 pes : SomeCells \cup {None}, damaged : BOOLEAN] /\ w.pes = v.pes
      BY <1>3, <2>2, <3>1
    <3> QED
      BY <3>2 DEF Readers, SomeCells
  <2>4. r = IF ~p.start THEN [b EXCEPT !.pid = Continued(w, p)]
            ELSE [pid    |-> Opened(w, p),
                  closed |-> IF w.pes = None THEN c ELSE [cells |-> w.pes, damaged |-> damaged]]
    BY <1>1, <1>5, <2>1, <2>2, Zenon DEF Verified
  <2>5. CASE ~p.start
    <3>1. PICK u : u = Continued(w, p)
      OBVIOUS
    <3>2. u \in Readers
      <4>1. CASE w.pes = None
        BY <2>3, <3>1, <4>1 DEF Continued
      <4>2. CASE w.pes # None
        <5>1. PICK q : q = w.pes \o p.cells
          OBVIOUS
        <5>2. u = [w EXCEPT !.pes = q]
          BY <3>1, <4>2, <5>1, Zenon DEF Continued
        <5>3. w.pes \in Seq(Cells) /\ w.pes # <<>>
          BY <2>3, <4>2 DEF Readers
        <5>4. q \in Seq(Cells) /\ q # <<>>
          BY <1>3, <5>1, <5>3, ConcatProperties, ConcatEqualIffEmpty DEF SomeCells
        <5> QED
          BY <2>3, <5>2, <5>4 DEF Readers
      <4> QED
        BY <4>1, <4>2
    <3>3. r = [b EXCEPT !.pid = u]
      BY <2>4, <2>5, <3>1, Zenon
    <3> QED
      BY <1>2, <3>2, <3>3 DEF Reads
  <2>6. CASE p.start
    <3>1. PICK u, d : /\ u = Opened(w, p)
                      /\ d = IF w.pes = None THEN c
                             ELSE [cells |-> w.pes, damaged |-> damaged]
      OBVIOUS
    <3>2. u \in Readers
      <4>1. u = [w EXCEPT !.pes = p.cells, !.damaged = FALSE]
        BY <3>1, Zenon DEF Opened
      <4> QED
        BY <1>3, <2>3, <4>1 DEF Readers, SomeCells
    <3>3. d \in [cells : SomeCells, damaged : BOOLEAN] \cup {None}
      <4>1. w.pes # None => w.pes \in SomeCells
        BY <2>3 DEF Readers, SomeCells
      <4> QED
        BY <1>2, <3>1, <4>1
    <3>4. r = [pid |-> u, closed |-> d]
      BY <2>4, <2>6, <3>1, Zenon
    <3> QED
      BY <3>2, <3>3, <3>4 DEF Reads
  <2> QED
    BY <2>5, <2>6
<1> QED
  BY <1>4, <1>5

\* The outcome of a part that is passed on has its type.
LEMMA ReadTyped ==
  ASSUME TsOutputAssumption, NEW w \in Writers, NEW v \in Readers, NEW p \in Parts,
         NEW first \in BOOLEAN, NEW last \in BOOLEAN,
         Len(w.pending) < PacketCells, first => ~last, ~first => w.open,
         NEW out, out = Written(w, p, first, last),
         NEW read, read = AllVerified(v, out.packets)
  PROVE  /\ out.writer \in Writers /\ Len(out.writer.pending) < PacketCells
         /\ out.writer.open
         /\ read.pid \in Readers
         /\ read.closed # None => /\ read.closed.cells \in SomeCells
                                  /\ read.closed.damaged \in BOOLEAN
<1>1. PICK cells : cells = Filled(w, p, first)
  OBVIOUS
<1>2. cells \in SomeCells
  BY <1>1, FilledIs DEF SomeCells
<1>3. /\ CcModulus \in Nat \ {0, 1} /\ PacketCells \in Nat \ {0}
      /\ w.cc \in 0..(CcModulus - 1) /\ w.index \in {0, 1}
  BY DEF Writers, TsOutputAssumption
<1>4. /\ (w.cc + 1) % CcModulus \in 0..(CcModulus - 1)
      /\ (w.cc + 2) % CcModulus \in 0..(CcModulus - 1)
  BY <1>3
<1>5. <<>> \in Seq(Cells) /\ Len(<<>>) = 0
  OBVIOUS
<1>6. PICK start : start = [pid |-> v, closed |-> None]
  OBVIOUS
<1>7. start \in Reads
  BY <1>6 DEF Reads
<1>8. PICK opens \in BOOLEAN : opens = (first \/ w.index = 0)
  OBVIOUS
<1>9. CASE /\ out.packets = <<>> /\ Len(cells) < PacketCells
           /\ out.writer = [open |-> TRUE, pending |-> cells,
                            index |-> IF first THEN 0 ELSE w.index, cc |-> w.cc]
  <2>1. PICK i \in {0, 1} : i = IF first THEN 0 ELSE w.index
    BY <1>3
  <2>2. out.writer = [open |-> TRUE, pending |-> cells, index |-> i, cc |-> w.cc]
    BY <1>9, <2>1, Zenon
  <2>3. out.writer \in Writers /\ out.writer.pending = cells /\ out.writer.open
    BY <1>2, <1>3, <2>2 DEF Writers, SomeCells
  <2>4. Len(out.packets) = 0
    BY <1>9
  <2>5. read = start
    BY <1>6, <2>4, FewVerified
  <2> QED
    BY <1>6, <1>9, <2>3, <2>5
<1>10. CASE /\ Len(out.packets) = 1
            /\ out.packets[1] = [cc |-> w.cc, start |-> opens, cells |-> cells]
            /\ out.writer = [open |-> TRUE, pending |-> <<>>, index |-> 1,
                             cc |-> (w.cc + 1) % CcModulus]
  <2>1. out.writer \in Writers /\ out.writer.pending = <<>> /\ out.writer.open
    BY <1>4, <1>5, <1>10 DEF Writers
  <2>2. out.packets[1] \in TsPackets
    BY <1>2, <1>3, <1>10 DEF TsPackets
  <2>3. read = Verified(start, out.packets[1])
    BY <1>6, <1>10, FewVerified
  <2>4. read \in Reads
    BY <1>7, <2>2, <2>3, VerifiedTyped
  <2> QED
    BY <1>3, <1>5, <2>1, <2>4 DEF Reads
<1>11. CASE /\ Len(out.packets) = 2 /\ first
            /\ out.packets[1] = [cc |-> w.cc, start |-> TRUE, cells |-> <<Header(p)>>]
            /\ out.packets[2] = [cc |-> (w.cc + 1) % CcModulus, start |-> FALSE, cells |-> <<p>>]
            /\ out.writer = [open |-> TRUE, pending |-> <<>>, index |-> 1,
                             cc |-> (w.cc + 2) % CcModulus]
  <2>1. out.writer \in Writers /\ out.writer.pending = <<>> /\ out.writer.open
    <3>1. out.writer = [open |-> TRUE, pending |-> <<>>, index |-> 1,
                        cc |-> (w.cc + 2) % CcModulus]
      BY <1>11, Zenon
    <3> QED
      BY <1>4, <1>5, <3>1 DEF Writers
  <2>2. <<Header(p)>> \in SomeCells /\ <<p>> \in SomeCells
    <3>1. Header(p) \in Cells /\ p \in Cells
      BY PartFacts
    <3> QED
      BY <3>1 DEF SomeCells
  <2>3. out.packets[1] \in TsPackets /\ out.packets[2] \in TsPackets
    <3>1. out.packets[1] = [cc |-> w.cc, start |-> TRUE, cells |-> <<Header(p)>>]
      BY <1>11, Zenon
    <3>2. out.packets[2] = [cc |-> (w.cc + 1) % CcModulus, start |-> FALSE, cells |-> <<p>>]
      BY <1>11, Zenon
    <3>3. out.packets[1] \in TsPackets
      BY <1>3, <2>2, <3>1 DEF TsPackets
    <3>4. out.packets[2] \in TsPackets
      BY <1>4, <2>2, <3>2 DEF TsPackets
    <3> QED
      BY <3>3, <3>4
  <2>4. PICK middle : middle = Verified(start, out.packets[1])
    OBVIOUS
  <2>5. read = Verified(middle, out.packets[2])
    <3>1. Len(out.packets) = 2
      BY <1>11, Zenon
    <3> QED
      BY <1>6, <2>4, <3>1, FewVerified
  <2>6. middle \in Reads
    BY <1>7, <2>3, <2>4, VerifiedTyped
  <2>7. read \in Reads
    BY <2>3, <2>5, <2>6, VerifiedTyped
  <2> QED
    BY <1>3, <1>5, <2>1, <2>7 DEF Reads
<1> QED
  BY <1>1, <1>8, <1>9, <1>10, <1>11, WrittenForms


\* The continuity counter's next two values.
LEMMA Next2 ==
  ASSUME NEW m \in Nat \ {0, 1}, NEW c \in 0..(m - 1)
  PROVE  /\ (c + 1) % m \in 0..(m - 1) /\ (c + 1) % m # c
         /\ (c + 2) % m = (((c + 1) % m) + 1) % m
<1>1. CASE c < m - 2
  <2>1. c + 1 < m /\ c + 2 < m /\ c + 1 \in Nat /\ c + 2 \in Nat
    BY <1>1
  <2>2. (c + 1) % m = c + 1 /\ (c + 2) % m = c + 2
    BY <2>1, Divided
  <2> QED
    BY <2>1, <2>2
<1>2. CASE c = m - 2
  <2>1. c + 1 < m /\ c + 2 = m /\ c + 1 \in Nat /\ c + 2 \in Nat
    BY <1>2
  <2>2. (c + 1) % m = c + 1 /\ (c + 2) % m = 0
    BY <2>1, Divided
  <2> QED
    BY <2>1, <2>2
<1>3. CASE c = m - 1
  <2>1. c + 1 = m /\ (c + 1) % m = 0
    BY <1>3, Divided
  <2>2. (0 + 1) % m = 1
    BY Divided
  <2>3. (m + 1) % m = 1
    OBVIOUS
  <2>4. c + 2 = m + 1
    BY <1>3
  <2> QED
    BY <1>3, <2>1, <2>2, <2>3, <2>4
<1> QED
  BY <1>1, <1>2, <1>3

\* A part that the writer may write, in packets that are no repetition for the
\* verifier; broken says that it misses something before them.
Readable(w, v, p, first, last, broken, out) ==
  /\ w \in Writers /\ v \in Readers /\ p \in Parts /\ first \in BOOLEAN /\ last \in BOOLEAN
  /\ Len(w.pending) < PacketCells /\ (first => ~last) /\ (~first => w.open)
  /\ ~v.duplicate /\ ~v.damaged /\ (out.packets # <<>> => w.cc # v.cc)
  /\ broken \in BOOLEAN /\ (broken <=> v.cc # None /\ w.cc # (v.cc + 1) % CcModulus)
  /\ (~first /\ w.index = 1 => v.pes # None /\ ~broken)

\* What the verifier reads of a part that is passed on: nothing yet, the beginning
\* of a PES packet, or more of the one it is in.
ReadAs(w, v, p, first, last, broken, out, read, cells) ==
  \/ /\ out.packets = <<>> /\ ~last
     /\ read.pid = v /\ read.closed = None
     /\ out.writer.open /\ out.writer.pending = cells /\ out.writer.cc = w.cc
     /\ out.writer.index = IF first THEN 0 ELSE w.index
  \/ /\ out.packets # <<>> /\ (first \/ w.index = 0)
     /\ out.writer.open /\ out.writer.pending = <<>> /\ out.writer.index = 1
     /\ \E c \in 0..(CcModulus - 1) :
          /\ read.pid = [cc |-> c, duplicate |-> FALSE, pes |-> cells, damaged |-> FALSE]
          /\ out.writer.cc = (c + 1) % CcModulus
     /\ read.closed = IF v.pes = None THEN None
                      ELSE [cells |-> v.pes, damaged |-> broken]
  \/ /\ out.packets # <<>> /\ ~first /\ w.index = 1
     /\ out.writer.open /\ out.writer.pending = <<>> /\ out.writer.index = 1
     /\ out.writer.cc = (w.cc + 1) % CcModulus
     /\ read.pid = [cc |-> w.cc, duplicate |-> FALSE, pes |-> v.pes \o cells,
                    damaged |-> FALSE]
     /\ read.closed = None

\* What has a length is not empty.
LEMMA NotEmpty ==
  ASSUME NEW s, Len(s) = 2
  PROVE  s # <<>>
<1>1. Len(<<>>) = 0
  OBVIOUS
<1> QED
  BY <1>1

\* Written and read, a part has one of these outcomes.
LEMMA ReadForms ==
  ASSUME TsOutputAssumption, NEW w, NEW v, NEW p, NEW first, NEW last, NEW broken,
         NEW out, out = Written(w, p, first, last),
         NEW read, read = AllVerified(v, out.packets),
         NEW cells, cells = Filled(w, p, first),
         Readable(w, v, p, first, last, broken, out)
  PROVE  ReadAs(w, v, p, first, last, broken, out, read, cells)
<1>0. /\ w \in Writers /\ v \in Readers /\ p \in Parts /\ first \in BOOLEAN /\ last \in BOOLEAN
      /\ Len(w.pending) < PacketCells /\ (first => ~last) /\ (~first => w.open)
      /\ ~v.duplicate /\ ~v.damaged /\ (out.packets # <<>> => w.cc # v.cc)
      /\ broken \in BOOLEAN /\ (broken <=> v.cc # None /\ w.cc # (v.cc + 1) % CcModulus)
      /\ (~first /\ w.index = 1 => v.pes # None /\ ~broken)
  BY Zenon DEF Readable
<1> USE <1>0
<1>1. /\ w.cc \in 0..(CcModulus - 1) /\ w.index \in {0, 1} /\ CcModulus \in Nat \ {0, 1}
  BY DEF Writers, TsOutputAssumption
<1>2. PICK start : start = [pid |-> v, closed |-> None]
  OBVIOUS
<1>3. PICK opens \in BOOLEAN : opens = (first \/ w.index = 0)
  OBVIOUS
<1>4. Len(<<>>) = 0
  OBVIOUS
<1>5. CASE /\ out.packets = <<>> /\ ~last
           /\ out.writer = [open |-> TRUE, pending |-> cells,
                            index |-> IF first THEN 0 ELSE w.index, cc |-> w.cc]
  <2>1. PICK i : i = IF first THEN 0 ELSE w.index
    OBVIOUS
  <2>2. out.writer = [open |-> TRUE, pending |-> cells, index |-> i, cc |-> w.cc]
    BY <1>5, <2>1, Zenon
  <2>3. read = start
    BY <1>2, <1>4, <1>5, FewVerified
  <2> QED
    BY <1>2, <1>5, <2>1, <2>2, <2>3 DEF ReadAs
<1>6. ASSUME Len(out.packets) = 1,
             out.packets[1] = [cc |-> w.cc, start |-> opens, cells |-> cells],
             out.writer = [open |-> TRUE, pending |-> <<>>, index |-> 1,
                           cc |-> (w.cc + 1) % CcModulus]
      PROVE  \/ /\ opens
                /\ \E c \in 0..(CcModulus - 1) :
                     /\ read.pid = [cc |-> c, duplicate |-> FALSE, pes |-> cells, damaged |-> FALSE]
                     /\ out.writer.cc = (c + 1) % CcModulus
                /\ read.closed = IF v.pes = None THEN None
                                 ELSE [cells |-> v.pes, damaged |-> broken]
             \/ /\ ~opens /\ out.writer.cc = (w.cc + 1) % CcModulus
                /\ read.pid = [cc |-> w.cc, duplicate |-> FALSE, pes |-> v.pes \o cells,
                               damaged |-> FALSE]
                /\ read.closed = None
  <2>1. PICK q : q = out.packets[1]
    OBVIOUS
  <2>2. q.cc = w.cc /\ q.start = opens /\ q.cells = cells
    BY <1>6, <2>1
  <2>3. read = Verified(start, q)
    BY <1>2, <1>6, <2>1, FewVerified
  <2>4. q.cc # v.cc
    BY <1>4, <1>6, <2>2
  <2>5. out.writer.cc = (w.cc + 1) % CcModulus
    BY <1>6
  <2>6. CASE opens
    <3>1. Fresh(v, q, broken)
      BY <2>2, <2>4 DEF Fresh
    <3>2. PICK f : f = [cc |-> w.cc, duplicate |-> FALSE, pes |-> cells, damaged |-> FALSE]
      OBVIOUS
    <3>3. PICK g : g = IF v.pes = None THEN None ELSE [cells |-> v.pes, damaged |-> broken]
      OBVIOUS
    <3>4. read = [pid |-> f, closed |-> g]
      <4>1. read = Verified([pid |-> v, closed |-> None], q) /\ q.start
        BY <1>2, <2>2, <2>3, <2>6
      <4>2. read = BegunBy(v, q, None, broken)
        BY <3>1, <4>1, OneVerified, Zenon
      <4> QED
        BY <2>2, <3>2, <3>3, <4>2, Zenon DEF BegunBy
    <3>5. read.pid = f /\ read.closed = g
      BY <3>4
    <3> QED
      BY <1>1, <2>5, <2>6, <3>2, <3>3, <3>5, Zenon
  <2>7. CASE ~opens
    <3>1. ~broken /\ v.pes # None
      BY <1>1, <1>3, <2>7
    <3>2. Fresh(v, q, broken)
      BY <2>2, <2>4 DEF Fresh
    <3>3. PICK f : f = [cc |-> w.cc, duplicate |-> FALSE, pes |-> v.pes \o cells, damaged |-> FALSE]
      OBVIOUS
    <3>4. read = [pid |-> f, closed |-> None]
      <4>1. read = Verified([pid |-> v, closed |-> None], q) /\ ~q.start
        BY <1>2, <2>2, <2>3, <2>7
      <4>2. read = ExtendedBy(v, q, None)
        BY <3>1, <3>2, <4>1, OneVerified, Zenon
      <4> QED
        BY <2>2, <3>3, <4>2, Zenon DEF ExtendedBy
    <3>5. read.pid = f /\ read.closed = None
      BY <3>4
    <3> QED
      BY <2>5, <2>7, <3>3, <3>5, Zenon
  <2> QED
    BY <2>6, <2>7
<1>7. ASSUME Len(out.packets) = 2, first,
             out.packets[1] = [cc |-> w.cc, start |-> TRUE, cells |-> <<Header(p)>>],
             out.packets[2] = [cc |-> (w.cc + 1) % CcModulus, start |-> FALSE, cells |-> <<p>>],
             out.writer = [open |-> TRUE, pending |-> <<>>, index |-> 1,
                           cc |-> (w.cc + 2) % CcModulus]
      PROVE  /\ \E c \in 0..(CcModulus - 1) :
                  /\ read.pid = [cc |-> c, duplicate |-> FALSE, pes |-> cells, damaged |-> FALSE]
                  /\ out.writer.cc = (c + 1) % CcModulus
             /\ read.closed = IF v.pes = None THEN None
                              ELSE [cells |-> v.pes, damaged |-> broken]
  <2>1. PICK q, t, c : q = out.packets[1] /\ t = out.packets[2] /\ c = (w.cc + 1) % CcModulus
    OBVIOUS
  <2>2. q.cc = w.cc /\ q.start = TRUE /\ q.cells = <<Header(p)>>
    BY <1>7, <2>1
  <2>3. t.cc = c /\ t.start = FALSE /\ t.cells = <<p>>
    BY <1>7, <2>1
  <2>4. PICK middle : middle = Verified(start, q)
    OBVIOUS
  <2>5. read = Verified(middle, t)
    <3>1. Len(out.packets) = 2
      BY <1>7, Zenon
    <3> QED
      BY <1>2, <2>1, <2>4, <3>1, FewVerified
  <2>6. q.cc # v.cc
    <3>1. Len(out.packets) = 2
      BY <1>7, Zenon
    <3>2. out.packets # <<>>
      BY <3>1, NotEmpty, Zenon
    <3> QED
      BY <2>2, <3>2
  <2>7. PICK f, g :
           /\ f = [cc |-> w.cc, duplicate |-> FALSE, pes |-> <<Header(p)>>, damaged |-> FALSE]
           /\ g = IF v.pes = None THEN None ELSE [cells |-> v.pes, damaged |-> broken]
    OBVIOUS
  <2>8. middle = [pid |-> f, closed |-> g]
    <3>1. Fresh(v, q, broken)
      BY <2>2, <2>6 DEF Fresh
    <3>2. middle = Verified([pid |-> v, closed |-> None], q) /\ q.start
      BY <1>2, <2>2, <2>4
    <3>3. middle = BegunBy(v, q, None, broken)
      BY <3>1, <3>2, OneVerified, Zenon
    <3> QED
      BY <2>2, <2>7, <3>3, Zenon DEF BegunBy
  <2>9. Header(p) \in Cells /\ p \in Cells
    BY PartFacts
  <2>10. /\ f.cc = w.cc /\ ~f.duplicate /\ ~f.damaged /\ f.pes = <<Header(p)>>
         /\ f.pes # None /\ f \in Readers
    <3>1. <<Header(p)>> \in Seq(Cells) /\ <<Header(p)>> # <<>>
      BY <2>9
    <3>2. <<Header(p)>> # None
      BY <3>1 DEF TsOutputAssumption
    <3> QED
      BY <1>1, <2>7, <3>1, <3>2 DEF Readers
  <2>11. c \in 0..(CcModulus - 1) /\ c # w.cc /\ (w.cc + 2) % CcModulus = (c + 1) % CcModulus
    BY <1>1, <2>1, Next2
  <2>12. t.cc # f.cc /\ ~(f.cc # None /\ t.cc # (f.cc + 1) % CcModulus)
    BY <2>1, <2>3, <2>10, <2>11
  <2>14. <<Header(p)>> \o <<p>> = cells
    <3>1. cells = <<Header(p), p>>
      BY <1>7, Zenon DEF Filled
    <3>2. <<Header(p)>> \in Seq(Cells)
      BY <2>9
    <3>3. Append(<<Header(p)>>, p) = <<Header(p)>> \o <<p>>
      BY <2>9, <3>2, AppendIsConcat, Zenon
    <3>4. Append(<<Header(p)>>, p) = <<Header(p), p>>
      <4>1. PICK s, u : s = Append(<<Header(p)>>, p) /\ u = <<Header(p), p>>
        OBVIOUS
      <4>2. /\ s \in Seq(Cells) /\ Len(s) = 2 /\ s[1] = Header(p) /\ s[2] = p
        BY <2>9, <3>2, <4>1
      <4>3. u \in Seq(Cells) /\ Len(u) = 2 /\ u[1] = Header(p) /\ u[2] = p
        BY <2>9, <4>1
      <4>4. \A i \in 1..Len(s) : s[i] = u[i]
        BY <4>2, <4>3
      <4>5. s = u
        BY <4>2, <4>3, <4>4, SeqEqual
      <4> QED
        BY <4>1, <4>5
    <3> QED
      BY <3>1, <3>3, <3>4, Zenon
  <2>15. PICK h : h = [cc |-> c, duplicate |-> FALSE, pes |-> cells, damaged |-> FALSE]
    OBVIOUS
  <2>16. read.pid = h /\ read.closed = g
    <3>1. PICK no \in BOOLEAN : no = FALSE
      OBVIOUS
    <3>2. read = Verified([pid |-> f, closed |-> g], t) /\ ~t.start
      BY <2>3, <2>5, <2>8
    <3>3. Fresh(f, t, no) /\ ~no /\ f.pes # None
      BY <2>10, <2>12, <3>1 DEF Fresh
    <3>4. read = ExtendedBy(f, t, g)
      BY <3>2, <3>3, OneVerified, Zenon
    <3>5. f.pes \o t.cells = cells
      BY <2>3, <2>10, <2>14, Zenon
    <3>6. read = [pid |-> h, closed |-> g]
      BY <2>3, <2>15, <3>4, <3>5, Zenon DEF ExtendedBy
    <3> QED
      BY <3>6
  <2>17. out.writer.cc = (c + 1) % CcModulus
    <3>1. out.writer.cc = (w.cc + 2) % CcModulus
      <4>1. PICK e, n : e = <<>> /\ n = (w.cc + 2) % CcModulus
        OBVIOUS
      <4>2. out.writer = [open |-> TRUE, pending |-> e, index |-> 1, cc |-> n]
        BY <1>7, <4>1, Zenon
      <4>3. out.writer.cc = n
        BY <4>2
      <4> QED
        BY <4>1, <4>3
    <3> QED
      BY <2>11, <3>1
  <2> QED
    BY <2>7, <2>11, <2>15, <2>16, <2>17, Zenon
<1>8. ASSUME NEW n, out.writer = [open |-> TRUE, pending |-> <<>>, index |-> 1, cc |-> n]
      PROVE  out.writer.open /\ out.writer.pending = <<>> /\ out.writer.index = 1
  BY <1>8
<1>9. CASE /\ Len(out.packets) = 1
           /\ out.packets[1] = [cc |-> w.cc, start |-> opens, cells |-> cells]
           /\ out.writer = [open |-> TRUE, pending |-> <<>>, index |-> 1,
                            cc |-> (w.cc + 1) % CcModulus]
  <2>1. out.packets # <<>>
    BY <1>4, <1>9
  <2>2. ~opens => ~first /\ w.index = 1
    BY <1>1, <1>3
  <2>3. out.writer.open /\ out.writer.pending = <<>> /\ out.writer.index = 1
    BY <1>8, <1>9, Zenon
  <2> QED
    BY <1>3, <1>6, <1>9, <2>1, <2>2, <2>3, Zenon DEF ReadAs
<1>10. CASE /\ Len(out.packets) = 2 /\ first
            /\ out.packets[1] = [cc |-> w.cc, start |-> TRUE, cells |-> <<Header(p)>>]
            /\ out.packets[2] = [cc |-> (w.cc + 1) % CcModulus, start |-> FALSE, cells |-> <<p>>]
            /\ out.writer = [open |-> TRUE, pending |-> <<>>, index |-> 1,
                             cc |-> (w.cc + 2) % CcModulus]
  <2>1. out.packets # <<>>
    <3>1. Len(out.packets) = 2
      BY <1>10, Zenon
    <3> QED
      BY <3>1, NotEmpty, Zenon
  <2>2. out.writer.open /\ out.writer.pending = <<>> /\ out.writer.index = 1
    BY <1>8, <1>10, Zenon
  <2> QED
    BY <1>7, <1>10, <2>1, <2>2, Zenon DEF ReadAs
<1>11. \/ /\ out.packets = <<>> /\ ~last
           /\ out.writer = [open |-> TRUE, pending |-> cells,
                            index |-> IF first THEN 0 ELSE w.index, cc |-> w.cc]
       \/ /\ Len(out.packets) = 1
           /\ out.packets[1] = [cc |-> w.cc, start |-> (first \/ w.index = 0), cells |-> cells]
           /\ out.writer = [open |-> TRUE, pending |-> <<>>, index |-> 1,
                            cc |-> (w.cc + 1) % CcModulus]
       \/ /\ Len(out.packets) = 2 /\ first
           /\ out.packets[1] = [cc |-> w.cc, start |-> TRUE, cells |-> <<Header(p)>>]
           /\ out.packets[2] = [cc |-> (w.cc + 1) % CcModulus, start |-> FALSE, cells |-> <<p>>]
           /\ out.writer = [open |-> TRUE, pending |-> <<>>, index |-> 1,
                            cc |-> (w.cc + 2) % CcModulus]
  BY WrittenForms
<1> QED
  BY <1>3, <1>5, <1>9, <1>10, <1>11, Zenon DEF ReadAs


-----------------------------------------------------------------------------
(* Frames and what is left of them.                                        *)

\* A frame that began before the next part to be sent.
Past(f, p) == p # None => f < p.frame \/ (f = p.frame /\ ~Delimits(p))

\* A frame that is past remains so, and another one's delimiter shows that it is.
LEMMA PastStays ==
  ASSUME TsOutputAssumption, NEW p \in Parts, NEW f \in Nat, Past(f, p)
  PROVE  Past(f, Following(p)) /\ f <= p.frame /\ (Delimits(p) => f < p.frame)
<1>1. p # None /\ p.frame \in Nat
  BY PartFacts
<1>2. f < p.frame \/ (f = p.frame /\ ~Delimits(p))
  BY <1>1 DEF Past
<1>3. Following(p) # None => \/ Following(p).frame = p.frame /\ ~Delimits(Following(p))
                             \/ Following(p).frame = p.frame + 1
  BY FollowingPart DEF Continues
<1> QED
  BY <1>1, <1>2, <1>3 DEF Past

\* When a part has been sent its frame has begun.
LEMMA PastItself ==
  ASSUME TsOutputAssumption, NEW p \in Parts
  PROVE  Past(p.frame, Following(p))
<1>1. p.frame \in Nat
  BY PartFacts
<1>2. Following(p) # None => \/ Following(p).frame = p.frame /\ ~Delimits(Following(p))
                             \/ Following(p).frame = p.frame + 1
  BY FollowingPart DEF Continues
<1> QED
  BY <1>1, <1>2 DEF Past

\* The parts of a frame that were sent before p, with the frame's header.
SentOf(cells, p) ==
  /\ Len(cells) >= 2
  /\ cells[1] = Header(FirstPart(p.frame, 1)) /\ cells[2] = FirstPart(p.frame, 1)
  /\ \A i \in 2..(Len(cells) - 1) : cells[i + 1] = Following(cells[i])
  /\ Following(cells[Len(cells)]) = p

\* After a frame there is at most what is left of frames with undecryptable parts.
TailFrom(cells, k, spoilt) ==
  k < Len(cells) => cells[k + 1].frame \in spoilt /\ cells[k + 1].frame >= cells[1].frame

\* The first k cells are a whole frame.
Whole(cells, k, spoilt) == HoldFrame(cells, k) /\ TailFrom(cells, k, spoilt)

\* The PES packet begins with a frame with an undecryptable part, or with a whole one.
Good(cells, spoilt) ==
  cells[1].frame \in spoilt \/ \E k \in 2..Len(cells) : Whole(cells, k, spoilt)

\* A header is of the frame that its part is of.
LEMMA FrameOfHeader ==
  ASSUME NEW f, NEW n
  PROVE  Header(FirstPart(f, n)).frame = f /\ Header(FirstPart(f, n)).nal = 0
BY DEF Header, FirstPart

\* A delimiter with its header is what was sent of its frame so far.
LEMMA SentFirst ==
  ASSUME TsOutputAssumption, NEW p \in Parts, Delimits(p), NEW cells, cells = <<Header(p), p>>
  PROVE  /\ SentOf(cells, Following(p)) /\ Following(p) \in Parts /\ ~Delimits(Following(p))
         /\ Following(p).part = 1 /\ Following(p).nal = 2
<1>1. p = FirstPart(p.frame, 1) /\ p.of = 1 /\ p.part = 1 /\ p.nal = 1
  BY PartFacts DEF Delimits
<1>2. p # LastPart(p.frame)
  BY <1>1, ShapeFacts DEF LastPart
<1>3. Continues(p, Following(p))
  BY <1>2, FollowingPart
<1>4. /\ Following(p) \in Parts /\ Following(p).frame = p.frame /\ ~Delimits(Following(p))
      /\ Following(p).part = 1 /\ Following(p).nal = 2
  BY <1>1, <1>3 DEF Continues
<1>5. Len(cells) = 2 /\ cells[1] = Header(p) /\ cells[2] = p
  OBVIOUS
<1>6. \A i \in 2..(Len(cells) - 1) : FALSE
  BY <1>5
<1> QED
  BY <1>1, <1>4, <1>5, <1>6 DEF SentOf

\* With each further part, until the last makes it the whole frame.
LEMMA SentMore ==
  ASSUME TsOutputAssumption, NEW p \in Parts, ~Delimits(p), NEW cells \in Seq(Cells),
         SentOf(cells, p), NEW more, more = Append(cells, p)
  PROVE  /\ p # LastPart(p.frame) => /\ Continues(p, Following(p))
                                     /\ SentOf(more, Following(p))
         /\ p = LastPart(p.frame) => HoldFrame(more, Len(more))
<1>1. /\ p \in Cells /\ Len(cells) \in Nat /\ Len(cells) >= 2
  BY PartFacts DEF SentOf
<1>2. /\ Len(more) = Len(cells) + 1 /\ more[Len(cells) + 1] = p
      /\ \A i \in 1..Len(cells) : more[i] = cells[i]
  BY <1>1, AppendProperties
<1>3. /\ more[1] = Header(FirstPart(p.frame, 1)) /\ more[2] = FirstPart(p.frame, 1)
  BY <1>1, <1>2 DEF SentOf
<1>4. \A i \in 2..(Len(more) - 1) : more[i + 1] = Following(more[i])
  <2>1. SUFFICES ASSUME NEW i \in 2..(Len(more) - 1) PROVE more[i + 1] = Following(more[i])
    OBVIOUS
  <2>2. more[i] = cells[i] /\ i \in 2..Len(cells)
    BY <1>1, <1>2, <2>1
  <2>3. CASE i = Len(cells)
    BY <1>2, <2>2, <2>3 DEF SentOf
  <2>4. CASE i # Len(cells)
    <3>1. i \in 2..(Len(cells) - 1) /\ i + 1 \in 1..Len(cells)
      BY <1>1, <2>2, <2>4
    <3> QED
      BY <1>2, <2>2, <3>1 DEF SentOf
  <2> QED
    BY <2>3, <2>4
<1>5. ASSUME p # LastPart(p.frame)
      PROVE  Continues(p, Following(p)) /\ SentOf(more, Following(p))
  <2>1. Continues(p, Following(p))
    BY <1>5, FollowingPart
  <2>2. Following(p).frame = p.frame
    BY <2>1 DEF Continues
  <2>3. Len(more) >= 2 /\ more[Len(more)] = p
    BY <1>1, <1>2
  <2> QED
    BY <1>3, <1>4, <2>1, <2>2, <2>3 DEF SentOf
<1>6. ASSUME p = LastPart(p.frame) PROVE HoldFrame(more, Len(more))
  <2>1. more[1].frame = p.frame
    BY <1>3, FrameOfHeader
  <2>2. Len(more) >= 2 /\ more[Len(more)] = LastPart(p.frame)
    BY <1>1, <1>2, <1>6
  <2> QED
    BY <1>3, <1>4, <2>1, <2>2 DEF HoldFrame
<1> QED
  BY <1>5, <1>6

\* The beginning of some cells is that of others.
LEMMA SameFrame ==
  ASSUME NEW c, NEW d, NEW k \in Nat, k >= 2, \A i \in 1..k : c[i] = d[i], HoldFrame(c, k)
  PROVE  HoldFrame(d, k)
<1>1. c[1] = d[1] /\ c[2] = d[2] /\ c[k] = d[k]
  OBVIOUS
<1>2. \A i \in 2..(k - 1) : d[i + 1] = Following(d[i])
  <2>1. SUFFICES ASSUME NEW i \in 2..(k - 1) PROVE d[i + 1] = Following(d[i])
    OBVIOUS
  <2>2. i \in 1..k /\ i + 1 \in 1..k
    OBVIOUS
  <2>3. c[i + 1] = Following(c[i])
    BY DEF HoldFrame
  <2> QED
    BY <2>2, <2>3
<1> QED
  BY <1>1, <1>2 DEF HoldFrame

\* A PES packet that is good, and of frames that were decrypted, is a whole frame.
LEMMA GoodIsWhole ==
  ASSUME NEW cells \in SomeCells, NEW spoilt, Good(cells, spoilt),
         \/ \A i \in DOMAIN cells : cells[i].frame \notin spoilt
         \/ \A t \in spoilt : t < cells[1].frame
  PROVE  IsWholeFrame(cells)
<1>1. Len(cells) \in Nat /\ Len(cells) >= 1 /\ DOMAIN cells = 1..Len(cells)
  BY DEF SomeCells
<1>2. \A i \in 1..Len(cells) : cells[i] \in Cells
  BY DEF SomeCells
<1>3. \A i \in 1..Len(cells) : cells[i].frame \in Int
  BY <1>2 DEF Cells, Parts
<1>4. cells[1].frame \notin spoilt
  BY <1>1, <1>3
<1>5. PICK k \in 2..Len(cells) : HoldFrame(cells, k) /\ TailFrom(cells, k, spoilt)
  BY <1>4 DEF Good, Whole
<1>6. ~(k < Len(cells))
  <2>1. SUFFICES ASSUME k < Len(cells) PROVE FALSE
    OBVIOUS
  <2>2. k + 1 \in 1..Len(cells) /\ 1 \in 1..Len(cells)
    BY <1>1, <2>1
  <2>3. cells[k + 1].frame \in spoilt /\ cells[k + 1].frame >= cells[1].frame
    BY <1>5, <2>1 DEF TailFrom
  <2> QED
    BY <1>1, <1>3, <2>2, <2>3
<1>7. k = Len(cells)
  <2>1. PICK n \in Nat : n = Len(cells)
    BY <1>1
  <2>2. k \in 2..n /\ ~(k < n)
    BY <1>6, <2>1
  <2>3. k = n
    BY <2>2
  <2> QED
    BY <2>1, <2>3
<1> QED
  BY <1>5, <1>7 DEF IsWholeFrame


-----------------------------------------------------------------------------
(* What holds between the writer and the verifier while the continuity     *)
(* counter has not come round: w and v are the two, p the next part to be  *)
(* sent, m says that a packet was lost, q is the processor, s the          *)
(* assembler, b the values skipped, spoilt the frames with undecryptable      *)
(* parts, l the frame since which nothing went wrong.                      *)

\* What there is of the PES packet that the writer is at.
Content(w, v) == IF w.index = 1 THEN v.pes \o w.pending ELSE w.pending

\* The processor is at p, in a frame that it has had all of.
InSync(q, s, p) ==
  AtPart(q, p) /\ Counted(q, p) /\ s = IF p.part = 1 THEN "NotStarted" ELSE "InFragment"

\* The frame is being written, without a gap.
Going(c, w, p, m, q, s, b) ==
  /\ p # None /\ ~Delimits(p) /\ SentOf(c, p) /\ InSync(q, s, p)
  /\ ~m /\ (b = 0 \/ w.index = 0)

\* The rest of the frame does not come, and the verifier will see that.
Stalled(m, q, b) == (m \/ b > 0) /\ (m \/ ~q.timed)

\* Nothing of another frame is passed on before its beginning.
Ready(q, s, p, spoilt) ==
  q.left = 0 /\ s # "InFragment" /\ (p = None \/ Delimits(p) \/ p.frame \in spoilt)

\* The frame has been written.
Done(c, w, p, m, q, s, spoilt) ==
  \E k \in 2..Len(c) :
    /\ Whole(c, k, spoilt) /\ Len(w.pending) <= Len(c) - k
    /\ k = Len(c) /\ q.timed /\ ~m => Ready(q, s, p, spoilt)

\* What the writer is at is of a frame that may become whole, has become whole, or will
\* be found damaged.
WriterOK(w, v, p, m, q, s, b, spoilt) ==
  /\ w.open =>
       LET c == Content(w, v)
       IN /\ IF w.index = 1 THEN v.pes # None ELSE w.pending # <<>>
          /\ Past(c[1].frame, p)
          /\ c[1].frame \in spoilt \/ Going(c, w, p, m, q, s, b) \/ Stalled(m, q, b)
               \/ Done(c, w, p, m, q, s, spoilt)
  /\ ~w.open => v.pes = None /\ w.index = 0 /\ ~q.timed

\* The counters differ by the values skipped.
CountersAgree(w, v, b) ==
  v.cc # None /\ b < CcModulus => w.cc = v.cc + 1 + b \/ w.cc = v.cc + 1 + b - CcModulus

\* What the verifier has is not broken, and good once the writer has left it.
ReaderOK(w, v, p, m, q, b, spoilt) ==
  /\ ~v.duplicate /\ ~v.damaged /\ (v.cc = None <=> v.pes = None)
  /\ v.pes # None => Past(v.pes[1].frame, p) /\ (w.index = 0 => b > 0 \/ Good(v.pes, spoilt))
  /\ b > 0 /\ ~m /\ q.timed => w.index = 0

\* Nothing went wrong since frame l.
CalmOK(v, p, m, b, spoilt, l) ==
  l # None => /\ ~m /\ \A t \in spoilt : t < l
              /\ v.pes # None /\ v.pes[1].frame >= l => b = 0
              /\ p # None => l <= p.frame

\* All of this.
Sound(w, v, p, m, q, s, b, spoilt, l) ==
  /\ WriterOK(w, v, p, m, q, s, b, spoilt) /\ CountersAgree(w, v, b)
  /\ ReaderOK(w, v, p, m, q, b, spoilt) /\ CalmOK(v, p, m, b, spoilt, l)

\* The cells of a PES packet have frames.
LEMMA FramesOfCells ==
  ASSUME NEW c \in SomeCells
  PROVE  /\ Len(c) \in Nat \ {0} /\ \A i \in 1..Len(c) : c[i] \in Cells /\ c[i].frame \in Nat
         /\ c \in Seq(Cells) /\ DOMAIN c = 1..Len(c)
<1>1. c \in Seq(Cells) /\ c # <<>>
  BY DEF SomeCells
<1>2. Len(c) \in Nat \ {0} /\ DOMAIN c = 1..Len(c) /\ \A i \in 1..Len(c) : c[i] \in Cells
  BY <1>1
<1>3. \A i \in 1..Len(c) : c[i].frame \in Nat
  BY <1>2 DEF Cells, Parts
<1> QED
  BY <1>1, <1>2, <1>3

\* One sequence after another.
LEMMA Joined ==
  ASSUME NEW S, NEW s \in Seq(S), s # <<>>, NEW t \in Seq(S), NEW c, c = s \o t
  PROVE  /\ c \in Seq(S) /\ c # <<>> /\ Len(c) = Len(s) + Len(t) /\ Len(t) <= Len(c)
         /\ Len(s) <= Len(c) /\ c[1] = s[1] /\ \A i \in 1..Len(s) : c[i] = s[i]
<1>1. Len(s) \in Nat \ {0} /\ Len(t) \in Nat
  OBVIOUS
<1>2. /\ c \in Seq(S) /\ Len(c) = Len(s) + Len(t)
      /\ \A i \in 1..Len(s) : c[i] = s[i]
  BY <1>1, ConcatProperties
<1>3. 1 \in 1..Len(s) /\ Len(c) # 0 /\ Len(t) <= Len(c) /\ Len(s) <= Len(c)
  BY <1>1, <1>2
<1>4. c # <<>>
  BY <1>3
<1> QED
  BY <1>2, <1>3, <1>4

\* There is a first cell.
LEMMA FirstCell ==
  ASSUME NEW w \in Writers, NEW v \in Readers, NEW c, c = Content(w, v),
         IF w.index = 1 THEN v.pes # None ELSE w.pending # <<>>
  PROVE  /\ c \in SomeCells /\ c[1].frame \in Nat
         /\ w.index = 1 => c[1] = v.pes[1]
         /\ Len(w.pending) <= Len(c)
<1>1. w.pending \in Seq(Cells) /\ w.index \in {0, 1} /\ Len(w.pending) \in Nat
  BY DEF Writers
<1>2. CASE w.index = 1
  <2>1. v.pes \in Seq(Cells) /\ v.pes # <<>> /\ Len(v.pes) \in Nat \ {0}
    BY <1>2 DEF Readers
  <2>2. c = v.pes \o w.pending
    BY <1>2 DEF Content
  <2>3. PICK s, t : s = v.pes /\ t = w.pending
    OBVIOUS
  <2>4. s \in Seq(Cells) /\ s # <<>> /\ t \in Seq(Cells) /\ c = s \o t
    BY <1>1, <2>1, <2>2, <2>3
  <2>5. /\ c \in Seq(Cells) /\ c # <<>> /\ Len(t) <= Len(c) /\ c[1] = s[1]
    BY <2>4, Joined
  <2>6. c \in SomeCells
    BY <2>5 DEF SomeCells
  <2>7. c[1].frame \in Nat
    BY <2>6, FramesOfCells
  <2> QED
    BY <2>3, <2>5, <2>6, <2>7
<1>3. CASE w.index = 0
  <2>1. c = w.pending /\ c \in SomeCells
    BY <1>1, <1>3 DEF Content, SomeCells
  <2>2. c[1].frame \in Nat
    BY <2>1, FramesOfCells
  <2> QED
    BY <1>1, <1>3, <2>1, <2>2
<1> QED
  BY <1>1, <1>2, <1>3

\* More frames with undecryptable parts.
LEMMA GoodStays ==
  ASSUME NEW c, NEW spoilt, NEW bad2, spoilt \subseteq bad2
  PROVE  /\ \A k : Whole(c, k, spoilt) => Whole(c, k, bad2)
         /\ Good(c, spoilt) => Good(c, bad2)
<1>1. ASSUME NEW k, Whole(c, k, spoilt) PROVE Whole(c, k, bad2)
  BY <1>1 DEF Whole, TailFrom
<1> QED
  BY <1>1 DEF Good

\* The receiver has noticed the loss, if there was one.
LEMMA Noticed ==
  ASSUME TsOutputAssumption, NEW w \in Writers, NEW v \in Readers, NEW m \in BOOLEAN,
         NEW b \in 0..CcModulus, CountersAgree(w, v, b),
         NEW w2, w2 = (IF m THEN Skipped(w) ELSE w),
         NEW b2, b2 = (IF m /\ b < CcModulus THEN b + 1 ELSE b)
  PROVE  /\ w2 \in Writers /\ w2.open = w.open /\ w2.pending = w.pending /\ w2.index = w.index
         /\ b2 \in 0..CcModulus /\ b2 >= b /\ (m => b2 > 0) /\ (~m => w2 = w /\ b2 = b)
         /\ CountersAgree(w2, v, b2)
<1>1. CcModulus \in Nat \ {0, 1} /\ w.cc \in 0..(CcModulus - 1)
  BY DEF TsOutputAssumption, Writers
<1>2. CASE ~m
  BY <1>1, <1>2
<1>3. CASE m
  <2>1. PICK c : c = (w.cc + 1) % CcModulus
    OBVIOUS
  <2>2. c \in 0..(CcModulus - 1) /\ (c = w.cc + 1 \/ c = w.cc + 1 - CcModulus)
    <3>1. c \in 0..(CcModulus - 1)
      BY <1>1, <2>1
    <3>2. CASE w.cc + 1 < CcModulus
      BY <1>1, <2>1, <3>1, <3>2, Divided
    <3>3. CASE w.cc + 1 = CcModulus
      <4>1. c = 0
        BY <1>1, <2>1, <3>3, Divided
      <4> QED
        BY <1>1, <3>3, <4>1
    <3> QED
      BY <1>1, <3>2, <3>3
  <2>3. w2 = [w EXCEPT !.cc = c]
    BY <1>3, <2>1 DEF Skipped
  <2>4. w2 \in Writers /\ w2.open = w.open /\ w2.pending = w.pending /\ w2.index = w.index
        /\ w2.cc = c
    BY <2>2, <2>3 DEF Writers
  <2>5. b2 \in 0..CcModulus /\ b2 >= b /\ b2 > 0
    BY <1>1, <1>3
  <2>6. CountersAgree(w2, v, b2)
    <3>1. SUFFICES ASSUME v.cc # None, b2 < CcModulus
          PROVE  w2.cc = v.cc + 1 + b2 \/ w2.cc = v.cc + 1 + b2 - CcModulus
      BY DEF CountersAgree
    <3>2. v.cc \in 0..(CcModulus - 1)
      BY <3>1 DEF Readers
    <3>3. b2 = b + 1 /\ b < CcModulus
      BY <1>1, <1>3, <3>1
    <3>4. w.cc = v.cc + 1 + b \/ w.cc = v.cc + 1 + b - CcModulus
      BY <3>1, <3>3 DEF CountersAgree
    <3> QED
      BY <1>1, <2>2, <2>4, <3>1, <3>2, <3>3, <3>4
  <2> QED
    BY <1>3, <2>4, <2>5, <2>6
<1> QED
  BY <1>2, <1>3

\* As the verifier has them.
LEMMA FrameInPes ==
  ASSUME NEW v \in Readers, v.pes # None
  PROVE  v.pes \in SomeCells /\ v.pes[1].frame \in Nat /\ Len(v.pes) \in Nat \ {0}
<1>1. v.pes \in SomeCells
  BY DEF Readers, SomeCells
<1> QED
  BY <1>1, FramesOfCells

\* A lost packet.
LEMMA LostSound ==
  ASSUME TsOutputAssumption, NEW w \in Writers, NEW v \in Readers, NEW p \in Parts,
         NEW m \in BOOLEAN, NEW q \in Procs, NEW s, NEW b \in 0..CcModulus, NEW spoilt, NEW l,
         Sound(w, v, p, m, q, s, b, spoilt, l)
  PROVE  Sound(w, v, Following(p), TRUE, q, s, b, spoilt, None)
<1>1. /\ WriterOK(w, v, p, m, q, s, b, spoilt) /\ CountersAgree(w, v, b)
      /\ ReaderOK(w, v, p, m, q, b, spoilt)
  BY Zenon DEF Sound
<1>2. WriterOK(w, v, Following(p), TRUE, q, s, b, spoilt)
  <2>1. PICK c : c = Content(w, v)
    OBVIOUS
  <2>2. ASSUME w.open
        PROVE  /\ IF w.index = 1 THEN v.pes # None ELSE w.pending # <<>>
               /\ Past(c[1].frame, Following(p)) /\ Stalled(TRUE, q, b)
    <3>1. /\ IF w.index = 1 THEN v.pes # None ELSE w.pending # <<>>
          /\ Past(c[1].frame, p)
      BY <1>1, <2>1, <2>2, Zenon DEF WriterOK
    <3>2. c[1].frame \in Nat
      BY <2>1, <3>1, FirstCell
    <3>3. Past(c[1].frame, Following(p))
      BY <3>1, <3>2, PastStays
    <3> QED
      BY <3>1, <3>3 DEF Stalled
  <2>3. ~w.open => v.pes = None /\ w.index = 0 /\ ~q.timed
    BY <1>1, Zenon DEF WriterOK
  <2> QED
    BY <2>1, <2>2, <2>3, Zenon DEF WriterOK
<1>3. ReaderOK(w, v, Following(p), TRUE, q, b, spoilt)
  <2>1. /\ ~v.duplicate /\ ~v.damaged /\ (v.cc = None <=> v.pes = None)
        /\ v.pes # None => Past(v.pes[1].frame, p) /\ (w.index = 0 => b > 0 \/ Good(v.pes, spoilt))
    BY <1>1, Zenon DEF ReaderOK
  <2>2. v.pes # None => Past(v.pes[1].frame, Following(p))
    BY <2>1, FrameInPes, PastStays
  <2> QED
    BY <2>1, <2>2, Zenon DEF ReaderOK
<1>4. CalmOK(v, Following(p), TRUE, b, spoilt, None)
  BY DEF CalmOK
<1> QED
  BY <1>1, <1>2, <1>3, <1>4, Zenon DEF Sound

\* What was sent of a frame is of that frame.
LEMMA FrameOfSent ==
  ASSUME NEW c, NEW p, SentOf(c, p)
  PROVE  c[1].frame = p.frame
BY FrameOfHeader DEF SentOf

\* A packet that arrives, and is not passed on.
LEMMA UnreadSound ==
  ASSUME TsOutputAssumption, NEW w \in Writers, NEW v \in Readers, NEW p \in Parts,
         NEW m \in BOOLEAN, NEW q \in Procs, NEW s, NEW b \in 0..CcModulus, NEW spoilt, NEW l,
         Sound(w, v, p, m, q, s, b, spoilt, l),
         NEW w2, w2 = (IF m THEN Skipped(w) ELSE w),
         NEW b2, b2 = (IF m /\ b < CcModulus THEN b + 1 ELSE b),
         NEW bad2, spoilt \subseteq bad2,
         NEW q2 \in Procs, NEW s2, q2.timed => ~m /\ q2 = q /\ s2 = s,
         p.frame \in bad2 \/ ~(~Delimits(p) /\ ~m /\ InSync(q, s, p)),
         p.frame \in bad2 \/ ~(Delimits(p) /\ q2.timed /\ s # "InFragment")
  PROVE  Sound(w2, v, Following(p), FALSE, q2, s2, b2, bad2, None)
<1>1. /\ WriterOK(w, v, p, m, q, s, b, spoilt) /\ CountersAgree(w, v, b)
      /\ ReaderOK(w, v, p, m, q, b, spoilt)
  BY Zenon DEF Sound
<1>2. /\ w2 \in Writers /\ w2.open = w.open /\ w2.pending = w.pending /\ w2.index = w.index
      /\ b2 \in 0..CcModulus /\ b2 >= b /\ (m => b2 > 0) /\ (~m => w2 = w /\ b2 = b)
      /\ CountersAgree(w2, v, b2)
  BY <1>1, Noticed
<1>3. PICK c : c = Content(w, v) /\ c = Content(w2, v)
  BY <1>2 DEF Content
<1>4. ASSUME w.open
      PROVE  /\ IF w2.index = 1 THEN v.pes # None ELSE w2.pending # <<>>
             /\ Past(c[1].frame, Following(p))
             /\ c[1].frame \in bad2 \/ Stalled(FALSE, q2, b2)
                  \/ Done(c, w2, Following(p), FALSE, q2, s2, bad2)
  <2>1. /\ IF w.index = 1 THEN v.pes # None ELSE w.pending # <<>>
        /\ Past(c[1].frame, p)
        /\ c[1].frame \in spoilt \/ Going(c, w, p, m, q, s, b) \/ Stalled(m, q, b)
             \/ Done(c, w, p, m, q, s, spoilt)
    BY <1>1, <1>3, <1>4, Zenon DEF WriterOK
  <2>2. c[1].frame \in Nat
    BY <1>3, <2>1, FirstCell
  <2>3. Past(c[1].frame, Following(p))
    BY <2>1, <2>2, PastStays
  <2>4. CASE c[1].frame \in spoilt
    BY <1>2, <2>1, <2>3, <2>4
  <2>5. CASE Going(c, w, p, m, q, s, b)
    <3>1. ~Delimits(p) /\ SentOf(c, p) /\ InSync(q, s, p) /\ ~m
      BY <2>5 DEF Going
    <3>2. c[1].frame = p.frame
      BY <3>1, FrameOfSent
    <3> QED
      BY <1>2, <2>1, <2>3, <3>1, <3>2
  <2>6. CASE Stalled(m, q, b)
    <3>1. Stalled(FALSE, q2, b2)
      BY <1>2, <2>6 DEF Stalled
    <3> QED
      BY <1>2, <2>1, <2>3, <3>1
  <2>7. CASE Done(c, w, p, m, q, s, spoilt)
    <3>1. PICK k \in 2..Len(c) :
            /\ Whole(c, k, spoilt) /\ Len(w.pending) <= Len(c) - k
            /\ k = Len(c) /\ q.timed /\ ~m => Ready(q, s, p, spoilt)
      BY <2>7 DEF Done
    <3>2. Whole(c, k, bad2) /\ Len(w2.pending) <= Len(c) - k
      BY <1>2, <3>1, GoodStays
    <3>3. ASSUME k = Len(c), q2.timed PROVE Ready(q2, s2, Following(p), bad2)
      <4>1. ~m /\ q2 = q /\ s2 = s /\ Ready(q, s, p, spoilt) /\ p # None
        BY <3>1, <3>3, PartFacts
      <4>2. q2.left = 0 /\ s2 # "InFragment" /\ p.frame \in bad2
        BY <3>3, <4>1 DEF Ready
      <4>3. Following(p) = None \/ Delimits(Following(p)) \/ Following(p).frame = p.frame
        BY FollowingPart DEF Continues
      <4> QED
        BY <4>2, <4>3 DEF Ready
    <3>4. Done(c, w2, Following(p), FALSE, q2, s2, bad2)
      BY <3>2, <3>3, Zenon DEF Done
    <3> QED
      BY <1>2, <2>1, <2>3, <3>4
  <2> QED
    BY <2>1, <2>4, <2>5, <2>6, <2>7
<1>5. ~w2.open => v.pes = None /\ w2.index = 0 /\ ~q2.timed
  BY <1>1, <1>2 DEF WriterOK
<1>6. WriterOK(w2, v, Following(p), FALSE, q2, s2, b2, bad2)
  BY <1>2, <1>3, <1>4, <1>5, Zenon DEF WriterOK
<1>7. ReaderOK(w2, v, Following(p), FALSE, q2, b2, bad2)
  <2>1. /\ ~v.duplicate /\ ~v.damaged /\ (v.cc = None <=> v.pes = None)
        /\ v.pes # None => Past(v.pes[1].frame, p) /\ (w.index = 0 => b > 0 \/ Good(v.pes, spoilt))
        /\ b > 0 /\ ~m /\ q.timed => w.index = 0
    BY <1>1, Zenon DEF ReaderOK
  <2>2. v.pes # None => Past(v.pes[1].frame, Following(p))
    BY <2>1, FrameInPes, PastStays
  <2>3. v.pes # None => (w2.index = 0 => b2 > 0 \/ Good(v.pes, bad2))
    <3>1. Good(v.pes, spoilt) => Good(v.pes, bad2)
      BY GoodStays
    <3> QED
      BY <1>2, <2>1, <3>1
  <2>4. b2 > 0 /\ q2.timed => w2.index = 0
    BY <1>2, <2>1
  <2> QED
    BY <2>1, <2>2, <2>3, <2>4, Zenon DEF ReaderOK
<1>8. CalmOK(v, Following(p), FALSE, b2, bad2, None)
  BY DEF CalmOK
<1> QED
  BY <1>2, <1>6, <1>7, <1>8, Zenon DEF Sound


\* One more part.
LEMMA JoinedMore ==
  ASSUME NEW S, NEW s \in Seq(S), NEW t \in Seq(S), NEW e \in S
  PROVE  s \o Append(t, e) = Append(s \o t, e)
<1>1. PICK a, c : a = s \o Append(t, e) /\ c = Append(s \o t, e)
  OBVIOUS
<1>2. Len(s) \in Nat /\ Len(t) \in Nat
  OBVIOUS
<1>3. PICK u, j : u = Append(t, e) /\ j = s \o t
  OBVIOUS
<1>4. /\ u \in Seq(S) /\ Len(u) = Len(t) + 1 /\ u[Len(t) + 1] = e
      /\ \A i \in 1..Len(t) : u[i] = t[i]
  BY <1>3, AppendProperties
<1>5. /\ j \in Seq(S) /\ Len(j) = Len(s) + Len(t)
      /\ \A i \in 1..Len(s) : j[i] = s[i]
      /\ \A i \in Len(s) + 1..Len(s) + Len(t) : j[i] = t[i - Len(s)]
  BY <1>2, <1>3, ConcatProperties
<1>6. /\ a \in Seq(S) /\ Len(a) = Len(s) + Len(u)
      /\ \A i \in 1..Len(s) : a[i] = s[i]
      /\ \A i \in Len(s) + 1..Len(s) + Len(u) : a[i] = u[i - Len(s)]
  <2>1. a = s \o u
    BY <1>1, <1>3
  <2>2. /\ s \o u \in Seq(S) /\ Len(s \o u) = Len(s) + Len(u)
        /\ \A i \in 1..Len(s) + Len(u) :
             (s \o u)[i] = IF i <= Len(s) THEN s[i] ELSE u[i - Len(s)]
    BY <1>4, ConcatProperties, Zenon
  <2>3. \A i \in 1..Len(s) + Len(u) : a[i] = IF i <= Len(s) THEN s[i] ELSE u[i - Len(s)]
    BY <2>1, <2>2
  <2>4. Len(u) \in Nat
    BY <1>4
  <2> QED
    BY <1>2, <2>1, <2>2, <2>3, <2>4
<1>7. /\ c \in Seq(S) /\ Len(c) = Len(j) + 1 /\ c[Len(j) + 1] = e
      /\ \A i \in 1..Len(j) : c[i] = j[i]
  BY <1>1, <1>3, <1>5, AppendProperties
<1>8. Len(a) = Len(c)
  BY <1>2, <1>4, <1>5, <1>6, <1>7
<1>9. \A i \in 1..Len(a) : a[i] = c[i]
  <2>1. SUFFICES ASSUME NEW i \in 1..Len(a) PROVE a[i] = c[i]
    OBVIOUS
  <2>2. CASE i \in 1..Len(s)
    BY <1>2, <1>5, <1>6, <1>7, <2>2
  <2>3. CASE i \in Len(s) + 1..Len(s) + Len(t)
    <3>1. i - Len(s) \in 1..Len(t) /\ i \in 1..Len(j) /\ i \in Len(s) + 1..Len(s) + Len(u)
      BY <1>2, <1>4, <1>5, <2>3
    <3> QED
      BY <1>4, <1>5, <1>6, <1>7, <2>3, <3>1
  <2>4. CASE i = Len(s) + Len(t) + 1
    <3>1. i - Len(s) = Len(t) + 1 /\ i = Len(j) + 1 /\ i \in Len(s) + 1..Len(s) + Len(u)
      BY <1>2, <1>4, <1>5, <2>4
    <3> QED
      BY <1>4, <1>6, <1>7, <3>1
  <2>5. Len(a) = Len(s) + Len(t) + 1 /\ Len(s) + Len(t) + 1 \in Nat
    BY <1>2, <1>4, <1>6
  <2>6. i \in 1..Len(s) \/ i \in Len(s) + 1..Len(s) + Len(t) \/ i = Len(s) + Len(t) + 1
    BY <1>2, <2>1, <2>5
  <2> QED
    BY <2>2, <2>3, <2>4, <2>6
<1>10. a = c
  BY <1>6, <1>7, <1>8, <1>9, SeqEqual
<1> QED
  BY <1>1, <1>10

\* What has been written and read after a part that was passed on.
Outcome(w, v, p, first, last, broken, u, x, ended, some) ==
  /\ u.open
  /\ Content(u, x) = IF first THEN <<Header(p), p>> ELSE Append(Content(w, v), p)
  /\ IF u.index = 1 THEN x.pes # None ELSE u.pending # <<>>
  /\ last => u.pending = <<>>
  /\ ~first => Len(u.pending) <= Len(w.pending) + 1
  /\ ~x.duplicate /\ ~x.damaged
  /\ ~some => /\ x = v /\ u.cc = w.cc /\ ended = None
              /\ u.index = IF first THEN 0 ELSE w.index
  /\ some => /\ u.index = 1 /\ x.cc # None /\ x.pes # None
             /\ x.cc \in 0..(CcModulus - 1) /\ u.cc = (x.cc + 1) % CcModulus
  /\ ended # None => /\ some /\ (first \/ w.index = 0) /\ v.pes # None
                      /\ ended.cells = v.pes /\ ended.damaged = broken

\* The outcome of a part that is written and read.
LEMMA OutcomeIs ==
  ASSUME TsOutputAssumption, NEW w, NEW v, NEW p, NEW first, NEW last, NEW broken,
         NEW out, out = Written(w, p, first, last),
         NEW read, read = AllVerified(v, out.packets),
         NEW some \in BOOLEAN, some <=> out.packets # <<>>,
         Readable(w, v, p, first, last, broken, out),
         ~first => IF w.index = 1 THEN v.pes # None ELSE w.pending # <<>>
  PROVE  Outcome(w, v, p, first, last, broken, out.writer, read.pid, read.closed, some)
<1>0. /\ w \in Writers /\ v \in Readers /\ p \in Parts /\ first \in BOOLEAN /\ last \in BOOLEAN
      /\ Len(w.pending) < PacketCells /\ (first => ~last) /\ (~first => w.open)
      /\ ~v.duplicate /\ ~v.damaged /\ (out.packets # <<>> => w.cc # v.cc)
      /\ broken \in BOOLEAN /\ (broken <=> v.cc # None /\ w.cc # (v.cc + 1) % CcModulus)
      /\ (~first /\ w.index = 1 => v.pes # None /\ ~broken)
  BY Zenon DEF Readable
<1> USE <1>0
<1>1. PICK cells : cells = Filled(w, p, first)
  OBVIOUS
<1>2. /\ cells \in Seq(Cells) /\ cells # <<>>
      /\ Len(cells) = IF first THEN 2 ELSE Len(w.pending) + 1
  BY <1>1, FilledIs
<1>3. w.pending \in Seq(Cells) /\ w.index \in {0, 1} /\ p \in Cells /\ Len(w.pending) \in Nat
      /\ Len(cells) \in Nat /\ w.cc \in 0..(CcModulus - 1) /\ None \notin Nat
      /\ None \notin Seq(Cells) /\ CcModulus \in Nat
  BY <1>2, PartFacts DEF Writers, TsOutputAssumption
<1>4. v.pes # None => v.pes \in Seq(Cells) /\ v.pes # <<>>
  BY DEF Readers
<1>5. PICK u, x, ended : u = out.writer /\ x = read.pid /\ ended = read.closed
  OBVIOUS
<1>6. \/ /\ out.packets = <<>> /\ ~last
         /\ x = v /\ ended = None
         /\ u.open /\ u.pending = cells /\ u.cc = w.cc
         /\ u.index = IF first THEN 0 ELSE w.index
      \/ /\ out.packets # <<>> /\ (first \/ w.index = 0)
         /\ u.open /\ u.pending = <<>> /\ u.index = 1
         /\ \E c \in 0..(CcModulus - 1) :
              /\ x = [cc |-> c, duplicate |-> FALSE, pes |-> cells, damaged |-> FALSE]
              /\ u.cc = (c + 1) % CcModulus
         /\ ended = IF v.pes = None THEN None
                     ELSE [cells |-> v.pes, damaged |-> broken]
      \/ /\ out.packets # <<>> /\ ~first /\ w.index = 1
         /\ u.open /\ u.pending = <<>> /\ u.index = 1
         /\ u.cc = (w.cc + 1) % CcModulus
         /\ x = [cc |-> w.cc, duplicate |-> FALSE, pes |-> v.pes \o cells,
                 damaged |-> FALSE]
         /\ ended = None
  <2>3. ReadAs(w, v, p, first, last, broken, out, read, cells)
    BY <1>1, ReadForms, Zenon
  <2> QED
    BY <1>5, <2>3, Zenon DEF ReadAs
<1>7. first => cells = <<Header(p), p>>
  BY <1>1 DEF Filled
<1>8. ~first => cells = Append(w.pending, p)
  BY <1>1 DEF Filled
<1>9. CASE /\ out.packets = <<>> /\ ~last
           /\ x = v /\ ended = None
           /\ u.open /\ u.pending = cells /\ u.cc = w.cc
           /\ u.index = IF first THEN 0 ELSE w.index
  <2>1. Content(u, x) = IF first THEN <<Header(p), p>> ELSE Append(Content(w, v), p)
    <3>1. CASE first
      BY <1>7, <1>9, <3>1 DEF Content
    <3>2. CASE ~first /\ w.index = 0
      BY <1>8, <1>9, <3>2 DEF Content
    <3>3. CASE ~first /\ w.index = 1
      <4>1. PICK s : s = v.pes
        OBVIOUS
      <4>2. s \in Seq(Cells)
        BY <1>4, <3>3, <4>1
      <4>3. s \o Append(w.pending, p) = Append(s \o w.pending, p)
        BY <1>3, <4>2, JoinedMore
      <4>4. Content(u, x) = s \o cells /\ Content(w, v) = s \o w.pending
        BY <1>9, <3>3, <4>1 DEF Content
      <4> QED
        BY <1>8, <3>3, <4>3, <4>4
    <3> QED
      BY <1>3, <3>1, <3>2, <3>3
  <2>2. IF u.index = 1 THEN x.pes # None ELSE u.pending # <<>>
    BY <1>2, <1>9
  <2>3. ~first => Len(u.pending) <= Len(w.pending) + 1
    BY <1>2, <1>3, <1>9
  <2>4. Outcome(w, v, p, first, last, broken, u, x, ended, some)
    BY <1>9, <2>1, <2>2, <2>3, Zenon DEF Outcome
  <2> QED
    BY <1>5, <2>4
<1>10. ASSUME NEW c \in 0..(CcModulus - 1), NEW pes \in Seq(Cells), pes # <<>>,
              u.open, u.pending = <<>>, u.index = 1, u.cc = (c + 1) % CcModulus,
              x = [cc |-> c, duplicate |-> FALSE, pes |-> pes, damaged |-> FALSE]
       PROVE  /\ Content(u, x) = pes /\ x.pes # None /\ x.cc # None /\ ~x.duplicate /\ ~x.damaged
              /\ x.cc \in 0..(CcModulus - 1) /\ u.cc = (x.cc + 1) % CcModulus
              /\ ~first => Len(u.pending) <= Len(w.pending) + 1
  <2>1. x.cc = c /\ x.pes = pes /\ x.duplicate = FALSE /\ x.damaged = FALSE
    BY <1>10
  <2>2. pes \o <<>> = pes
    BY <1>10
  <2>3. c # None /\ pes # None
    BY <1>3, <1>10
  <2>4. Len(u.pending) = 0
    BY <1>10
  <2> QED
    BY <1>3, <1>10, <2>1, <2>2, <2>3, <2>4 DEF Content
<1>11. CASE /\ out.packets # <<>> /\ (first \/ w.index = 0)
            /\ u.open /\ u.pending = <<>> /\ u.index = 1
            /\ \E c \in 0..(CcModulus - 1) :
                 /\ x = [cc |-> c, duplicate |-> FALSE, pes |-> cells, damaged |-> FALSE]
                 /\ u.cc = (c + 1) % CcModulus
            /\ ended = IF v.pes = None THEN None
                        ELSE [cells |-> v.pes, damaged |-> broken]
  <2>1. PICK c \in 0..(CcModulus - 1) :
               /\ x = [cc |-> c, duplicate |-> FALSE, pes |-> cells, damaged |-> FALSE]
               /\ u.cc = (c + 1) % CcModulus
    BY <1>11
  <2>2. /\ Content(u, x) = cells /\ x.pes # None /\ x.cc # None /\ ~x.duplicate /\ ~x.damaged
        /\ x.cc \in 0..(CcModulus - 1) /\ u.cc = (x.cc + 1) % CcModulus
        /\ ~first => Len(u.pending) <= Len(w.pending) + 1
    <3>1. u.open /\ u.pending = <<>> /\ u.index = 1
      BY <1>11
    <3> QED
      BY <1>2, <1>10, <2>1, <3>1, Zenon
  <2>3. cells = IF first THEN <<Header(p), p>> ELSE Append(Content(w, v), p)
    <3>1. CASE first
      BY <1>7, <3>1
    <3>2. CASE ~first
      <4>1. w.index # 1
        BY <1>3, <1>11, <3>2
      <4>2. Content(w, v) = w.pending
        BY <4>1 DEF Content
      <4> QED
        BY <1>8, <3>2, <4>2
    <3> QED
      BY <3>1, <3>2
  <2>4. ended # None => v.pes # None /\ ended.cells = v.pes /\ ended.damaged = broken
    <3>1. CASE v.pes = None
      BY <1>11, <3>1
    <3>2. CASE v.pes # None
      <4>1. PICK s : s = v.pes
        OBVIOUS
      <4>2. ended = [cells |-> s, damaged |-> broken]
        BY <1>11, <3>2, <4>1
      <4>3. ended.cells = s /\ ended.damaged = broken
        BY <4>2
      <4> QED
        BY <3>2, <4>1, <4>3
    <3> QED
      BY <3>1, <3>2
  <2>5. Outcome(w, v, p, first, last, broken, u, x, ended, some)
    BY <1>11, <2>2, <2>3, <2>4, Zenon DEF Outcome
  <2> QED
    BY <1>5, <2>5
<1>12. CASE /\ out.packets # <<>> /\ ~first /\ w.index = 1
            /\ u.open /\ u.pending = <<>> /\ u.index = 1
            /\ u.cc = (w.cc + 1) % CcModulus
            /\ x = [cc |-> w.cc, duplicate |-> FALSE, pes |-> v.pes \o cells,
                    damaged |-> FALSE]
            /\ ended = None
  <2>1. PICK s, pes, c : s = v.pes /\ pes = s \o cells /\ c = w.cc
    OBVIOUS
  <2>2. s \in Seq(Cells) /\ s # <<>>
    BY <1>4, <1>12, <2>1
  <2>3. pes \in Seq(Cells) /\ pes # <<>>
    BY <1>2, <2>1, <2>2, Joined
  <2>4. c \in 0..(CcModulus - 1) /\ u.cc = (c + 1) % CcModulus
    BY <1>3, <1>12, <2>1
  <2>5. x = [cc |-> c, duplicate |-> FALSE, pes |-> pes, damaged |-> FALSE]
    BY <1>12, <2>1, Zenon
  <2>6. /\ Content(u, x) = pes /\ x.pes # None /\ x.cc # None /\ ~x.duplicate /\ ~x.damaged
        /\ x.cc \in 0..(CcModulus - 1) /\ u.cc = (x.cc + 1) % CcModulus
        /\ ~first => Len(u.pending) <= Len(w.pending) + 1
    <3>1. u.open /\ u.pending = <<>> /\ u.index = 1
      BY <1>12
    <3> QED
      BY <1>10, <2>3, <2>4, <2>5, <3>1, Zenon
  <2>7. pes = Append(Content(w, v), p)
    <3>1. s \o Append(w.pending, p) = Append(s \o w.pending, p)
      <4>1. w.pending \in Seq(Cells) /\ p \in Cells
        BY <1>3
      <4> QED
        BY <2>2, <4>1, JoinedMore
    <3>2. Content(w, v) = s \o w.pending
      BY <1>12, <2>1 DEF Content
    <3> QED
      BY <1>8, <1>12, <2>1, <3>1, <3>2
  <2>8. Outcome(w, v, p, first, last, broken, u, x, ended, some)
    BY <1>12, <2>6, <2>7, Zenon DEF Outcome
  <2> QED
    BY <1>5, <2>8
<1> QED
  BY <1>6, <1>9, <1>11, <1>12


-----------------------------------------------------------------------------
(* A part that is passed on.                                               *)

\* How the counters tell that something was lost.
LEMMA CountersTell ==
  ASSUME TsOutputAssumption, NEW w \in Writers, NEW v \in Readers, NEW b \in 0..CcModulus,
         CountersAgree(w, v, b), NEW some \in BOOLEAN,
         ~(some /\ v.cc # None /\ b >= CcModulus - 1),
         NEW broken \in BOOLEAN, broken <=> v.cc # None /\ w.cc # (v.cc + 1) % CcModulus
  PROVE  /\ some => w.cc # v.cc
         /\ some /\ v.cc # None => (broken <=> b > 0)
         /\ b = 0 => ~broken
<1>1. CcModulus \in Nat \ {0, 1} /\ w.cc \in 0..(CcModulus - 1) /\ None \notin Nat
  BY DEF TsOutputAssumption, Writers
<1>2. CASE v.cc = None
  BY <1>1, <1>2
<1>3. CASE v.cc # None
  <2>1. v.cc \in 0..(CcModulus - 1)
    BY <1>3 DEF Readers
  <2>2. PICK c : c = (v.cc + 1) % CcModulus
    OBVIOUS
  <2>3. c = IF v.cc + 1 < CcModulus THEN v.cc + 1 ELSE 0
    <3>1. CASE v.cc + 1 < CcModulus
      BY <1>1, <2>1, <2>2, <3>1, Divided
    <3>2. CASE v.cc + 1 = CcModulus
      BY <1>1, <2>1, <2>2, <3>2, Divided
    <3> QED
      BY <1>1, <2>1, <3>1, <3>2
  <2>4. b < CcModulus => w.cc = v.cc + 1 + b \/ w.cc = v.cc + 1 + b - CcModulus
    BY <1>3 DEF CountersAgree
  <2>5. some => b < CcModulus - 1
    BY <1>1, <1>3
  <2>6. broken <=> w.cc # c
    BY <1>3, <2>2
  <2>7. some => w.cc # v.cc
    BY <1>1, <2>1, <2>4, <2>5
  <2>8. some => (broken <=> b > 0)
    BY <1>1, <2>1, <2>3, <2>4, <2>5, <2>6
  <2>9. b = 0 => ~broken
    BY <1>1, <2>1, <2>3, <2>4, <2>6
  <2> QED
    BY <2>7, <2>8, <2>9
<1> QED
  BY <1>2, <1>3

\* What the writer is at is spoilt, goes on, will not go on, or is done.
FrameOK(c, w, p, m, q, s, b, spoilt) ==
  c[1].frame \in spoilt \/ Going(c, w, p, m, q, s, b) \/ Stalled(m, q, b)
    \/ Done(c, w, p, m, q, s, spoilt)

\* The PES packet that ends with a delimiter, if nothing was missed, is good.
LEMMA PesIsGood ==
  ASSUME TsOutputAssumption, NEW w \in Writers, NEW v \in Readers, NEW p \in Parts,
         NEW q, NEW s, NEW spoilt,
         WriterOK(w, v, p, FALSE, q, s, 0, spoilt), ReaderOK(w, v, p, FALSE, q, 0, spoilt),
         v.pes # None, Delimits(p) \/ w.index = 0
  PROVE  Good(v.pes, spoilt)
<1>1. CASE w.index = 0
  <2>1. w.index = 0 => 0 > 0 \/ Good(v.pes, spoilt)
    BY Zenon DEF ReaderOK
  <2> QED
    BY <1>1, <2>1
<1>2. CASE w.index # 0
  <2>1. w.index = 1 /\ Delimits(p)
    BY <1>2 DEF Writers
  <2>2. PICK c : c = Content(w, v)
    OBVIOUS
  <2>3. w.open
    BY <1>2, Zenon DEF WriterOK
  <2>4. FrameOK(c, w, p, FALSE, q, s, 0, spoilt)
    BY <2>2, <2>3, Zenon DEF WriterOK, FrameOK
  <2>5. PICK d, t : d = v.pes /\ t = w.pending
    OBVIOUS
  <2>6. d \in Seq(Cells) /\ d # <<>> /\ t \in Seq(Cells) /\ c = d \o t
    BY <2>1, <2>2, <2>5 DEF Content, Readers, Writers
  <2>7. /\ Len(c) = Len(d) + Len(t) /\ c[1] = d[1] /\ \A i \in 1..Len(d) : c[i] = d[i]
        /\ Len(d) \in Nat /\ Len(t) \in Nat
    BY <2>6, Joined
  <2>8. CASE c[1].frame \in spoilt
    BY <2>5, <2>7, <2>8 DEF Good
  <2>9. ~Going(c, w, p, FALSE, q, s, 0) /\ ~Stalled(FALSE, q, 0)
    BY <2>1 DEF Going, Stalled
  <2>10. CASE Done(c, w, p, FALSE, q, s, spoilt)
    <3>1. PICK k \in 2..Len(c) : Whole(c, k, spoilt) /\ Len(t) <= Len(c) - k
      BY <2>5, <2>10 DEF Done
    <3>2. k \in 2..Len(d)
      BY <2>7, <3>1
    <3>3. \A i \in 1..k : c[i] = d[i]
      BY <2>7, <3>2
    <3>4. HoldFrame(d, k)
      BY <3>1, <3>2, <3>3, SameFrame DEF Whole
    <3>5. TailFrom(d, k, spoilt)
      <4>1. SUFFICES ASSUME k < Len(d)
            PROVE  d[k + 1].frame \in spoilt /\ d[k + 1].frame >= d[1].frame
        BY DEF TailFrom
      <4>2. k < Len(c) /\ k + 1 \in 1..Len(d)
        BY <2>7, <3>2, <4>1
      <4>3. c[k + 1] = d[k + 1] /\ c[1] = d[1]
        BY <2>7, <4>2
      <4>4. c[k + 1].frame \in spoilt /\ c[k + 1].frame >= c[1].frame
        BY <3>1, <4>2 DEF Whole, TailFrom
      <4> QED
        BY <4>3, <4>4
    <3> QED
      BY <2>5, <3>2, <3>4, <3>5 DEF Good, Whole
  <2> QED
    BY <2>4, <2>8, <2>9, <2>10 DEF FrameOK
<1> QED
  BY <1>1, <1>2

\* A delimiter begins a frame.
LEMMA BeginsFrame ==
  ASSUME TsOutputAssumption, NEW p \in Parts, Delimits(p),
         NEW c, c = <<Header(p), p>>, NEW u, NEW b, b = 0 \/ u.index = 0,
         NEW q, q = [left |-> 0, timed |-> TRUE, slices |-> 0],
         NEW s, s = StateAfter(Indicator(p))
  PROVE  Going(c, u, Following(p), FALSE, q, s, b)
<1>1. PICK t : t = Following(p)
  OBVIOUS
<1>2. SentOf(c, t) /\ t \in Parts /\ ~Delimits(t) /\ t.part = 1 /\ t.nal = 2
  BY <1>1, SentFirst
<1>3. t # None
  BY <1>2, PartFacts
<1>4. s = "NotStarted"
  BY PartFacts DEF StateAfter, Ends, Indicator
<1>5. q.timed /\ q.left = 0 /\ q.slices = 0
  OBVIOUS
<1>6. SlicesAt(t) = Slices(1)
  BY <1>2 DEF SlicesAt
<1>7. Cardinality(Slices(1)) = 0
  <2>1. 1 \in 1..Len(Shape)
    BY ShapeFacts
  <2> QED
    BY <2>1, SlicesCounted
<1>8. Counted(q, t)
  BY <1>5, <1>6, <1>7 DEF Counted, TsOutputAssumption
<1>9. AtPart(q, t)
  BY <1>2, <1>5 DEF AtPart
<1>10. InSync(q, s, t)
  BY <1>2, <1>4, <1>8, <1>9 DEF InSync
<1> QED
  BY <1>1, <1>2, <1>3, <1>10 DEF Going


\* A writer that has no more waiting than one part before, and nothing after the last;
\* it has begun none of the packets of the PES packet if it had not before and no
\* value of the counter is missing.
Moves(w, u, last, b, b2) ==
  /\ Len(w.pending) \in Nat /\ Len(u.pending) \in Nat
  /\ Len(u.pending) <= Len(w.pending) + 1
  /\ last => Len(u.pending) = 0
  /\ b = 0 \/ w.index = 0 => b2 = 0 \/ u.index = 0

\* A part that is none of a delimiter goes to the frame that the writer is at.
LEMMA GoesOn ==
  ASSUME TsOutputAssumption, NEW p \in Parts, NEW q \in Procs, q.timed,
         NEW c \in SomeCells, NEW w, NEW s, NEW b, NEW spoilt,
         FrameOK(c, w, p, FALSE, q, s, b, spoilt), Past(c[1].frame, p),
         NEW known \in BOOLEAN, NEW r, r = Process(q, p, known),
         ~Delimits(p) \/ q.left # 0, r.passed,
         NEW d, d = Append(c, p), NEW u, NEW b2, Moves(w, u, r.last, b, b2),
         NEW s2, s2 = StateAfter(Indicator(p))
  PROVE  FrameOK(d, u, Following(p), FALSE, r.proc, s2, b2, spoilt)
<1>1. /\ Len(c) \in Nat \ {0} /\ c \in Seq(Cells)
      /\ \A i \in 1..Len(c) : c[i].frame \in Nat
  BY FramesOfCells
<1>2. p \in Cells /\ p # None /\ p.frame \in Nat
  BY PartFacts
<1>3. /\ Len(d) = Len(c) + 1 /\ d[Len(c) + 1] = p /\ \A i \in 1..Len(c) : d[i] = c[i]
  BY <1>1, <1>2, AppendProperties
<1>4. d[1] = c[1]
  BY <1>1, <1>3
<1>5. CASE c[1].frame \in spoilt
  BY <1>4, <1>5 DEF FrameOK
<1>6. CASE Going(c, w, p, FALSE, q, s, b)
  <2>1. /\ ~Delimits(p) /\ SentOf(c, p) /\ AtPart(q, p) /\ Counted(q, p)
        /\ b = 0 \/ w.index = 0
    BY <1>6 DEF Going, InSync
  <2>2. /\ p = LastPart(p.frame) => r.last /\ r.proc.left = 0
        /\ \A t : Continues(p, t) => AtPart(r.proc, t) /\ Counted(r.proc, t)
    BY <2>1, ProcessInSync
  <2>3. p.part \in Nat \ {0} /\ p.of \in Nat \ {0} /\ p.part <= p.of
    BY PartFacts
  <2>4. CASE p # LastPart(p.frame)
    <3>1. PICK t : t = Following(p)
      OBVIOUS
    <3>2. Continues(p, t) /\ SentOf(d, t)
      BY <1>1, <2>1, <2>4, <3>1, SentMore
    <3>3. AtPart(r.proc, t) /\ Counted(r.proc, t)
      BY <2>2, <3>2
    <3>4. /\ t \in Parts /\ ~Delimits(t)
          /\ \/ p.part < p.of /\ t.part = p.part + 1
             \/ p.part = p.of /\ t.part = 1
      BY <3>2 DEF Continues
    <3>5. s2 = IF t.part = 1 THEN "NotStarted" ELSE "InFragment"
      <4>1. CASE p.part = p.of
        <5>1. t.part = 1
          BY <2>3, <3>4, <4>1
        <5>2. Ends(Indicator(p))
          BY <2>3, <4>1 DEF Ends, Indicator
        <5> QED
          BY <5>1, <5>2 DEF StateAfter
      <4>2. CASE p.part # p.of
        <5>1. t.part # 1 /\ p.of # 1
          BY <2>3, <3>4, <4>2
        <5>2. ~Ends(Indicator(p))
          BY <2>3, <4>2, <5>1 DEF Ends, Indicator
        <5> QED
          BY <5>1, <5>2 DEF StateAfter
      <4> QED
        BY <4>1, <4>2
    <3>6. InSync(r.proc, s2, t)
      BY <3>3, <3>5 DEF InSync
    <3>7. b2 = 0 \/ u.index = 0
      BY <2>1 DEF Moves
    <3>8. t # None
      BY <3>4, PartFacts
    <3>9. Going(d, u, t, FALSE, r.proc, s2, b2)
      BY <3>2, <3>4, <3>6, <3>7, <3>8 DEF Going
    <3> QED
      BY <3>1, <3>9 DEF FrameOK
  <2>5. CASE p = LastPart(p.frame)
    <3>1. HoldFrame(d, Len(d))
      BY <1>1, <2>1, <2>5, SentMore
    <3>2. Len(d) >= 2 /\ Len(d) \in Nat
      BY <1>1, <1>3, <3>1 DEF HoldFrame
    <3>3. Whole(d, Len(d), spoilt)
      BY <3>1, <3>2 DEF Whole, TailFrom
    <3>4. Len(u.pending) <= Len(d) - Len(d)
      BY <2>2, <2>5, <3>2 DEF Moves
    <3>5. p.part = p.of
      BY <2>5 DEF LastPart
    <3>6. s2 = "NotStarted"
      BY <2>3, <3>5 DEF StateAfter, Ends, Indicator
    <3>7. Following(p) = None \/ Delimits(Following(p))
      BY <2>5, FollowingPart
    <3>8. Ready(r.proc, s2, Following(p), spoilt)
      BY <2>2, <2>5, <3>6, <3>7 DEF Ready
    <3>9. Done(d, u, Following(p), FALSE, r.proc, s2, spoilt)
      <4>1. Len(d) \in 2..Len(d)
        BY <3>2
      <4> QED
        BY <3>3, <3>4, <3>8, <4>1 DEF Done
    <3> QED
      BY <3>9 DEF FrameOK
  <2> QED
    BY <2>4, <2>5
<1>7. ~Stalled(FALSE, q, b)
  BY DEF Stalled
<1>8. CASE Done(c, w, p, FALSE, q, s, spoilt)
  <2>1. PICK k \in 2..Len(c) :
          /\ Whole(c, k, spoilt) /\ Len(w.pending) <= Len(c) - k
          /\ k = Len(c) /\ q.timed => Ready(q, s, p, spoilt)
    BY <1>8 DEF Done
  <2>2. \A i \in 1..k : c[i] = d[i]
    BY <1>1, <1>3, <2>1
  <2>3. HoldFrame(d, k)
    <3>1. HoldFrame(c, k) /\ k \in Nat /\ k >= 2
      BY <1>1, <2>1 DEF Whole
    <3> QED
      BY <2>2, <3>1, SameFrame
  <2>4. d[k + 1].frame \in spoilt /\ d[k + 1].frame >= d[1].frame
    <3>1. CASE k < Len(c)
      <4>1. c[k + 1].frame \in spoilt /\ c[k + 1].frame >= c[1].frame
        BY <2>1, <3>1 DEF Whole, TailFrom
      <4>2. k + 1 \in 1..Len(c)
        BY <1>1, <2>1, <3>1
      <4>3. d[k + 1] = c[k + 1]
        BY <1>3, <4>2
      <4> QED
        BY <1>4, <4>1, <4>3
    <3>2. CASE k = Len(c)
      <4>1. Ready(q, s, p, spoilt)
        BY <2>1, <3>2
      <4>2. p.frame \in spoilt
        BY <1>2, <4>1 DEF Ready
      <4>3. c[1].frame <= p.frame
        BY <1>1, PastStays
      <4>4. d[k + 1] = p
        BY <1>3, <3>2
      <4> QED
        BY <1>1, <1>2, <1>4, <4>2, <4>3, <4>4
    <3> QED
      BY <1>1, <2>1, <3>1, <3>2
  <2>5. Whole(d, k, spoilt)
    BY <2>3, <2>4 DEF Whole, TailFrom
  <2>6. Len(u.pending) <= Len(d) - k /\ k \in 2..Len(d) /\ k # Len(d)
    BY <1>1, <1>3, <2>1 DEF Moves
  <2>7. Done(d, u, Following(p), FALSE, r.proc, s2, spoilt)
    BY <2>5, <2>6 DEF Done
  <2> QED
    BY <2>7 DEF FrameOK
<1> QED
  BY <1>5, <1>6, <1>7, <1>8 DEF FrameOK


\* A processor that was reset has no unit and waits for a delimiter.
LEMMA ClearedIsProc == TsOutputAssumption => Cleared \in Procs /\ ~Cleared.timed
BY DEF TsOutputAssumption, Cleared, Procs

\* What holds when a part arrives.
Arrives(w, v, p, m, q, s, b, spoilt, l) ==
  /\ w \in Writers /\ v \in Readers /\ p \in Parts /\ m \in BOOLEAN /\ q \in Procs
  /\ b \in 0..CcModulus /\ spoilt \in SUBSET Nat /\ l \in Nat \cup {None}
  /\ Sound(w, v, p, m, q, s, b, spoilt, l) /\ Len(w.pending) < PacketCells
  /\ (q.timed => w.open) /\ \A t \in spoilt : Past(t, p)

\* And after it was passed on: the PES packet that is closed is good if it is not
\* reported as damaged, and is not so reported if nothing went wrong since it began.
Passed(u, x, t, q, s, b, spoilt, quiet, pes) ==
  /\ Sound(u, x, t, FALSE, q, s, b, spoilt, quiet)
  /\ pes # None =>
       /\ ~pes.damaged => Good(pes.cells, spoilt)
       /\ quiet # None /\ quiet <= pes.cells[1].frame =>
            ~pes.damaged /\ \A a \in spoilt : a < pes.cells[1].frame

\* The invariant after a part that is passed on.
LEMMA PassedSound ==
  ASSUME TsOutputAssumption, NEW w0, NEW v, NEW p, NEW m, NEW q0, NEW s0, NEW b0, NEW spoilt, NEW l,
         Arrives(w0, v, p, m, q0, s0, b0, spoilt, l),
         NEW w, w = (IF m THEN Skipped(w0) ELSE w0),
         NEW b, b = (IF m /\ b0 < CcModulus THEN b0 + 1 ELSE b0),
         NEW q, q = (IF m THEN Cleared ELSE q0),
         NEW known \in BOOLEAN, NEW r, r = Process(q, p, known), r.passed,
         NEW out, out = Written(w, p, r.first, r.last),
         NEW read, read = AllVerified(v, out.packets),
         NEW some \in BOOLEAN, some <=> out.packets # <<>>,
         ~(some /\ v.cc # None /\ b >= CcModulus - 1),
         NEW quiet, quiet = (IF l # None /\ ~m THEN l ELSE IF r.first THEN p.frame ELSE None),
         NEW b2, b2 = (IF some THEN 0 ELSE b), NEW s2, s2 = StateAfter(Indicator(p))
  PROVE  Passed(out.writer, read.pid, Following(p), r.proc, s2, b2, spoilt, quiet, read.closed)
<1>0. /\ w0 \in Writers /\ v \in Readers /\ p \in Parts /\ m \in BOOLEAN /\ q0 \in Procs
      /\ b0 \in 0..CcModulus /\ spoilt \in SUBSET Nat /\ l \in Nat \cup {None}
      /\ Sound(w0, v, p, m, q0, s0, b0, spoilt, l) /\ Len(w0.pending) < PacketCells
      /\ (q0.timed => w0.open) /\ \A t \in spoilt : Past(t, p)
  BY Zenon DEF Arrives
<1> USE <1>0
<1>s. PICK s : s = IF m THEN "NotStarted" ELSE s0
  OBVIOUS
<1> USE <1>s
<1>1. /\ WriterOK(w0, v, p, m, q0, s0, b0, spoilt) /\ CountersAgree(w0, v, b0)
      /\ ReaderOK(w0, v, p, m, q0, b0, spoilt) /\ CalmOK(v, p, m, b0, spoilt, l)
  BY Zenon DEF Sound
<1>2. /\ w \in Writers /\ w.open = w0.open /\ w.pending = w0.pending /\ w.index = w0.index
      /\ b \in 0..CcModulus /\ b >= b0 /\ (m => b > 0) /\ (~m => w = w0 /\ b = b0)
      /\ CountersAgree(w, v, b)
  BY <1>1, Noticed
<1>3. q \in Procs /\ (q.timed => ~m)
  BY ClearedIsProc
<1>4. PICK first, last : first = r.first /\ last = r.last
  OBVIOUS
<1>5. /\ r.proc \in Procs /\ r.proc.timed /\ first \in BOOLEAN /\ last \in BOOLEAN
      /\ first => /\ Delimits(p) /\ q.left = 0 /\ ~last
                  /\ r.proc = [left |-> 0, timed |-> TRUE, slices |-> 0]
      /\ ~first => q.timed
      /\ ~first /\ Delimits(p) => q.left # 0
  BY <1>3, <1>4, ProcessPasses
<1>6. ~first => ~m /\ q = q0 /\ s = s0 /\ w = w0 /\ b = b0 /\ w0.open /\ q0.timed
  BY <1>2, <1>3, <1>5
<1>7. /\ ~v.duplicate /\ ~v.damaged /\ (v.cc = None <=> v.pes = None)
      /\ v.pes # None => Past(v.pes[1].frame, p) /\ (w0.index = 0 => b0 > 0 \/ Good(v.pes, spoilt))
      /\ b0 > 0 /\ ~m /\ q0.timed => w0.index = 0
  BY <1>1, Zenon DEF ReaderOK
<1>8. v.pes # None => v.pes \in SomeCells /\ v.pes[1].frame \in Nat
  BY FrameInPes
<1>9. p.frame \in Nat /\ p # None /\ CcModulus \in Nat \ {0, 1} /\ w.index \in {0, 1}
  BY <1>2, PartFacts DEF TsOutputAssumption, Writers
<1>10. PICK c : c = Content(w, v)
  OBVIOUS
<1>11. ASSUME ~first
       PROVE  /\ IF w.index = 1 THEN v.pes # None ELSE w.pending # <<>>
              /\ Past(c[1].frame, p) /\ FrameOK(c, w, p, FALSE, q, s, b, spoilt)
              /\ c \in SomeCells /\ c[1].frame \in Nat
  <2>1. WriterOK(w, v, p, FALSE, q, s, b, spoilt) /\ w.open
    <3>1. PICK no : no = FALSE
      OBVIOUS
    <3>2. m = no
      BY <1>6, <1>11, <3>1
    <3> QED
      BY <1>1, <1>6, <1>11, <3>1, <3>2, Zenon
  <2>2. /\ IF w.index = 1 THEN v.pes # None ELSE w.pending # <<>>
        /\ Past(c[1].frame, p) /\ FrameOK(c, w, p, FALSE, q, s, b, spoilt)
    BY <1>10, <2>1, Zenon DEF WriterOK, FrameOK
  <2>3. c \in SomeCells /\ c[1].frame \in Nat
    BY <1>2, <1>10, <2>2, FirstCell
  <2> QED
    BY <2>2, <2>3, Zenon
<1>12. ~first /\ w.index = 1 => b = 0
  BY <1>2, <1>6, <1>7
<1>13. PICK broken \in BOOLEAN : broken <=> v.cc # None /\ w.cc # (v.cc + 1) % CcModulus
  OBVIOUS
<1>14. /\ some => w.cc # v.cc
       /\ some /\ v.cc # None => (broken <=> b > 0)
       /\ b = 0 => ~broken
  BY <1>2, <1>13, CountersTell
<1>15. PICK u, x, closed_ : u = out.writer /\ x = read.pid /\ closed_ = read.closed
  OBVIOUS
<1>16. Readable(w, v, p, first, last, broken, out)
  <2>1. w \in Writers /\ Len(w.pending) < PacketCells /\ (~first => w.open)
    BY <1>2, <1>6
  <2>2. first => ~last
    BY <1>5
  <2>3. ~first /\ w.index = 1 => v.pes # None /\ ~broken
    BY <1>11, <1>12, <1>14
  <2>4. out.packets # <<>> => w.cc # v.cc
    BY <1>14
  <2> QED
    BY <1>5, <1>7, <1>13, <2>1, <2>2, <2>3, <2>4, Zenon DEF Readable
<1>17. out = Written(w, p, first, last)
  BY <1>4
<1>18. Outcome(w, v, p, first, last, broken, u, x, closed_, some)
  <2>1. ~first => IF w.index = 1 THEN v.pes # None ELSE w.pending # <<>>
    BY <1>11, Zenon
  <2>2. Outcome(w, v, p, first, last, broken, out.writer, read.pid, read.closed, some)
    BY <1>16, <1>17, <2>1, OutcomeIs, Zenon
  <2> QED
    BY <1>15, <2>2, Zenon
<1>19. /\ u \in Writers /\ x \in Readers
       /\ Len(w.pending) \in Nat /\ Len(u.pending) \in Nat /\ u.index \in {0, 1}
  <2>1. /\ w \in Writers /\ first \in BOOLEAN /\ last \in BOOLEAN
        /\ Len(w.pending) < PacketCells /\ (first => ~last) /\ (~first => w.open)
    BY <1>16, Zenon DEF Readable
  <2>2. u \in Writers /\ x \in Readers
    BY <1>15, <1>17, <2>1, ReadTyped
  <2> QED
    BY <1>2, <2>2 DEF Writers
<1>20. /\ u.open
       /\ Content(u, x) = IF first THEN <<Header(p), p>> ELSE Append(c, p)
       /\ IF u.index = 1 THEN x.pes # None ELSE u.pending # <<>>
       /\ last => u.pending = <<>>
       /\ ~first => Len(u.pending) <= Len(w.pending) + 1
       /\ ~x.duplicate /\ ~x.damaged
  BY <1>10, <1>18, Zenon DEF Outcome
<1>21. /\ ~some => /\ x = v /\ u.cc = w.cc /\ closed_ = None
                   /\ u.index = IF first THEN 0 ELSE w.index
       /\ some => /\ u.index = 1 /\ x.cc # None /\ x.pes # None
                  /\ x.cc \in 0..(CcModulus - 1) /\ u.cc = (x.cc + 1) % CcModulus
       /\ closed_ # None => /\ some /\ (first \/ w.index = 0) /\ v.pes # None
                            /\ closed_.cells = v.pes /\ closed_.damaged = broken
  BY <1>18, Zenon DEF Outcome
<1>22. PICK d, t : d = Content(u, x) /\ t = Following(p)
  OBVIOUS
<1>23. /\ d \in SomeCells /\ d[1].frame \in Nat /\ (u.index = 1 => d[1] = x.pes[1])
  BY <1>19, <1>20, <1>22, FirstCell
<1>24. Past(d[1].frame, t)
  <2>1. CASE first
    <3>1. d[1] = Header(p)
      BY <1>20, <1>22, <2>1
    <3>2. d[1].frame = p.frame
      BY <3>1 DEF Header
    <3> QED
      BY <1>22, <3>2, PastItself
  <2>2. CASE ~first
    <3>1. /\ Past(c[1].frame, p) /\ c \in SomeCells /\ c[1].frame \in Nat
      BY <1>11, <2>2
    <3>2. d = Append(c, p)
      BY <1>20, <1>22, <2>2
    <3>3. Len(c) \in Nat \ {0} /\ c \in Seq(Cells) /\ p \in Cells
      BY <3>1, FramesOfCells, PartFacts
    <3>4. d[1] = c[1]
      BY <3>2, <3>3, AppendProperties
    <3> QED
      BY <1>22, <3>1, <3>4, PastStays
  <2> QED
    BY <1>5, <2>1, <2>2
<1>25. FrameOK(d, u, t, FALSE, r.proc, s2, b2, spoilt)
  <2>1. CASE first
    <3>1. d = <<Header(p), p>>
      BY <1>20, <1>22, <2>1
    <3>2. b2 = 0 \/ u.index = 0
      BY <1>21, <2>1
    <3>3. Going(d, u, t, FALSE, r.proc, s2, b2)
      BY <1>5, <1>22, <2>1, <3>1, <3>2, BeginsFrame
    <3> QED
      BY <3>3 DEF FrameOK
  <2>2. CASE ~first
    <3>1. /\ Past(c[1].frame, p) /\ FrameOK(c, w, p, FALSE, q, s, b, spoilt) /\ c \in SomeCells
      BY <1>11, <2>2
    <3>2. d = Append(c, p) /\ q.timed /\ (~Delimits(p) \/ q.left # 0)
      BY <1>5, <1>20, <1>22, <2>2
    <3>3. r.last => Len(u.pending) = 0
      BY <1>4, <1>20
    <3>4. b = 0 \/ w.index = 0 => b2 = 0 \/ u.index = 0
      BY <1>21, <2>2
    <3>5. Moves(w, u, r.last, b, b2)
      BY <1>19, <1>20, <2>2, <3>3, <3>4 DEF Moves
    <3> QED
      BY <1>3, <1>22, <3>1, <3>2, <3>5, GoesOn
  <2> QED
    BY <1>5, <2>1, <2>2
<1>26. WriterOK(u, x, t, FALSE, r.proc, s2, b2, spoilt)
  BY <1>20, <1>22, <1>24, <1>25, Zenon DEF WriterOK, FrameOK
<1>27. CountersAgree(u, x, b2)
  <2>1. CASE some
    <3>1. x.cc \in 0..(CcModulus - 1) /\ u.cc = (x.cc + 1) % CcModulus /\ b2 = 0
      BY <1>21, <2>1
    <3>2. u.cc = x.cc + 1 \/ u.cc = x.cc + 1 - CcModulus
      <4>1. CASE x.cc + 1 < CcModulus
        BY <1>9, <3>1, <4>1, Divided
      <4>2. CASE x.cc + 1 = CcModulus
        <5>1. PICK n : n = x.cc + 1
          OBVIOUS
        <5>2. n \in Nat /\ n = CcModulus /\ u.cc = n % CcModulus
          BY <1>9, <3>1, <4>2, <5>1
        <5>3. u.cc = 0
          BY <1>9, <5>2, Divided
        <5> QED
          BY <1>9, <3>1, <5>1, <5>2, <5>3
      <4> QED
        BY <1>9, <3>1, <4>1, <4>2
    <3>3. u.cc = x.cc + 1 + 0 \/ u.cc = x.cc + 1 + 0 - CcModulus
      BY <1>9, <3>1, <3>2
    <3> QED
      BY <3>1, <3>3 DEF CountersAgree
  <2>2. CASE ~some
    BY <1>2, <1>21, <2>2 DEF CountersAgree
  <2> QED
    BY <2>1, <2>2
<1>28. b = 0 /\ v.pes # None /\ (first \/ w.index = 0) => Good(v.pes, spoilt)
  <2>1. SUFFICES ASSUME b = 0, v.pes # None, first \/ w.index = 0 PROVE Good(v.pes, spoilt)
    OBVIOUS
  <2>2. ~m /\ w = w0 /\ b0 = 0
    BY <1>2, <2>1
  <2>3. PICK no, zero : no = FALSE /\ zero = 0
    OBVIOUS
  <2>4. m = no /\ b0 = zero
    BY <2>2, <2>3
  <2>5. WriterOK(w, v, p, FALSE, q0, s0, 0, spoilt) /\ ReaderOK(w, v, p, FALSE, q0, 0, spoilt)
    BY <1>1, <2>2, <2>3, <2>4, Zenon
  <2>6. Delimits(p) \/ w.index = 0
    BY <1>5, <2>1
  <2> QED
    BY <1>2, <2>1, <2>5, <2>6, PesIsGood
<1>29. ReaderOK(u, x, t, FALSE, r.proc, b2, spoilt)
  <2>1. x.cc = None <=> x.pes = None
    BY <1>7, <1>21
  <2>2. x.pes # None => Past(x.pes[1].frame, t)
    <3>1. CASE some
      BY <1>21, <1>23, <1>24, <3>1
    <3>2. CASE ~some
      BY <1>7, <1>8, <1>21, <1>22, <3>2, PastStays
    <3> QED
      BY <3>1, <3>2
  <2>3. x.pes # None /\ u.index = 0 => b2 > 0 \/ Good(x.pes, spoilt)
    <3>1. SUFFICES ASSUME x.pes # None, u.index = 0 PROVE b2 > 0 \/ Good(x.pes, spoilt)
      OBVIOUS
    <3>2. ~some /\ x = v /\ b2 = b /\ (first \/ w.index = 0)
      BY <1>21, <3>1
    <3> QED
      BY <1>2, <1>28, <3>1, <3>2
  <2>4. b2 > 0 => u.index = 0
    <3>1. SUFFICES ASSUME b2 > 0, ~first PROVE u.index = 0
      BY <1>5, <1>21
    <3>2. ~some /\ b2 = b
      BY <3>1
    <3> QED
      BY <1>9, <1>12, <1>21, <3>1, <3>2
  <2> QED
    BY <1>20, <2>1, <2>2, <2>3, <2>4 DEF ReaderOK
<1>30. ASSUME l # None, ~m
       PROVE  /\ CalmOK(x, t, FALSE, b2, spoilt, quiet)
              /\ closed_ # None /\ quiet <= closed_.cells[1].frame =>
                   ~closed_.damaged /\ \A a \in spoilt : a < closed_.cells[1].frame
  <2>1. /\ quiet = l /\ l \in Nat /\ (\A a \in spoilt : a < l) /\ l <= p.frame
        /\ v.pes # None /\ v.pes[1].frame >= l => b = 0
    BY <1>1, <1>2, <1>9, <1>30 DEF CalmOK
  <2>2. t # None => t.frame >= p.frame /\ t.frame \in Nat
    <3>1. t # None => t \in Parts /\ (t.frame = p.frame \/ t.frame = p.frame + 1)
      BY <1>22, FollowingPart DEF Continues
    <3> QED
      BY <1>9, <3>1
  <2>3. x.pes # None /\ x.pes[1].frame >= l => b2 = 0
    BY <1>21, <2>1
  <2>4. CalmOK(x, t, FALSE, b2, spoilt, quiet)
    BY <1>9, <2>1, <2>2, <2>3 DEF CalmOK
  <2>5. ASSUME closed_ # None, quiet <= closed_.cells[1].frame
        PROVE  ~closed_.damaged /\ \A a \in spoilt : a < closed_.cells[1].frame
    <3>1. some /\ v.pes # None /\ closed_.cells = v.pes /\ closed_.damaged = broken
      BY <1>21, <2>5
    <3>2. v.pes[1].frame \in Nat /\ l <= v.pes[1].frame
      BY <1>8, <2>1, <2>5, <3>1
    <3>3. b = 0
      BY <2>1, <3>1, <3>2
    <3> QED
      BY <1>14, <2>1, <3>1, <3>2, <3>3
  <2> QED
    BY <2>4, <2>5
<1>31. ASSUME ~(l # None /\ ~m)
       PROVE  /\ CalmOK(x, t, FALSE, b2, spoilt, quiet)
              /\ ~(closed_ # None /\ quiet # None /\ quiet <= closed_.cells[1].frame)
  <2>1. CASE ~first
    <3>1. quiet = None
      BY <1>4, <1>31, <2>1
    <3> QED
      BY <3>1 DEF CalmOK
  <2>2. CASE first
    <3>1. quiet = p.frame /\ Delimits(p)
      BY <1>4, <1>5, <1>31, <2>2
    <3>2. \A a \in spoilt : a < p.frame
      BY <3>1, PastStays
    <3>3. v.pes # None => v.pes[1].frame < p.frame
      BY <1>7, <1>8, <3>1, PastStays
    <3>4. x.pes # None /\ x.pes[1].frame >= quiet => b2 = 0
      BY <1>8, <1>9, <1>21, <3>1, <3>3
    <3>5. t # None => quiet <= t.frame
      <4>1. t # None => t \in Parts /\ (t.frame = p.frame \/ t.frame = p.frame + 1)
        BY <1>22, FollowingPart DEF Continues
      <4> QED
        BY <1>9, <3>1, <4>1
    <3>6. CalmOK(x, t, FALSE, b2, spoilt, quiet)
      BY <3>1, <3>2, <3>4, <3>5 DEF CalmOK
    <3>7. ~(closed_ # None /\ quiet # None /\ quiet <= closed_.cells[1].frame)
      BY <1>8, <1>9, <1>21, <3>1, <3>3
    <3> QED
      BY <3>6, <3>7
  <2> QED
    BY <1>5, <2>1, <2>2
<1>32. Sound(u, x, t, FALSE, r.proc, s2, b2, spoilt, quiet)
  BY <1>26, <1>27, <1>29, <1>30, <1>31, Zenon DEF Sound
<1>33. closed_ # None =>
         /\ ~closed_.damaged => Good(closed_.cells, spoilt)
         /\ quiet # None /\ quiet <= closed_.cells[1].frame =>
              ~closed_.damaged /\ \A a \in spoilt : a < closed_.cells[1].frame
  <2>1. SUFFICES ASSUME closed_ # None, ~closed_.damaged PROVE Good(closed_.cells, spoilt)
    BY <1>30, <1>31
  <2>2. some /\ (first \/ w.index = 0) /\ v.pes # None /\ closed_.cells = v.pes /\ ~broken
    BY <1>21, <2>1
  <2>3. ~(b > 0)
    BY <1>7, <1>14, <2>2
  <2>4. b = 0
    BY <1>2, <1>9, <2>3
  <2> QED
    BY <1>28, <2>2, <2>4
<1> QED
  BY <1>15, <1>22, <1>32, <1>33, Zenon DEF Passed

-----------------------------------------------------------------------------
(* The invariant.                                                          *)

\* The inductive invariant: types, how full a packet may be, and, unless the counter
\* came round, that writer, verifier and processor agree on what was lost.
VideoInv ==
  /\ TypeOK /\ Len(writer.pending) < PacketCells /\ (proc.timed => writer.open)
  /\ \A t \in tainted : Past(t, air)
  /\ ~masked => Sound(writer, reader, air, missed, proc, state, bumps, tainted, calm)
  /\ LossIsReported /\ NothingElseIsReported

\* The types, one by one.
LEMMA VideoTypes ==
  ASSUME TsOutputAssumption, TypeOK
  PROVE  /\ air # None => air \in Parts
         /\ missed \in BOOLEAN /\ state \in States /\ proc \in Procs /\ writer \in Writers
         /\ reader \in Readers /\ closed \in Closed \cup {None} /\ bumps \in 0..CcModulus
         /\ masked \in BOOLEAN /\ tainted \in SUBSET (1..MaxFrames) /\ tainted \in SUBSET Nat
         /\ calm \in 1..MaxFrames \cup {None} /\ calm \in Nat \cup {None}
         /\ CcModulus \in Nat \ {0, 1} /\ MaxFrames \in Nat
BY DEF TypeOK, TsOutputAssumption

\* The invariant holds initially.
LEMMA VideoBegins ==
  ASSUME TsOutputAssumption, Init
  PROVE  VideoInv
<1>1. air \in Parts
  <2>1. 1 \in 1..MaxFrames /\ 1 \in 1..Len(Shape)
    BY ShapeFacts DEF TsOutputAssumption
  <2> QED
    BY <2>1, FirstParts DEF Init
<1>2. /\ missed = FALSE /\ state = "Init" /\ proc = Cleared
      /\ writer = [open |-> FALSE, pending |-> <<>>, index |-> 0, cc |-> 0]
      /\ reader = [cc |-> None, duplicate |-> FALSE, pes |-> None, damaged |-> FALSE]
      /\ closed = None /\ bumps = 0 /\ masked = FALSE /\ tainted = {} /\ calm = None
  BY DEF Init
<1>3. /\ CcModulus \in Nat \ {0, 1} /\ PacketCells \in Nat \ {0} /\ None \notin Nat
  BY DEF TsOutputAssumption
<1>4. proc \in Procs /\ ~proc.timed
  BY <1>2, ClearedIsProc
<1>5. writer \in Writers /\ Len(writer.pending) = 0
  BY <1>2, <1>3 DEF Writers
<1>6. reader \in Readers
  BY <1>2 DEF Readers
<1>7. TypeOK
  <2>1. bumps \in 0..CcModulus /\ state \in States /\ tainted \subseteq 1..MaxFrames
    BY <1>2, <1>3 DEF States
  <2>2. missed \in BOOLEAN /\ masked \in BOOLEAN
    BY <1>2
  <2>3. closed \in Closed \cup {None} /\ calm \in 1..MaxFrames \cup {None}
    BY <1>2
  <2> QED
    BY <1>1, <1>4, <1>5, <1>6, <2>1, <2>2, <2>3, Zenon DEF TypeOK
<1>8. writer.open = FALSE /\ writer.index = 0 /\ reader.cc = None /\ reader.pes = None
      /\ reader.duplicate = FALSE /\ reader.damaged = FALSE
  BY <1>2
<1>9. WriterOK(writer, reader, air, missed, proc, state, bumps, tainted)
  BY <1>4, <1>8, Zenon DEF WriterOK
<1>10. CountersAgree(writer, reader, bumps)
  BY <1>8 DEF CountersAgree
<1>11. ReaderOK(writer, reader, air, missed, proc, bumps, tainted)
  BY <1>4, <1>8, Zenon DEF ReaderOK
<1>12. CalmOK(reader, air, missed, bumps, tainted, calm)
  BY <1>2 DEF CalmOK
<1> QED
  BY <1>2, <1>3, <1>4, <1>5, <1>7, <1>9, <1>10, <1>11, <1>12
  DEF VideoInv, Sound, LossIsReported, NothingElseIsReported

\* The broadcast goes on until its end.
LEMMA AirGoesOn ==
  ASSUME TsOutputAssumption, NEW p \in Parts
  PROVE  Following(p) \in Parts \cup {None}
BY FollowingPart DEF Continues

\* Where no PES packet ends nothing is reported.
LEMMA NothingClosed ==
  ASSUME closed = None PROVE LossIsReported /\ NothingElseIsReported
BY DEF LossIsReported, NothingElseIsReported

\* A loss preserves the invariant.
LEMMA VideoLost ==
  ASSUME TsOutputAssumption, VideoInv, Lose
  PROVE  VideoInv'
<1>1. /\ TypeOK /\ Len(writer.pending) < PacketCells /\ (proc.timed => writer.open)
      /\ \A t \in tainted : Past(t, air)
      /\ ~masked => Sound(writer, reader, air, missed, proc, state, bumps, tainted, calm)
  BY Zenon DEF VideoInv
<1>2. /\ air \in Parts /\ air' = Following(air) /\ missed' = TRUE /\ calm' = None /\ closed' = None
      /\ state' = state /\ proc' = proc /\ writer' = writer /\ reader' = reader
      /\ bumps' = bumps /\ masked' = masked /\ tainted' = tainted
  BY <1>1, VideoTypes DEF Lose, Broadcast
<1>3. air' \in Parts \cup {None}
  BY <1>2, AirGoesOn
<1>4. TypeOK'
  BY <1>1, <1>2, <1>3 DEF TypeOK
<1>5. \A t \in tainted : Past(t, Following(air))
  BY <1>1, <1>2, VideoTypes, PastStays
<1>6. ASSUME ~masked
      PROVE  Sound(writer, reader, Following(air), TRUE, proc, state, bumps, tainted, None)
  BY <1>1, <1>2, <1>6, VideoTypes, LostSound
<1>7. (LossIsReported /\ NothingElseIsReported)'
  BY <1>2, NothingClosed DEF LossIsReported, NothingElseIsReported
<1>8. ~masked' => Sound(writer, reader, air, missed, proc, state, bumps, tainted, calm)'
  BY <1>2, <1>6 DEF Sound, WriterOK, CountersAgree, ReaderOK, CalmOK
<1> QED
  BY <1>1, <1>2, <1>4, <1>5, <1>7, <1>8 DEF VideoInv


\* The writer, the processor, the assembler and the count of what was skipped after a
\* loss has been noticed.
LEMMA NoticedWriter ==
  ASSUME TsOutputAssumption, NEW w \in Writers, NEW m \in BOOLEAN,
         NEW u, u = IF m THEN Skipped(w) ELSE w
  PROVE  u \in Writers /\ u.pending = w.pending /\ u.open = w.open
<1>1. CASE m
  <2>1. PICK c : c = (w.cc + 1) % CcModulus
    OBVIOUS
  <2>2. c \in 0..(CcModulus - 1)
    <3>1. w.cc \in Nat /\ CcModulus \in Nat \ {0, 1}
      BY DEF Writers, TsOutputAssumption
    <3> QED
      BY <2>1, <3>1
  <2>3. u = [w EXCEPT !.cc = c]
    BY <1>1, <2>1 DEF Skipped
  <2> QED
    BY <2>2, <2>3 DEF Writers
<1>2. CASE ~m
  BY <1>2
<1> QED
  BY <1>1, <1>2

LEMMA NoticedProc ==
  ASSUME TsOutputAssumption, NEW q \in Procs, NEW m \in BOOLEAN,
         NEW u, u = IF m THEN Cleared ELSE q
  PROVE  u \in Procs /\ (u.timed => ~m /\ q.timed)
BY ClearedIsProc

LEMMA NoticedState ==
  ASSUME NEW s \in States, NEW m
  PROVE  (IF m THEN "NotStarted" ELSE s) \in States
BY DEF States

LEMMA NoticedBumps ==
  ASSUME TsOutputAssumption, NEW m, NEW b \in 0..CcModulus
  PROVE  (IF m /\ b < CcModulus THEN b + 1 ELSE b) \in 0..CcModulus
<1>1. CcModulus \in Nat
  BY DEF TsOutputAssumption
<1> QED
  BY <1>1

\* So does a packet that cannot be decrypted,
LEMMA VideoUndecryptable ==
  ASSUME TsOutputAssumption, VideoInv, ReceiveUndecryptable
  PROVE  VideoInv'
<1>1. /\ TypeOK /\ Len(writer.pending) < PacketCells /\ (proc.timed => writer.open)
      /\ \A t \in tainted : Past(t, air)
      /\ ~masked => Sound(writer, reader, air, missed, proc, state, bumps, tainted, calm)
  BY Zenon DEF VideoInv
<1>2. /\ air \in Parts /\ air' = Following(air) /\ missed' = FALSE /\ calm' = None /\ closed' = None
      /\ state' = (IF missed THEN "NotStarted" ELSE state)
      /\ proc' = (IF missed THEN Cleared ELSE proc)
      /\ writer' = (IF missed THEN Skipped(writer) ELSE writer)
      /\ bumps' = (IF missed /\ bumps < CcModulus THEN bumps + 1 ELSE bumps)
      /\ tainted' = tainted \cup {air.frame}
      /\ reader' = reader /\ masked' = masked
  BY <1>1, VideoTypes DEF ReceiveUndecryptable, Broadcast, Notice
<1>3. air' \in Parts \cup {None} /\ air.frame \in 1..MaxFrames
  BY <1>2, AirGoesOn, PartFacts
<1>4. /\ missed \in BOOLEAN /\ state \in States /\ proc \in Procs /\ writer \in Writers
      /\ reader \in Readers /\ bumps \in 0..CcModulus /\ tainted \in SUBSET Nat
  BY <1>1, VideoTypes
<1>5. /\ writer' \in Writers /\ writer'.pending = writer.pending /\ writer'.open = writer.open
      /\ proc' \in Procs /\ (proc'.timed => ~missed /\ proc.timed)
      /\ state' \in States /\ bumps' \in 0..CcModulus
  <2>1. writer' \in Writers /\ writer'.pending = writer.pending /\ writer'.open = writer.open
    BY <1>2, <1>4, NoticedWriter, Zenon
  <2>2. proc' \in Procs /\ (proc'.timed => ~missed /\ proc.timed)
    BY <1>2, <1>4, NoticedProc, Zenon
  <2>3. state' \in States
    BY <1>2, <1>4, NoticedState, Zenon
  <2>4. bumps' \in 0..CcModulus
    BY <1>2, <1>4, NoticedBumps, Zenon
  <2> QED
    BY <2>1, <2>2, <2>3, <2>4, Zenon
<1>6. TypeOK'
  BY <1>1, <1>2, <1>3, <1>5 DEF TypeOK
<1>7. \A t \in tainted' : Past(t, Following(air))
  BY <1>1, <1>2, <1>4, PastStays, PastItself
<1>8. ASSUME ~masked
      PROVE  Sound(writer', reader, Following(air), FALSE, proc', state', bumps', tainted', None)
  <2>1. Sound(writer, reader, air, missed, proc, state, bumps, tainted, calm)
    BY <1>1, <1>8
  <2>2. PICK w2, b2, bad2, q2, s2 :
          w2 = writer' /\ b2 = bumps' /\ bad2 = tainted' /\ q2 = proc' /\ s2 = state'
    OBVIOUS
  <2>3. /\ q2 \in Procs /\ (q2.timed => ~missed /\ q2 = proc /\ s2 = state)
        /\ tainted \subseteq bad2 /\ air.frame \in bad2
        /\ w2 = (IF missed THEN Skipped(writer) ELSE writer)
        /\ b2 = (IF missed /\ bumps < CcModulus THEN bumps + 1 ELSE bumps)
    BY <1>2, <1>5, <2>2
  <2>4. Sound(w2, reader, Following(air), FALSE, q2, s2, b2, bad2, None)
    BY <1>2, <1>4, <2>1, <2>3, UnreadSound
  <2> QED
    BY <2>2, <2>4, Zenon
<1>9. (LossIsReported /\ NothingElseIsReported)'
  BY <1>2, NothingClosed DEF LossIsReported, NothingElseIsReported
<1>10. ~masked' => Sound(writer, reader, air, missed, proc, state, bumps, tainted, calm)'
  BY <1>2, <1>8 DEF Sound, WriterOK, CountersAgree, ReaderOK, CalmOK
<1> QED
  BY <1>1, <1>2, <1>5, <1>6, <1>7, <1>9, <1>10 DEF VideoInv


\* Why a part that belongs to the frame that the processor is in is not refused,
\* nor a delimiter between two units.
LEMMA RefusedWhy ==
  ASSUME TsOutputAssumption, NEW p \in Parts, NEW m \in BOOLEAN, NEW q \in Procs, NEW s,
         NEW known \in BOOLEAN, NEW r,
         r = Process(IF m THEN Cleared ELSE q, p, known),
         NEW s1, s1 = (IF m THEN "NotStarted" ELSE s), NEW fi, fi = Indicator(p),
         ~Accepts(s1, fi) \/ ~r.passed,
         NEW q2, q2 = (IF Accepts(s1, fi) THEN r.proc ELSE IF m THEN Cleared ELSE q),
         NEW s2, s2 = (IF Accepts(s1, fi) THEN "NotStarted" ELSE s1)
  PROVE  /\ q2 \in Procs /\ (q2.timed => ~m /\ q2 = q /\ s2 = s /\ q.timed)
         /\ ~(~Delimits(p) /\ ~m /\ InSync(q, s, p))
         /\ ~(Delimits(p) /\ q2.timed /\ s # "InFragment")
<1>1. Cleared \in Procs /\ ~Cleared.timed
  BY ClearedIsProc
<1>2. CASE Accepts(s1, fi)
  <2>1. ~r.passed /\ r.proc = Cleared
    BY <1>2, ProcessDrops
  <2>2. q2 = Cleared
    BY <1>2, <2>1
  <2>3. ASSUME ~Delimits(p), ~m, InSync(q, s, p) PROVE FALSE
    <3>1. AtPart(q, p) /\ Counted(q, p) /\ r = Process(q, p, known)
      BY <2>3 DEF InSync
    <3>2. r.passed
      BY <2>3, <3>1, ProcessInSync
    <3> QED
      BY <2>1, <3>2
  <2> QED
    BY <1>1, <2>2, <2>3
<1>3. CASE ~Accepts(s1, fi)
  <2>1. q2 = (IF m THEN Cleared ELSE q) /\ s2 = s1
    BY <1>3
  <2>2. q2 \in Procs /\ (q2.timed => ~m /\ q2 = q /\ s2 = s /\ q.timed)
    BY <1>1, <2>1
  <2>3. p.part \in Nat \ {0} /\ p.of \in Nat \ {0} /\ p.part <= p.of
    BY PartFacts
  <2>4. Begins(fi) <=> p.part = 1
    <3>1. CASE p.part = 1
      BY <3>1 DEF Begins, Indicator
    <3>2. CASE p.part # 1
      BY <2>3, <3>2 DEF Begins, Indicator
    <3> QED
      BY <3>1, <3>2
  <2>5. ~(p.part = 1 <=> s1 # "InFragment")
    BY <1>3, <2>4 DEF Accepts
  <2>6. ~(~Delimits(p) /\ ~m /\ InSync(q, s, p))
    BY <2>5 DEF InSync
  <2>7. ~(Delimits(p) /\ q2.timed /\ s # "InFragment")
    BY <2>2, <2>5, PartFacts
  <2> QED
    BY <2>2, <2>6, <2>7
<1> QED
  BY <1>2, <1>3

\* a packet that the assembler or the processor does not accept,
LEMMA VideoRefused ==
  ASSUME TsOutputAssumption, VideoInv, air \in Parts, Broadcast, missed' = FALSE,
         NEW known \in BOOLEAN, NEW q, q = (IF missed THEN Cleared ELSE proc),
         NEW s, s = (IF missed THEN "NotStarted" ELSE state), NEW fi, fi = Indicator(air),
         NEW r, r = Process(q, air, known), ~Accepts(s, fi) \/ ~r.passed,
         state' = (IF Accepts(s, fi) THEN "NotStarted" ELSE s),
         proc' = (IF Accepts(s, fi) THEN r.proc ELSE q),
         writer' = Notice(writer),
         bumps' = (IF missed /\ bumps < CcModulus THEN bumps + 1 ELSE bumps),
         closed' = None, calm' = None, reader' = reader, masked' = masked, tainted' = tainted
  PROVE  VideoInv'
<1>1. /\ TypeOK /\ Len(writer.pending) < PacketCells /\ (proc.timed => writer.open)
      /\ \A t \in tainted : Past(t, air)
      /\ ~masked => Sound(writer, reader, air, missed, proc, state, bumps, tainted, calm)
  BY Zenon DEF VideoInv
<1>2. air' = Following(air) /\ air' \in Parts \cup {None}
  BY AirGoesOn DEF Broadcast
<1>3. /\ missed \in BOOLEAN /\ state \in States /\ proc \in Procs /\ writer \in Writers
      /\ reader \in Readers /\ bumps \in 0..CcModulus /\ tainted \in SUBSET Nat
  BY <1>1, VideoTypes
<1>4. writer' = (IF missed THEN Skipped(writer) ELSE writer)
  BY DEF Notice
<1>5. /\ writer' \in Writers /\ writer'.pending = writer.pending /\ writer'.open = writer.open
      /\ s \in States /\ bumps' \in 0..CcModulus
  <2>1. writer' \in Writers /\ writer'.pending = writer.pending /\ writer'.open = writer.open
    BY <1>3, <1>4, NoticedWriter, Zenon
  <2>2. s \in States
    BY <1>3, NoticedState, Zenon
  <2>3. bumps' \in 0..CcModulus
    BY <1>3, NoticedBumps, Zenon
  <2> QED
    BY <2>1, <2>2, <2>3, Zenon
<1>6. state' \in States
  BY <1>5 DEF States
<1>7. PICK q2, s2 : q2 = proc' /\ s2 = state'
  OBVIOUS
<1>8. /\ q2 \in Procs /\ (q2.timed => ~missed /\ q2 = proc /\ s2 = state /\ proc.timed)
      /\ ~(~Delimits(air) /\ ~missed /\ InSync(proc, state, air))
      /\ ~(Delimits(air) /\ q2.timed /\ state # "InFragment")
  <2>1. /\ r = Process(IF missed THEN Cleared ELSE proc, air, known)
        /\ q2 = (IF Accepts(s, fi) THEN r.proc ELSE IF missed THEN Cleared ELSE proc)
        /\ s2 = (IF Accepts(s, fi) THEN "NotStarted" ELSE s)
    BY <1>7, Zenon
  <2> QED
    BY <1>3, <2>1, RefusedWhy
<1>9. TypeOK'
  BY <1>1, <1>2, <1>5, <1>6, <1>7, <1>8 DEF TypeOK
<1>10. \A t \in tainted : Past(t, Following(air))
  BY <1>1, <1>3, PastStays
<1>11. ASSUME ~masked
       PROVE  Sound(writer', reader, Following(air), FALSE, proc', state', bumps', tainted, None)
  <2>1. Sound(writer, reader, air, missed, proc, state, bumps, tainted, calm)
    BY <1>1, <1>11
  <2>2. PICK w2, b2 : w2 = writer' /\ b2 = bumps'
    OBVIOUS
  <2>3. /\ w2 = (IF missed THEN Skipped(writer) ELSE writer)
        /\ b2 = (IF missed /\ bumps < CcModulus THEN bumps + 1 ELSE bumps)
    BY <1>4, <2>2
  <2>4. /\ tainted \subseteq tainted
        /\ q2 \in Procs /\ (q2.timed => ~missed /\ q2 = proc /\ s2 = state)
        /\ air.frame \in tainted \/ ~(~Delimits(air) /\ ~missed /\ InSync(proc, state, air))
        /\ air.frame \in tainted \/ ~(Delimits(air) /\ q2.timed /\ state # "InFragment")
    BY <1>8
  <2>5. Sound(w2, reader, Following(air), FALSE, q2, s2, b2, tainted, None)
    BY <1>3, <2>1, <2>3, <2>4, UnreadSound
  <2> QED
    BY <1>7, <2>2, <2>5, Zenon
<1>12. (LossIsReported /\ NothingElseIsReported)'
  BY NothingClosed DEF LossIsReported, NothingElseIsReported
<1>13. ~masked' => Sound(writer, reader, air, missed, proc, state, bumps, tainted, calm)'
  BY <1>2, <1>11 DEF Sound, WriterOK, CountersAgree, ReaderOK, CalmOK
<1>14. proc'.timed => writer'.open
  BY <1>1, <1>5, <1>7, <1>8
<1> QED
  BY <1>1, <1>2, <1>5, <1>9, <1>10, <1>12, <1>13, <1>14 DEF VideoInv


\* and one that is passed on.
LEMMA VideoPassed ==
  ASSUME TsOutputAssumption, VideoInv, air \in Parts, Broadcast, missed' = FALSE,
         NEW known \in BOOLEAN, NEW q, q = (IF missed THEN Cleared ELSE proc),
         NEW w, w = Notice(writer),
         NEW skipped, skipped = (IF missed /\ bumps < CcModulus THEN bumps + 1 ELSE bumps),
         NEW r, r = Process(q, air, known), r.passed,
         state' = StateAfter(Indicator(air)), proc' = r.proc, PassOn(r, w, skipped),
         tainted' = tainted
  PROVE  VideoInv'
<1>1. /\ TypeOK /\ Len(writer.pending) < PacketCells /\ (proc.timed => writer.open)
      /\ \A t \in tainted : Past(t, air)
      /\ ~masked => Sound(writer, reader, air, missed, proc, state, bumps, tainted, calm)
  BY Zenon DEF VideoInv
<1>2. air' = Following(air) /\ air' \in Parts \cup {None} /\ air.frame \in 1..MaxFrames
  BY AirGoesOn, PartFacts DEF Broadcast
<1>3. /\ missed \in BOOLEAN /\ state \in States /\ proc \in Procs /\ writer \in Writers
      /\ reader \in Readers /\ bumps \in 0..CcModulus /\ tainted \in SUBSET Nat
      /\ calm \in Nat \cup {None} /\ calm \in 1..MaxFrames \cup {None} /\ masked \in BOOLEAN
  BY <1>1, VideoTypes
<1>4. w = (IF missed THEN Skipped(writer) ELSE writer)
  BY DEF Notice
<1>5. /\ w \in Writers /\ w.pending = writer.pending /\ w.open = writer.open
      /\ skipped \in 0..CcModulus
      /\ q \in Procs /\ (q.timed => ~missed /\ proc.timed)
  <2>1. w \in Writers /\ w.pending = writer.pending /\ w.open = writer.open
    BY <1>3, <1>4, NoticedWriter, Zenon
  <2>2. q \in Procs /\ (q.timed => ~missed /\ proc.timed)
    BY <1>3, NoticedProc, Zenon
  <2>3. skipped \in 0..CcModulus
    BY <1>3, NoticedBumps, Zenon
  <2> QED
    BY <2>1, <2>2, <2>3, Zenon
<1>6. PICK quiet : quiet = IF calm # None /\ ~missed THEN calm
                           ELSE IF r.first THEN air.frame ELSE None
  OBVIOUS
<1>7. PICK out : out = Written(w, air, r.first, r.last)
  OBVIOUS
<1>8. PICK read : read = AllVerified(reader, out.packets)
  OBVIOUS
<1>9. PICK some \in BOOLEAN : some <=> out.packets # <<>>
  OBVIOUS
<1>10. /\ writer' = out.writer /\ reader' = read.pid /\ calm' = quiet
       /\ closed' = (IF read.closed = None THEN None
                     ELSE [cells |-> read.closed.cells, damaged |-> read.closed.damaged,
                           intact |-> quiet # None /\ quiet <= read.closed.cells[1].frame])
       /\ masked' = (masked \/ (some /\ reader.cc # None /\ skipped >= CcModulus - 1))
       /\ bumps' = (IF some THEN 0 ELSE skipped)
  <2>1. (out.packets # <<>>) = some
    BY <1>9
  <2> QED
    BY <1>6, <1>7, <1>8, <2>1, Zenon DEF PassOn
<1>11. /\ r.proc \in Procs /\ r.proc.timed
       /\ r.first \in BOOLEAN /\ r.last \in BOOLEAN /\ (r.first => ~r.last)
       /\ ~r.first => q.timed
  BY <1>5, ProcessPasses
<1>12. /\ out.writer \in Writers /\ Len(out.writer.pending) < PacketCells /\ out.writer.open
       /\ read.pid \in Readers
       /\ read.closed # None => /\ read.closed.cells \in SomeCells
                                /\ read.closed.damaged \in BOOLEAN
  <2>1. PICK first \in BOOLEAN, last \in BOOLEAN : first = r.first /\ last = r.last
    BY <1>11
  <2>2. Len(w.pending) < PacketCells /\ (~first => w.open) /\ (first => ~last)
    BY <1>1, <1>5, <1>11, <2>1
  <2>3. PICK p, v : p = air /\ v = reader
    OBVIOUS
  <2>4. p \in Parts /\ v \in Readers /\ w \in Writers
    BY <1>3, <1>5, <2>3
  <2>5. out = Written(w, p, first, last) /\ read = AllVerified(v, out.packets)
    BY <1>7, <1>8, <2>1, <2>3
  <2> HIDE <1>7, <1>8
  <2>6. /\ out.writer \in Writers /\ Len(out.writer.pending) < PacketCells
        /\ out.writer.open
        /\ read.pid \in Readers
        /\ read.closed # None => /\ read.closed.cells \in SomeCells
                                 /\ read.closed.damaged \in BOOLEAN
    BY <2>2, <2>4, <2>5, ReadTyped
  <2> QED
    BY <2>6
<1>13. ASSUME read.closed # None
       PROVE  \E cells \in SomeCells, damaged \in BOOLEAN, intact \in BOOLEAN :
                /\ cells = read.closed.cells /\ damaged = read.closed.damaged
                /\ intact <=> quiet # None /\ quiet <= cells[1].frame
                /\ closed' = [cells |-> cells, damaged |-> damaged, intact |-> intact]
  <2>1. PICK cells, damaged : cells = read.closed.cells /\ damaged = read.closed.damaged
    OBVIOUS
  <2>2. PICK intact \in BOOLEAN : intact = (quiet # None /\ quiet <= cells[1].frame)
    OBVIOUS
  <2>3. closed' = [cells |-> cells, damaged |-> damaged, intact |-> intact]
    BY <1>10, <1>13, <2>1, <2>2, Zenon
  <2> QED
    BY <1>12, <1>13, <2>1, <2>2, <2>3
<1>14. closed' \in Closed \cup {None}
  <2>1. CASE read.closed = None
    BY <1>10, <2>1
  <2>2. CASE read.closed # None
    BY <1>13, <2>2 DEF Closed, SomeCells
  <2> QED
    BY <2>1, <2>2
<1>15. TypeOK'
  <2>1. calm' \in 1..MaxFrames \cup {None}
    BY <1>2, <1>3, <1>6, <1>10
  <2>2. masked' \in BOOLEAN
    BY <1>3, <1>10
  <2>3. state' \in States /\ missed' \in BOOLEAN
    BY DEF States, StateAfter
  <2>4. bumps' \in 0..CcModulus
    BY <1>5, <1>10, VideoTypes, <1>1
  <2>5. /\ writer' \in Writers /\ reader' \in Readers /\ proc' \in Procs
        /\ tainted' \subseteq 1..MaxFrames /\ air' \in Parts \cup {None}
    BY <1>1, <1>2, <1>10, <1>11, <1>12, VideoTypes
  <2> QED
    BY <1>14, <2>1, <2>2, <2>3, <2>4, <2>5 DEF TypeOK
<1>16. \A t \in tainted : Past(t, Following(air))
  BY <1>1, <1>3, PastStays
<1>17. PICK spoilt, b2, s2 : spoilt = tainted /\ b2 = bumps' /\ s2 = state'
  OBVIOUS
<1>18. ASSUME ~masked'
       PROVE  /\ Sound(out.writer, read.pid, Following(air), FALSE, r.proc, s2, b2, spoilt, quiet)
              /\ read.closed # None =>
                   /\ ~read.closed.damaged => Good(read.closed.cells, spoilt)
                   /\ quiet # None /\ quiet <= read.closed.cells[1].frame =>
                        ~read.closed.damaged /\ \A t \in spoilt : t < read.closed.cells[1].frame
  <2>1. PICK w0, v, p, m, q0, s0, b0, l :
          /\ w0 = writer /\ v = reader /\ p = air /\ m = missed /\ q0 = proc /\ s0 = state
          /\ b0 = bumps /\ l = calm
    OBVIOUS
  <2>3. Sound(w0, v, p, m, q0, s0, b0, spoilt, l)
    BY <1>1, <1>10, <1>17, <1>18, <2>1, Zenon
  <2>4. /\ w0 \in Writers /\ v \in Readers /\ p \in Parts /\ m \in BOOLEAN /\ q0 \in Procs
        /\ b0 \in 0..CcModulus /\ spoilt \in SUBSET Nat /\ l \in Nat \cup {None}
    BY <1>3, <1>17, <2>1
  <2>5. /\ Len(w0.pending) < PacketCells /\ (q0.timed => w0.open)
        /\ \A t \in spoilt : Past(t, p)
    BY <1>1, <1>17, <2>1
  <2>2. Arrives(w0, v, p, m, q0, s0, b0, spoilt, l)
    BY <2>3, <2>4, <2>5, Zenon DEF Arrives
  <2>6. /\ w = (IF m THEN Skipped(w0) ELSE w0)
        /\ skipped = (IF m /\ b0 < CcModulus THEN b0 + 1 ELSE b0)
        /\ q = (IF m THEN Cleared ELSE q0)
        /\ r = Process(q, p, known)
    BY <1>4, <2>1
  <2>7. /\ out = Written(w, p, r.first, r.last) /\ read = AllVerified(v, out.packets)
        /\ ~(some /\ v.cc # None /\ skipped >= CcModulus - 1)
    BY <1>7, <1>8, <1>10, <1>18, <2>1
  <2>8. /\ quiet = (IF l # None /\ ~m THEN l ELSE IF r.first THEN p.frame ELSE None)
        /\ b2 = (IF some THEN 0 ELSE skipped) /\ s2 = StateAfter(Indicator(p))
    BY <1>6, <1>10, <1>17, <2>1
  <2>9. Passed(out.writer, read.pid, Following(p), r.proc, s2, b2, spoilt, quiet, read.closed)
    BY <1>9, <2>2, <2>6, <2>7, <2>8, PassedSound, SMTT(30)
  <2> QED
    BY <2>1, <2>9, Zenon DEF Passed
<1>19. (LossIsReported /\ NothingElseIsReported)'
  <2>1. CASE closed' = None
    BY <2>1 DEF LossIsReported, NothingElseIsReported
  <2>2. CASE masked'
    BY <2>2 DEF LossIsReported, NothingElseIsReported
  <2>3. CASE closed' # None /\ ~masked'
    <3>1. read.closed # None
      BY <1>10, <2>3
    <3>2. PICK cells \in SomeCells, damaged \in BOOLEAN, intact \in BOOLEAN :
             /\ cells = read.closed.cells /\ damaged = read.closed.damaged
             /\ intact <=> quiet # None /\ quiet <= cells[1].frame
             /\ closed' = [cells |-> cells, damaged |-> damaged, intact |-> intact]
      BY <1>13, <3>1
    <3>3. closed'.cells = cells /\ closed'.damaged = damaged /\ closed'.intact = intact
      BY <3>2
    <3>4. /\ ~damaged => Good(cells, tainted)
          /\ intact => ~damaged /\ \A t \in tainted : t < cells[1].frame
      BY <1>17, <1>18, <2>3, <3>1, <3>2
    <3>5. /\ ~damaged /\ (\A i \in DOMAIN cells : cells[i].frame \notin tainted)
               => IsWholeFrame(cells)
          /\ intact => ~damaged /\ IsWholeFrame(cells)
      BY <3>2, <3>4, GoodIsWhole
    <3>6. LossIsReported'
      BY <3>3, <3>5 DEF LossIsReported, IsWholeFrame
    <3>7. NothingElseIsReported'
      BY <3>3, <3>5 DEF NothingElseIsReported, IsWholeFrame
    <3> QED
      BY <3>6, <3>7
  <2> QED
    BY <2>1, <2>2, <2>3
<1>20. ~masked' => Sound(writer, reader, air, missed, proc, state, bumps, tainted, calm)'
  <2>1. SUFFICES ASSUME ~masked'
        PROVE  Sound(writer', reader', air', missed', proc', state', bumps', tainted', calm')
    BY DEF Sound, WriterOK, CountersAgree, ReaderOK, CalmOK
  <2>2. Sound(out.writer, read.pid, Following(air), FALSE, r.proc, s2, b2, spoilt, quiet)
    BY <1>18, <2>1, Zenon
  <2> QED
    BY <1>2, <1>10, <1>17, <2>2, Zenon
<1> QED
  BY <1>2, <1>10, <1>12, <1>15, <1>16, <1>19, <1>20 DEF VideoInv

\* Every step preserves the invariant.
LEMMA VideoStep ==
  ASSUME TsOutputAssumption, VideoInv, [Next]_vars
  PROVE  VideoInv'
<1>1. CASE Lose
  BY <1>1, VideoLost
<1>2. CASE ReceiveUndecryptable
  BY <1>2, VideoUndecryptable
<1>3. CASE Receive
  <2>1. /\ air # None /\ Broadcast /\ missed' = FALSE /\ tainted' = tainted
    BY <1>3 DEF Receive
  <2>2. air \in Parts
    BY <2>1, VideoTypes DEF VideoInv
  <2>3. PICK s, q, fi, w, skipped :
          /\ s = (IF missed THEN "NotStarted" ELSE state)
          /\ q = (IF missed THEN Cleared ELSE proc)
          /\ fi = Indicator(air) /\ w = Notice(writer)
          /\ skipped = (IF missed /\ bumps < CcModulus THEN bumps + 1 ELSE bumps)
    OBVIOUS
  <2>4. PICK known \in BOOLEAN :
          LET r == Process(q, air, known)
          IN IF ~Accepts(s, fi) \/ ~r.passed
             THEN /\ state' = (IF Accepts(s, fi) THEN "NotStarted" ELSE s)
                  /\ proc' = (IF Accepts(s, fi) THEN r.proc ELSE q)
                  /\ writer' = w /\ bumps' = skipped
                  /\ closed' = None /\ calm' = None
                  /\ UNCHANGED <<reader, masked>>
             ELSE /\ state' = StateAfter(fi)
                  /\ proc' = r.proc
                  /\ PassOn(r, w, skipped)
    BY <1>3, <2>3, Zenon DEF Receive
  <2>5. PICK r : r = Process(q, air, known)
    OBVIOUS
  <2>6. CASE ~Accepts(s, fi) \/ ~r.passed
    <3>1. /\ state' = (IF Accepts(s, fi) THEN "NotStarted" ELSE s)
          /\ proc' = (IF Accepts(s, fi) THEN r.proc ELSE q)
          /\ writer' = Notice(writer)
          /\ bumps' = (IF missed /\ bumps < CcModulus THEN bumps + 1 ELSE bumps)
          /\ closed' = None /\ calm' = None /\ reader' = reader /\ masked' = masked
      BY <2>3, <2>4, <2>5, <2>6
    <3> QED
      BY <2>1, <2>2, <2>3, <2>5, <2>6, <3>1, VideoRefused
  <2>7. CASE Accepts(s, fi) /\ r.passed
    <3>1. state' = StateAfter(Indicator(air)) /\ proc' = r.proc /\ PassOn(r, w, skipped)
      BY <2>3, <2>4, <2>5, <2>7
    <3> QED
      BY <2>1, <2>2, <2>3, <2>5, <2>7, <3>1, VideoPassed
  <2> QED
    BY <2>6, <2>7
<1>4. CASE UNCHANGED vars
  BY <1>4 DEF vars, VideoInv, TypeOK, Sound, WriterOK, CountersAgree, ReaderOK, CalmOK,
              LossIsReported, NothingElseIsReported
<1> QED
  BY <1>1, <1>2, <1>3, <1>4 DEF Next

\* The invariant holds in every reachable state, for any shape of a frame, length of a
\* packet and modulus of the counter.
THEOREM VideoSpec ==
  ASSUME TsOutputAssumption PROVE Spec => []VideoInv
<1>1. Init => VideoInv
  BY VideoBegins
<1>2. VideoInv /\ [Next]_vars => VideoInv'
  BY VideoStep
<1> QED
  BY <1>1, <1>2, PTL DEF Spec

\* The types hold, by themselves.
THEOREM VideoTyped ==
  ASSUME TsOutputAssumption PROVE Spec => []TypeOK
<1>1. VideoInv => TypeOK
  BY DEF VideoInv
<1> QED
  BY <1>1, VideoSpec, PTL

\* A PES packet that the verifier finds whole is one frame and all of it; and a frame
\* that arrived whole, before the whole beginning of another, is not found damaged.
THEOREM DamageReported ==
  ASSUME TsOutputAssumption PROVE Spec => [](LossIsReported /\ NothingElseIsReported)
<1>1. VideoInv => LossIsReported /\ NothingElseIsReported
  BY DEF VideoInv
<1> QED
  BY <1>1, VideoSpec, PTL

=============================================================================
