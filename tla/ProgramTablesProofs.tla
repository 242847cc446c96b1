------------------------ MODULE ProgramTablesProofs ------------------------
(***************************************************************************)
(* Proofs about the registry of streams, and about the PAT and the PMTs    *)
(* made from it: a receiver that ignores every repetition has the PIDs     *)
(* that the streams are written with, and each PID has one use, for any    *)
(* number of services, assets and PIDs.                                    *)
(*                                                                         *)
(* Updated is a fold over the table's entries: that its steps exist, and   *)
(* that each of them keeps what the last one had, is shown by induction    *)
(* from the well-ordering of the numbers.                                  *)
(***************************************************************************)
EXTENDS ProgramTables, ComponentHistory, FiniteSetTheorems, WellFoundedInduction, TLAPS

-----------------------------------------------------------------------------
(* Induction.  The numbers are well ordered.                               *)

\* A non-empty set of natural numbers has a least element.
LEMMA LeastNumber ==
  ASSUME NEW T \in SUBSET Nat, T # {}
  PROVE  \E n \in T : \A m \in T : n <= m
<1>1. PICK n \in T : \A m \in T : ~(<<m, n>> \in OpToRel(<, Nat))
  BY NatLessThanWellFounded, WFMin
<1>2. OpToRel(<, Nat) = {ss \in Nat \X Nat : ss[1] < ss[2]}
  BY Zenon DEF OpToRel
<1>3. PICK R : R = OpToRel(<, Nat)
  OBVIOUS
<1>4. R = {ss \in Nat \X Nat : ss[1] < ss[2]} /\ \A m \in T : <<m, n>> \notin R
  BY <1>1, <1>2, <1>3, Zenon
<1>5. \A m \in T : m \in Nat /\ n \in Nat /\ ~(m < n)
  BY <1>4
<1> QED
  BY <1>5

\* A set of natural numbers with 0 and every number's successor is all of them.
LEMMA Induction ==
  ASSUME NEW T \in SUBSET Nat, 0 \in T, \A n \in T : n + 1 \in T
  PROVE  T = Nat
<1> SUFFICES ASSUME Nat \ T # {} PROVE FALSE
  OBVIOUS
<1>1. PICK n \in Nat \ T : \A m \in Nat \ T : n <= m
  BY LeastNumber
<1>2. n - 1 \in Nat /\ n - 1 \in T
  BY <1>1
<1> QED
  BY <1>1, <1>2

\* The same up to a limit.
LEMMA InductionTo ==
  ASSUME NEW L \in Nat, NEW T \in SUBSET (0..L), 0 \in T,
         \A n \in T : n < L => n + 1 \in T
  PROVE  T = 0..L
<1> DEFINE All == {n \in Nat : n <= L => n \in T}
<1>1. 0 \in All /\ \A n \in All : n + 1 \in All
  OBVIOUS
<1>2. All = Nat
  <2>1. All \in SUBSET Nat
    OBVIOUS
  <2> HIDE DEF All
  <2> QED
    BY <1>1, <2>1, Induction
<1>3. \A n \in 0..L : n \in Nat /\ n \in All
  BY <1>2
<1>4. \A n \in 0..L : n \in T
  BY <1>3
<1> QED
  BY <1>4

\* The least of a set of numbers is one of them.
LEMMA LeastOf ==
  ASSUME NEW T \in SUBSET Nat, T # {}
  PROVE  Min(T) \in T
  BY LeastNumber DEF Min

\* The steps of a table's entries, as Updated takes them.
LEMMA EntriesTaken ==
  ASSUME NEW p, NEW table, Len(table) \in Nat
  PROVE  \E f :
           /\ f[0] = Without(Registry, Gone(p, ToSet(table)) \cup Retyped(ToSet(table)))
           /\ \A i \in 1..Len(table) : f[i] = Enter(p, f[i - 1], table[i])
           /\ Updated(p, table) = f[Len(table)]
<1> DEFINE first == Without(Registry, Gone(p, ToSet(table)) \cup Retyped(ToSet(table)))
           F(f, n) == f = [i \in 0..n |-> IF i = 0 THEN first ELSE Enter(p, f[i - 1], table[i])]
           T == {n \in Nat : \E f : F(f, n)}
<1> HIDE DEF first
<1>1. 0 \in T
  <2>1. F([i \in 0..0 |-> first], 0)
    OBVIOUS
  <2> QED
    BY <2>1, Zenon
<1>2. ASSUME NEW n \in T PROVE n + 1 \in T
  <2>1. PICK f : F(f, n)
    BY <1>2
  <2> DEFINE g == [i \in 0..(n + 1) |-> IF i = n + 1 THEN Enter(p, f[n], table[n + 1]) ELSE f[i]]
  <2>2. F(g, n + 1)
    BY <2>1
  <2> HIDE DEF g
  <2>3. \E h : F(h, n + 1)
    BY <2>2, Zenon
  <2>4. n + 1 \in Nat
    OBVIOUS
  <2> QED
    BY <2>3, <2>4
<1>3. T = Nat
  <2>1. T \in SUBSET Nat
    OBVIOUS
  <2> HIDE DEF T
  <2> QED
    BY <1>1, <1>2, <2>1, Induction
<1>4. PICK f : F(f, Len(table))
  BY <1>3
<1> DEFINE entered == CHOOSE g : F(g, Len(table))
<1>5. F(entered, Len(table))
  BY <1>4
<1>6. Updated(p, table) = entered[Len(table)]
  BY DEF Updated, first
<1> HIDE DEF entered
<1>7. entered[0] = first /\ \A i \in 1..Len(table) : entered[i] = Enter(p, entered[i - 1], table[i])
  BY <1>5
<1> QED
  BY <1>6, <1>7, Zenon DEF first

-----------------------------------------------------------------------------
(* The registry between two entries of a table.                            *)

\* A registry's streams, index and PIDs are what they are declared as.
RegistryTyped(r) ==
  /\ DOMAIN r = {"streams", "byIdx", "pids"}
  /\ r.streams \in [PacketIds -> Streams \cup {None}]
  /\ r.byIdx \in [Indices -> PacketIds \cup {None}]
  /\ r.pids \in [Components -> Pids \cup {None}]

\* The index leads to the streams.
IndexLeads(r) ==
  \A id \in PacketIds, i \in Indices :
    r.byIdx[i] = id <=> r.streams[id] # None /\ r.streams[id].index = i

\* No PID is used twice, but for the null PID.
PidsApart(r) ==
  \A id, other \in PacketIds :
    id # other /\ r.streams[id] # None /\ r.streams[other] # None =>
      r.streams[id].pid # r.streams[other].pid \/ r.streams[id].pid = NullPid

Sound(r) == RegistryTyped(r) /\ IndexLeads(r) /\ PidsApart(r)

\* None and the null PID are no stream's, no index's and no component's.
LEMMA Apart ==
  ASSUME RegistryAssumption
  PROVE  /\ None \notin PacketIds /\ None \notin Tags /\ None \notin Nat /\ None \notin Streams
         /\ Pids \subseteq Nat /\ NullPid \notin Pids /\ None \notin Pids /\ None # NullPid
         /\ Indices \subseteq Nat
         /\ \A s \in Streams : s.index \in Indices /\ s.pid \in Pids \cup {NullPid} /\ s.type \in Types
<1>1. Pids \subseteq Nat /\ NullPid \notin Pids
  BY DEF RegistryAssumption, Pids
<1>2. Indices \subseteq Nat
  BY DEF Indices
<1>3. \A s \in Streams : s.index \in Indices /\ s.pid \in Pids \cup {NullPid} /\ s.type \in Types
  BY DEF Streams
<1> QED
  BY <1>1, <1>2, <1>3 DEF RegistryAssumption

\* There are as many indices as packet IDs.
LEMMA IndexCount ==
  ASSUME RegistryAssumption
  PROVE  IsFiniteSet(Indices) /\ Cardinality(Indices) = Cardinality(PacketIds)
<1>1. Cardinality(PacketIds) \in Nat
  BY FS_CardinalityType DEF RegistryAssumption
<1>2. /\ IsFiniteSet(0..(Cardinality(PacketIds) - 1))
      /\ Cardinality(0..(Cardinality(PacketIds) - 1)) = Cardinality(PacketIds)
  BY <1>1, FS_Interval
<1> QED
  BY <1>2 DEF Indices

\* A stream that is not registered finds an index that is free: the others have
\* fewer than there are.
LEMMA IndexIsFree ==
  ASSUME RegistryAssumption, NEW r, Sound(r),
         NEW id \in PacketIds, r.streams[id] = None
  PROVE  {i \in Indices : r.byIdx[i] = None} # {}
<1> SUFFICES ASSUME {i \in Indices : r.byIdx[i] = None} = {} PROVE FALSE
  OBVIOUS
<1> DEFINE others == PacketIds \ {id}
<1>1. r.byIdx \in Injection(Indices, others)
  <2>1. \A i \in Indices : r.byIdx[i] \in PacketIds
    BY DEF Sound, RegistryTyped
  <2>2. \A i \in Indices : r.streams[r.byIdx[i]] # None /\ r.streams[r.byIdx[i]].index = i
    BY <2>1 DEF Sound, IndexLeads
  <2>3. \A i \in Indices : r.byIdx[i] \in others
    BY <2>1, <2>2
  <2>4. \A i, j \in Indices : r.byIdx[i] = r.byIdx[j] => i = j
    BY <2>2
  <2>5. r.byIdx \in [Indices -> others]
    BY <2>3 DEF Sound, RegistryTyped
  <2> QED
    BY <2>4, <2>5 DEF Injection, IsInjective
<1>2. /\ IsFiniteSet(others) /\ Cardinality(others) = Cardinality(PacketIds) - 1
      /\ Cardinality(PacketIds) \in Nat
  BY FS_RemoveElement, FS_CardinalityType DEF RegistryAssumption
<1>3. Cardinality(Indices) <= Cardinality(others)
  BY <1>1, <1>2, IndexCount, FS_Injection
<1> QED
  BY <1>2, <1>3, IndexCount

\* A PID that is given is no other stream's, unless none is left.
LEMMA PidIsFree ==
  ASSUME RegistryAssumption, NEW own, NEW used
  PROVE  Allowed(own, used) \in (Pids \ used) \cup {NullPid}
<1> DEFINE free == (FallbackPid..(EndPid - 1)) \ used
<1>1. free \subseteq Pids \ used /\ free \in SUBSET Nat
  BY DEF RegistryAssumption, Pids
<1>2. free # {} => Min(free) \in free
  BY <1>1, LeastOf
<1> QED
  BY <1>1, <1>2 DEF Allowed, FirstFree

\* What an entry makes of the stream of a supported asset.
Entry(p, r, a) ==
  LET old   == r.streams[a.id]
      index == IF old # None THEN old.index ELSE Min({i \in Indices : r.byIdx[i] = None})
      tag   == IF a.tag = None /\ old # None THEN old.tag ELSE a.tag
      c     == <<p, tag>>
  IN  [type |-> a.type, tag |-> tag, index |-> index,
       pid |-> PidAtFirst(old, Allowed(OwnPid(r, c, index), Used(r, c, a.id)))]

\* It is a stream: that of before with its index and PID, or a new one with a
\* free index and a free PID.
LEMMA EntryIsStream ==
  ASSUME RegistryAssumption, NEW p \in Packages, NEW r, Sound(r),
         NEW a \in Assets, a.type # OtherType
  PROVE  /\ Entry(p, r, a) \in Streams /\ Entry(p, r, a).type = a.type
         /\ r.streams[a.id] # None =>
              /\ Entry(p, r, a).index = r.streams[a.id].index
              /\ Entry(p, r, a).pid = r.streams[a.id].pid
         /\ r.streams[a.id] = None =>
              /\ r.byIdx[Entry(p, r, a).index] = None
              /\ \/ Entry(p, r, a).pid = NullPid
                 \/ \A x \in PacketIds \ {a.id} :
                      r.streams[x] # None => Entry(p, r, a).pid # r.streams[x].pid
<1> DEFINE old == r.streams[a.id]
           free == {i \in Indices : r.byIdx[i] = None}
           index == IF old # None THEN old.index ELSE Min(free)
           tag == IF a.tag = None /\ old # None THEN old.tag ELSE a.tag
           new == Allowed(OwnPid(r, <<p, tag>>, index), Used(r, <<p, tag>>, a.id))
<1>1. a.id \in PacketIds /\ a.type \in Types /\ a.tag \in Tags \cup {None}
  BY DEF Assets
<1>2. old \in Streams \cup {None}
  BY <1>1 DEF Sound, RegistryTyped
<1>3. tag \in Tags \cup {None}
  BY <1>1, <1>2 DEF Streams
<1>4. old = None => Min(free) \in free
  BY <1>1, IndexIsFree, LeastOf, Apart
<1>5. index \in Indices
  BY <1>2, <1>4, Apart
<1>6. new \in (Pids \ Used(r, <<p, tag>>, a.id)) \cup {NullPid}
  BY PidIsFree
<1>7. new # NullPid =>
        \A x \in PacketIds \ {a.id} : r.streams[x] # None => new # r.streams[x].pid
  BY <1>6 DEF Used, UsedByStreams
<1> HIDE DEF old, free, index, tag, new
<1>8. Entry(p, r, a) =
        [type |-> a.type, tag |-> tag, index |-> index, pid |-> IF old # None THEN old.pid ELSE new]
  BY DEF Entry, PidAtFirst, old, free, index, tag, new
<1>9. (IF old # None THEN old.pid ELSE new) \in Pids \cup {NullPid}
  BY <1>2, <1>6, Apart
<1>10. Entry(p, r, a) \in Streams
  BY <1>1, <1>3, <1>5, <1>8, <1>9 DEF Streams
<1>11. old = None => r.byIdx[index] = None
  BY <1>4 DEF index, free
<1>12. old # None => index = old.index
  BY DEF index
<1> QED
  BY <1>7, <1>8, <1>10, <1>11, <1>12 DEF old

\* An entry, in terms of the stream that it makes.
LEMMA EnterEntry ==
  ASSUME NEW p, NEW r, NEW a
  PROVE  /\ a.type = OtherType => Enter(p, r, a) = r
         /\ a.type # OtherType =>
              /\ DOMAIN Enter(p, r, a) = {"streams", "byIdx", "pids"}
              /\ Enter(p, r, a).streams = [r.streams EXCEPT ![a.id] = Entry(p, r, a)]
              /\ Enter(p, r, a).byIdx = [r.byIdx EXCEPT ![Entry(p, r, a).index] = a.id]
              /\ \/ Enter(p, r, a).pids = r.pids
                 \/ /\ Entry(p, r, a).tag # None /\ Entry(p, r, a).pid < EndPid
                    /\ Enter(p, r, a).pids =
                         [r.pids EXCEPT ![<<p, Entry(p, r, a).tag>>] = Entry(p, r, a).pid]
  BY DEF Enter, Entry

LEMMA EnterSound ==
  ASSUME RegistryAssumption, NEW p \in Packages, NEW r, Sound(r), NEW a \in Assets
  PROVE  Sound(Enter(p, r, a))
<1> DEFINE s == Enter(p, r, a)
           e == Entry(p, r, a)
<1>1. CASE a.type = OtherType
  <2>1. s = r
    BY <1>1, Zenon DEF Enter
  <2> QED
    BY <2>1
<1>2. CASE a.type # OtherType
  <2>1. /\ DOMAIN s = {"streams", "byIdx", "pids"}
        /\ s.streams = [r.streams EXCEPT ![a.id] = e]
        /\ s.byIdx = [r.byIdx EXCEPT ![e.index] = a.id]
        /\ \/ s.pids = r.pids
           \/ /\ e.tag # None /\ e.pid < EndPid
              /\ s.pids = [r.pids EXCEPT ![<<p, e.tag>>] = e.pid]
    BY <1>2, EnterEntry
  <2>2. /\ e \in Streams
        /\ r.streams[a.id] # None =>
             e.index = r.streams[a.id].index /\ e.pid = r.streams[a.id].pid
        /\ r.streams[a.id] = None =>
              /\ r.byIdx[e.index] = None
              /\ \/ e.pid = NullPid
                 \/ \A x \in PacketIds \ {a.id} : r.streams[x] # None => e.pid # r.streams[x].pid
    BY <1>2, EntryIsStream
  <2>3. a.id \in PacketIds
    BY DEF Assets
  <2> HIDE DEF s, e
  <2>4. RegistryTyped(s)
    <3>1. e.index \in Indices
      BY <2>2 DEF Streams
    <3>2. s.pids \in [Components -> Pids \cup {None}]
      <4>1. e.pid < EndPid => e.pid \in Pids
        BY <2>2 DEF Streams, RegistryAssumption, Pids
      <4>2. e.tag # None => <<p, e.tag>> \in Components
        BY <2>2 DEF Streams, Components
      <4> QED
        BY <2>1, <4>1, <4>2 DEF Sound, RegistryTyped
    <3> QED
      BY <2>1, <2>2, <2>3, <3>1, <3>2 DEF Sound, RegistryTyped
  <2>5. IndexLeads(s)
    <3>1. e # None /\ e.index \in Indices
      BY <2>2, Apart DEF Streams
    <3>2. \A id \in PacketIds \ {a.id} : s.streams[id] = r.streams[id]
      BY <2>1 DEF Sound, RegistryTyped
    <3>3. s.streams[a.id] = e
      BY <2>1, <2>3 DEF Sound, RegistryTyped
    <3>4. \A i \in Indices \ {e.index} : s.byIdx[i] = r.byIdx[i]
      BY <2>1 DEF Sound, RegistryTyped
    <3>5. s.byIdx[e.index] = a.id
      BY <2>1, <3>1 DEF Sound, RegistryTyped
    <3>6. r.byIdx[e.index] \in {None, a.id}
      BY <2>2, <2>3, <3>1 DEF Sound, IndexLeads
    <3>7. \A i \in Indices : r.byIdx[i] = a.id => i = e.index
      BY <2>2, <2>3 DEF Sound, IndexLeads
    <3>8. ASSUME NEW id \in PacketIds, NEW i \in Indices
          PROVE  s.byIdx[i] = id <=> s.streams[id] # None /\ s.streams[id].index = i
      <4>1. CASE id = a.id
        BY <3>1, <3>3, <3>4, <3>5, <3>7, <4>1
      <4>2. CASE id # a.id /\ i = e.index
        <5>1. ~(r.streams[id] # None /\ r.streams[id].index = i)
          BY <3>6, <4>2, Apart DEF Sound, IndexLeads
        <5> QED
          BY <3>2, <3>5, <4>2, <5>1
      <4>3. CASE id # a.id /\ i # e.index
        BY <3>2, <3>4, <4>3 DEF Sound, IndexLeads
      <4> QED
        BY <4>1, <4>2, <4>3
    <3> QED
      BY <3>8 DEF IndexLeads
  <2>6. PidsApart(s)
    <3>1. \A id \in PacketIds \ {a.id} : s.streams[id] = r.streams[id]
      BY <2>1 DEF Sound, RegistryTyped
    <3>2. s.streams[a.id] = e
      BY <2>1, <2>3 DEF Sound, RegistryTyped
    <3>3. ASSUME NEW x \in PacketIds \ {a.id}, r.streams[x] # None
          PROVE  /\ e.pid # r.streams[x].pid \/ e.pid = NullPid
                 /\ e.pid # r.streams[x].pid \/ r.streams[x].pid = NullPid
      BY <2>2, <2>3, <3>3 DEF Sound, PidsApart
    <3> QED
      BY <3>1, <3>2, <3>3 DEF Sound, PidsApart
  <2>7. Sound(s)
    BY <2>4, <2>5, <2>6 DEF Sound
  <2> QED
    BY <2>7 DEF s
<1> QED
  BY <1>1, <1>2

-----------------------------------------------------------------------------
(* A table.                                                                *)

\* What the table takes out leaves a sound registry of what remains.
LEMMA WithoutSound ==
  ASSUME RegistryAssumption, Sound(Registry), NEW ids \in SUBSET PacketIds
  PROVE  /\ Sound(Without(Registry, ids))
         /\ Without(Registry, ids).streams =
              [id \in PacketIds |-> IF id \in ids THEN None ELSE mapStream[id]]
<1> DEFINE s == Without(Registry, ids)
<1>1. /\ DOMAIN s = {"streams", "byIdx", "pids"}
      /\ s.streams = [id \in PacketIds |-> IF id \in ids THEN None ELSE mapStream[id]]
      /\ s.byIdx = [i \in Indices |-> IF mapPacketIdByIdx[i] \in ids THEN None ELSE mapPacketIdByIdx[i]]
      /\ s.pids = componentPacketIds
  BY DEF Without, Registry
<1>2. /\ Registry.streams = mapStream /\ Registry.byIdx = mapPacketIdByIdx
      /\ Registry.pids = componentPacketIds
  BY DEF Registry
<1> HIDE DEF s
<1>3. RegistryTyped(s)
  BY <1>1, <1>2 DEF Sound, RegistryTyped
<1>4. IndexLeads(s)
  BY <1>1, <1>2, Apart DEF Sound, IndexLeads
<1>5. PidsApart(s)
  BY <1>1, <1>2 DEF Sound, PidsApart
<1> QED
  BY <1>1, <1>3, <1>4, <1>5 DEF Sound, s

\* Where a stream of the registry r comes from, n entries into the table: from
\* before it, with its index and PID, or from one of the entries, with its type.
FromTable(first, table, r, n) ==
  \A id \in PacketIds :
    /\ r.streams[id] # None =>
         \/ /\ first.streams[id] # None
            /\ r.streams[id].index = first.streams[id].index
            /\ r.streams[id].pid = first.streams[id].pid
         \/ /\ first.streams[id] = None
            /\ \E j \in 1..n : table[j].id = id /\ table[j].type = r.streams[id].type
    /\ r.streams[id] # None <=>
         \/ first.streams[id] # None
         \/ \E j \in 1..n : table[j].id = id /\ table[j].type # OtherType

LEMMA FromTableStep ==
  ASSUME RegistryAssumption, NEW p \in Packages, NEW first, NEW table, NEW n \in Nat,
         table[n + 1] \in Assets, NEW r, Sound(r), FromTable(first, table, r, n)
  PROVE  FromTable(first, table, Enter(p, r, table[n + 1]), n + 1)
<1> DEFINE a == table[n + 1]
           s == Enter(p, r, a)
           e == Entry(p, r, a)
<1>1. 1..(n + 1) = 1..n \cup {n + 1}
  OBVIOUS
<1>2. CASE a.type = OtherType
  <2>1. s = r
    BY <1>2, Zenon DEF Enter
  <2> HIDE DEF s
  <2>2. FromTable(first, table, s, n + 1)
    BY <1>1, <1>2, <2>1 DEF FromTable
  <2> QED
    BY <2>2 DEF s
<1>3. CASE a.type # OtherType
  <2>1. s.streams = [r.streams EXCEPT ![a.id] = e]
    BY <1>3 DEF Enter, Entry
  <2>2. /\ e \in Streams /\ e.type = a.type
        /\ r.streams[a.id] # None =>
             e.index = r.streams[a.id].index /\ e.pid = r.streams[a.id].pid
    BY <1>3, EntryIsStream
  <2>3. e # None /\ a.id \in PacketIds
    BY <2>2, Apart DEF Assets
  <2> HIDE DEF s, e
  <2>4. /\ s.streams[a.id] = e
        /\ \A id \in PacketIds \ {a.id} : s.streams[id] = r.streams[id]
    BY <2>1, <2>3 DEF Sound, RegistryTyped
  <2>5. n + 1 \in 1..(n + 1)
    OBVIOUS
  <2>6. ASSUME NEW id \in PacketIds \ {a.id}
        PROVE  /\ s.streams[id] # None =>
                    \/ /\ first.streams[id] # None
                       /\ s.streams[id].index = first.streams[id].index
                       /\ s.streams[id].pid = first.streams[id].pid
                    \/ /\ first.streams[id] = None
                       /\ \E j \in 1..(n + 1) : table[j].id = id /\ table[j].type = s.streams[id].type
               /\ s.streams[id] # None <=>
                    \/ first.streams[id] # None
                    \/ \E j \in 1..(n + 1) : table[j].id = id /\ table[j].type # OtherType
    BY <1>1, <2>4 DEF FromTable
  <2>7. /\ \/ /\ first.streams[a.id] # None
              /\ e.index = first.streams[a.id].index
              /\ e.pid = first.streams[a.id].pid
           \/ /\ first.streams[a.id] = None
              /\ \E j \in 1..(n + 1) : table[j].id = a.id /\ table[j].type = e.type
        /\ \E j \in 1..(n + 1) : table[j].id = a.id /\ table[j].type # OtherType
    BY <1>3, <2>2, <2>3, <2>5 DEF FromTable
  <2>8. FromTable(first, table, s, n + 1)
    BY <2>3, <2>4, <2>6, <2>7 DEF FromTable
  <2> QED
    BY <2>8 DEF s
<1> QED
  BY <1>2, <1>3

\* The registries f[n] after n entries.
Entered(p, table, first, f) ==
  /\ f[0] = first
  /\ \A i \in 1..Len(table) : f[i] = Enter(p, f[i - 1], table[i])
  /\ Updated(p, table) = f[Len(table)]
  /\ \A n \in 0..Len(table) : Sound(f[n]) /\ FromTable(first, table, f[n], n)

\* They are sound, and the last one is what the whole table makes of the registry.
LEMMA UpdatedSound ==
  ASSUME RegistryAssumption, Sound(Registry), NEW p \in Packages, NEW table \in Seq(Assets),
         NEW first,
         first = Without(Registry, Gone(p, ToSet(table)) \cup Retyped(ToSet(table))),
         Gone(p, ToSet(table)) \cup Retyped(ToSet(table)) \in SUBSET PacketIds
  PROVE  \E f : Entered(p, table, first, f)
<1>1. PICK f :
        /\ f[0] = first
        /\ \A i \in 1..Len(table) : f[i] = Enter(p, f[i - 1], table[i])
        /\ Updated(p, table) = f[Len(table)]
  BY EntriesTaken
<1> DEFINE Good(n) == Sound(f[n]) /\ FromTable(first, table, f[n], n)
           T == {n \in 0..Len(table) : Good(n)}
<1>2. 0 \in T
  <2>1. Sound(first)
    BY WithoutSound
  <2>2. FromTable(first, table, first, 0)
    BY DEF FromTable
  <2> QED
    BY <1>1, <2>1, <2>2
<1>3. ASSUME NEW n \in T, n < Len(table) PROVE n + 1 \in T
  <2>1. Good(n) /\ table[n + 1] \in Assets /\ n \in Nat /\ n + 1 \in 1..Len(table)
    BY <1>3
  <2>2. f[n + 1] = Enter(p, f[n], table[n + 1])
    BY <1>1, <2>1
  <2>3. Good(n + 1)
    BY <2>1, <2>2, EnterSound, FromTableStep
  <2> HIDE DEF Good
  <2> QED
    BY <2>1, <2>3
<1>4. T = 0..Len(table)
  <2>1. T \in SUBSET (0..Len(table)) /\ Len(table) \in Nat
    OBVIOUS
  <2> HIDE DEF T
  <2> QED
    BY <1>2, <1>3, <2>1, InductionTo
<1>5. \A n \in 0..Len(table) : Good(n)
  <2> HIDE DEF Good
  <2> QED
    BY <1>4
<1>6. Entered(p, table, first, f)
  BY <1>1, <1>5 DEF Entered
<1> QED
  BY <1>6

-----------------------------------------------------------------------------
(* All packages.                                                           *)

\* Packages that share an asset agree on its type.
Agreed ==
  \A p, q \in Packages : \A a \in listed[p], b \in listed[q] : a.id = b.id => a.type = b.type

RegistryInv ==
  /\ Sound(Registry)
  /\ listed \in [Packages -> SUBSET Assets]
  /\ Agreed
  /\ StreamsAreListedAssets

LEMMA RegistryInit == RegistryAssumption /\ Init => RegistryInv
<1> SUFFICES ASSUME RegistryAssumption, Init PROVE RegistryInv
  OBVIOUS
<1>1. /\ Registry.streams = [id \in PacketIds |-> None]
      /\ Registry.byIdx = [i \in Indices |-> None]
      /\ Registry.pids = [c \in Components |-> None]
      /\ DOMAIN Registry = {"streams", "byIdx", "pids"}
      /\ mapStream = [id \in PacketIds |-> None]
      /\ listed = [p \in Packages |-> {}]
  BY DEF Init, Registry
<1>2. Sound(Registry)
  BY <1>1, Apart DEF Sound, RegistryTyped, IndexLeads, PidsApart
<1>3. StreamsAreListedAssets
  BY <1>1 DEF StreamsAreListedAssets, Registered, IdsOf
<1> QED
  BY <1>1, <1>2, <1>3 DEF RegistryInv, Agreed

\* What a table finds, and what it makes of it.
TableEffect(p, table, first) ==
  /\ table \in Seq(Assets) /\ table \in Tables(p)
  /\ \A a \in ToSet(table) : MayList(p, a)
  /\ listed' = [listed EXCEPT ![p] = ToSet(table)]
  /\ first = [id \in PacketIds |->
                IF id \in Gone(p, ToSet(table)) \cup Retyped(ToSet(table)) THEN None
                ELSE mapStream[id]]
  /\ Sound(Registry')
  /\ \A id \in PacketIds :
       /\ mapStream'[id] # None =>
            \/ /\ first[id] # None
               /\ mapStream'[id].index = first[id].index
               /\ mapStream'[id].pid = first[id].pid
            \/ /\ first[id] = None
               /\ \E a \in ToSet(table) : a.id = id /\ a.type = mapStream'[id].type
       /\ mapStream'[id] # None <=>
            first[id] # None \/ \E a \in ToSet(table) : a.id = id /\ a.type # OtherType

LEMMA TableEffected ==
  ASSUME RegistryAssumption, RegistryInv, NEW p \in Packages, PackageTable(p)
  PROVE  \E table, first, f :
           /\ TableEffect(p, table, first.streams)
           /\ first.pids = componentPacketIds
           /\ Entered(p, table, first, f)
           /\ mapStream' = f[Len(table)].streams /\ componentPacketIds' = f[Len(table)].pids
<1>1. PICK table \in Tables(p) :
        /\ mapStream' = Updated(p, table).streams
        /\ mapPacketIdByIdx' = Updated(p, table).byIdx
        /\ componentPacketIds' = Updated(p, table).pids
        /\ listed' = [listed EXCEPT ![p] = ToSet(table)]
  BY DEF PackageTable
<1> DEFINE ids == Gone(p, ToSet(table)) \cup Retyped(ToSet(table))
           first == Without(Registry, ids)
           r == Updated(p, table)
<1>2. table \in Seq(Assets) /\ \A a \in ToSet(table) : MayList(p, a)
  BY <1>1 DEF Tables, SeqOf, ToSet
<1>3. ToSet(table) \in SUBSET Assets /\ ToSet(table) = {table[i] : i \in 1..Len(table)}
  BY <1>2 DEF ToSet
<1>4. ids \in SUBSET PacketIds
  BY <1>3 DEF Gone, Retyped, IdsOf, Assets, RegistryInv
<1>4a. PICK f : Entered(p, table, first, f)
  BY <1>2, <1>4, UpdatedSound DEF RegistryInv
<1>5. r = f[Len(table)] /\ Sound(r) /\ FromTable(first, table, r, Len(table))
  <2>1. Len(table) \in 0..Len(table)
    BY <1>2
  <2> QED
    BY <1>4a, <2>1 DEF Entered
<1>6. /\ first.streams = [id \in PacketIds |-> IF id \in ids THEN None ELSE mapStream[id]]
      /\ first.pids = componentPacketIds
  <2>1. first.streams = [id \in PacketIds |-> IF id \in ids THEN None ELSE mapStream[id]]
    BY <1>4, WithoutSound DEF RegistryInv
  <2>2. first.pids = componentPacketIds
    BY DEF Without, Registry
  <2> QED
    BY <2>1, <2>2
<1>7. Sound(Registry')
  <2>1. /\ DOMAIN Registry' = {"streams", "byIdx", "pids"} /\ Registry'.streams = r.streams
        /\ Registry'.byIdx = r.byIdx /\ Registry'.pids = r.pids
    BY <1>1 DEF Registry
  <2> HIDE DEF r
  <2> QED
    BY <1>5, <2>1 DEF Sound, RegistryTyped, IndexLeads, PidsApart
<1> HIDE DEF r, first, ids
<1>8. \A id \in PacketIds :
       /\ mapStream'[id] # None =>
            \/ /\ first.streams[id] # None
               /\ mapStream'[id].index = first.streams[id].index
               /\ mapStream'[id].pid = first.streams[id].pid
            \/ /\ first.streams[id] = None
               /\ \E a \in ToSet(table) : a.id = id /\ a.type = mapStream'[id].type
       /\ mapStream'[id] # None <=>
            first.streams[id] # None \/ \E a \in ToSet(table) : a.id = id /\ a.type # OtherType
  BY <1>1, <1>3, <1>5 DEF FromTable, r
<1>9. TableEffect(p, table, first.streams)
  BY <1>1, <1>2, <1>6, <1>7, <1>8 DEF TableEffect, ids
<1>10. mapStream' = f[Len(table)].streams /\ componentPacketIds' = f[Len(table)].pids
  BY <1>1, <1>5 DEF r
<1> QED
  BY <1>4a, <1>6, <1>9, <1>10

\* What packages list and agree on.
LEMMA ListedStep ==
  ASSUME RegistryAssumption, RegistryInv, NEW p \in Packages, NEW table, NEW first,
         TableEffect(p, table, first)
  PROVE  listed' \in [Packages -> SUBSET Assets] /\ Agreed'
<1>1. ToSet(table) \in SUBSET Assets /\ listed' = [listed EXCEPT ![p] = ToSet(table)]
  BY DEF TableEffect, ToSet
<1>2. \A a, b \in ToSet(table) : a.id = b.id => a = b
  BY DEF TableEffect, Tables, ToSet
<1>3. \A a \in ToSet(table) : \A q \in Packages \ {p} : \A b \in listed[q] :
        a.id = b.id => a.type = b.type
  BY DEF TableEffect, MayList
<1> QED
  BY <1>1, <1>2, <1>3 DEF RegistryInv, Agreed

\* The streams that there are afterwards.
LEMMA ListedAssetsStep ==
  ASSUME RegistryAssumption, RegistryInv, NEW p \in Packages, NEW table, NEW first,
         TableEffect(p, table, first)
  PROVE  StreamsAreListedAssets'
<1>1. /\ ToSet(table) \in SUBSET Assets
      /\ listed'[p] = ToSet(table) /\ \A q \in Packages \ {p} : listed'[q] = listed[q]
  BY DEF TableEffect, ToSet, RegistryInv
<1>2. \A id \in PacketIds :
        mapStream[id] # None <=>
          \E q \in Packages : \E a \in listed[q] : a.id = id /\ a.type # OtherType
  BY DEF RegistryInv, StreamsAreListedAssets, Registered, IdsOf
<1>3. ASSUME NEW id \in PacketIds, mapStream'[id] # None
      PROVE  \E q \in Packages : \E a \in listed'[q] : a.id = id /\ a.type # OtherType
  <2>1. CASE \E a \in ToSet(table) : a.id = id /\ a.type # OtherType
    BY <1>1, <2>1
  <2>2. CASE first[id] # None
    <3>1. /\ mapStream[id] # None /\ id \notin Gone(p, ToSet(table))
          /\ id \notin Retyped(ToSet(table))
      <4>1. first[id] = IF id \in Gone(p, ToSet(table)) \cup Retyped(ToSet(table)) THEN None
                        ELSE mapStream[id]
        BY DEF TableEffect
      <4>2. id \notin Gone(p, ToSet(table)) \cup Retyped(ToSet(table))
        BY <2>2, <4>1, Zenon
      <4>3. first[id] = mapStream[id]
        BY <4>1, <4>2, Zenon
      <4>4. mapStream[id] # None
        BY <2>2, <4>3, Zenon
      <4> QED
        BY <4>2, <4>4
    <3>2a. PICK q \in Packages : \E b \in listed[q] : b.id = id /\ b.type # OtherType
      BY <1>2, <3>1
    <3>2. PICK b \in listed[q] : b.id = id /\ b.type # OtherType
      BY <3>2a
    <3>3. CASE q # p
      BY <1>1, <3>2, <3>3
    <3>4. CASE \E a \in ToSet(table) : a.id = id
      <4>1. PICK a \in ToSet(table) : a.id = id
        BY <3>4
      <4>2. mapStream[id].type = a.type
        BY <3>1, <4>1 DEF Retyped
      <4>3. mapStream[id] \in Streams
        BY <3>1 DEF RegistryInv, Sound, RegistryTyped, Registry
      <4>4. a.type # OtherType
        BY <4>2, <4>3, Apart DEF RegistryAssumption
      <4> QED
        BY <1>1, <4>1, <4>4
    <3>5. CASE q = p /\ ~\E a \in ToSet(table) : a.id = id
      <4>1. id \in IdsOf(UNION {listed[x] : x \in Packages \ {p}})
        BY <3>1, <3>2, <3>5 DEF Gone, IdsOf
      <4>1a. PICK x \in Packages \ {p} : \E c \in listed[x] : c.id = id
        BY <4>1 DEF IdsOf
      <4>2. PICK c \in listed[x] : c.id = id
        BY <4>1a
      <4>3. c.type # OtherType
        BY <3>2, <4>2 DEF RegistryInv, Agreed
      <4> QED
        BY <1>1, <4>2, <4>3
    <3> QED
      BY <3>3, <3>4, <3>5
  <2> QED
    BY <1>3, <2>1, <2>2 DEF TableEffect
<1>4. ASSUME NEW id \in PacketIds, NEW q \in Packages, NEW b \in listed'[q],
             b.id = id, b.type # OtherType
      PROVE  mapStream'[id] # None
  <2>1. CASE q = p
    BY <1>1, <1>4, <2>1 DEF TableEffect
  <2>2. CASE q # p
    <3>1. b \in listed[q] /\ mapStream[id] # None
      BY <1>1, <1>2, <1>4, <2>2
    <3>2. id \notin Gone(p, ToSet(table))
      BY <1>4, <2>2, <3>1 DEF Gone, IdsOf
    <3>3. CASE id \notin Retyped(ToSet(table))
      BY <3>1, <3>2, <3>3 DEF TableEffect
    <3>4. CASE id \in Retyped(ToSet(table))
      <4>1. PICK a \in ToSet(table) : a.id = id
        BY <3>4 DEF Retyped
      <4>2. a.type = b.type
        BY <1>4, <2>2, <3>1, <4>1 DEF TableEffect, MayList
      <4> QED
        BY <1>4, <4>1, <4>2 DEF TableEffect
    <3> QED
      BY <3>3, <3>4
  <2> QED
    BY <2>1, <2>2
<1>5. \A q \in Packages : \A a \in listed'[q] : a.id \in PacketIds
  BY <1>1 DEF RegistryInv, Assets
<1> QED
  BY <1>3, <1>4, <1>5 DEF StreamsAreListedAssets, Registered, IdsOf

\* What a registered stream keeps.
LEMMA TableKeeps ==
  ASSUME RegistryAssumption, RegistryInv, NEW p \in Packages, NEW table, NEW first,
         TableEffect(p, table, first)
  PROVE  StableStep
<1>1. SUFFICES ASSUME NEW id \in PacketIds, mapStream[id] # None, mapStream'[id] # None,
                      mapStream'[id].type = mapStream[id].type
               PROVE  /\ mapStream'[id].index = mapStream[id].index
                      /\ mapStream'[id].pid = mapStream[id].pid
  BY DEF StableStep, Registered
<1>2. CASE id \in Gone(p, ToSet(table)) \cup Retyped(ToSet(table))
  <2>1. first[id] = None
    BY <1>2 DEF TableEffect
  <2>2. PICK a \in ToSet(table) : a.id = id /\ a.type = mapStream'[id].type
    BY <1>1, <2>1 DEF TableEffect
  <2>3. id \in Retyped(ToSet(table))
    BY <1>2, <2>2 DEF Gone, IdsOf
  <2>4. PICK b \in ToSet(table) : b.id = id /\ b.type # mapStream[id].type
    BY <2>3 DEF Retyped
  <2>5. a = b
    BY <2>2, <2>4 DEF TableEffect, Tables, ToSet
  <2> QED
    BY <1>1, <2>2, <2>4, <2>5
<1>3. CASE id \notin Gone(p, ToSet(table)) \cup Retyped(ToSet(table))
  <2>1. first[id] = mapStream[id]
    BY <1>3 DEF TableEffect
  <2> QED
    BY <1>1, <2>1 DEF TableEffect
<1> QED
  BY <1>2, <1>3

\* Every step keeps the registry sound and its streams stable.
LEMMA RegistryStep ==
  RegistryAssumption /\ RegistryInv /\ [Next]_vars => RegistryInv' /\ [StableStep]_vars
<1> SUFFICES ASSUME RegistryAssumption, RegistryInv, [Next]_vars
             PROVE  RegistryInv' /\ [StableStep]_vars
  OBVIOUS
<1>1. ASSUME NEW p \in Packages, PackageTable(p)
      PROVE  RegistryInv' /\ StableStep
  <2>0. \E table, first : TableEffect(p, table, first)
    BY <1>1, TableEffected
  <2>1. PICK table, first : TableEffect(p, table, first)
    BY <2>0
  <2>2. Sound(Registry)'
    BY <2>1 DEF TableEffect
  <2>3. listed' \in [Packages -> SUBSET Assets] /\ Agreed'
    BY <2>1, ListedStep
  <2>4. StreamsAreListedAssets'
    BY <2>1, ListedAssetsStep
  <2>5. StableStep
    BY <2>1, TableKeeps
  <2> QED
    BY <2>2, <2>3, <2>4, <2>5 DEF RegistryInv
<1>2. ASSUME Clear
      PROVE  RegistryInv' /\ StableStep
  <2>1. /\ Registry'.streams = [id \in PacketIds |-> None]
        /\ Registry'.byIdx = [i \in Indices |-> None]
        /\ Registry'.pids = [c \in Components |-> None]
        /\ DOMAIN Registry' = {"streams", "byIdx", "pids"}
        /\ mapStream' = [id \in PacketIds |-> None]
        /\ listed' = [p \in Packages |-> {}]
    BY <1>2 DEF Clear, Registry
  <2>2. Sound(Registry')
    BY <2>1, Apart DEF Sound, RegistryTyped, IndexLeads, PidsApart
  <2>3. StreamsAreListedAssets'
    BY <2>1 DEF StreamsAreListedAssets, Registered, IdsOf
  <2>4. StableStep
    BY <2>1 DEF StableStep, Registered
  <2> QED
    BY <2>1, <2>2, <2>3, <2>4 DEF RegistryInv, Agreed
<1>3. ASSUME UNCHANGED vars
      PROVE  RegistryInv'
  <2>1. Registry' = Registry /\ mapStream' = mapStream /\ listed' = listed
    BY <1>3 DEF vars, Registry
  <2> QED
    BY <2>1 DEF RegistryInv, Agreed, StreamsAreListedAssets, Registered
<1> QED
  BY <1>1, <1>2, <1>3 DEF Next

\* What the properties take from the invariant.
LEMMA RegistrySays ==
  RegistryInv => TypeOK /\ DistinctPids /\ IndexFindsStream /\ StreamsAreListedAssets
<1> SUFFICES ASSUME RegistryInv
             PROVE  TypeOK /\ DistinctPids /\ IndexFindsStream /\ StreamsAreListedAssets
  OBVIOUS
<1>1. /\ Registry.streams = mapStream /\ Registry.byIdx = mapPacketIdByIdx
      /\ Registry.pids = componentPacketIds
  BY DEF Registry
<1>2. TypeOK
  BY <1>1 DEF RegistryInv, Sound, RegistryTyped, TypeOK
<1>3. DistinctPids
  BY <1>1 DEF RegistryInv, Sound, PidsApart, DistinctPids, Registered
<1>4. IndexFindsStream
  BY <1>1 DEF RegistryInv, Sound, IndexLeads, IndexFindsStream, Registered
<1> QED
  BY <1>2, <1>3, <1>4 DEF RegistryInv

\* The registry's variables are what they are declared as.
THEOREM RegistryTypeCorrect == ASSUME RegistryAssumption PROVE Spec => []TypeOK
<1>1. Init => RegistryInv
  BY RegistryInit
<1>2. RegistryInv /\ [Next]_vars => RegistryInv'
  BY RegistryStep
<1>3. RegistryInv => TypeOK
  BY RegistrySays
<1> QED
  BY <1>1, <1>2, <1>3, PTL DEF Spec

\* Whatever tables the packages send, there is a stream for each supported
\* asset that one of them lists and for nothing else, an index leads to its
\* stream only, and no two streams send with the same PID: what
\* processMmtPackageTable's lists, maps and sets have to agree on.
THEOREM RegistryAgrees ==
  ASSUME RegistryAssumption
  PROVE  Spec => [](StreamsAreListedAssets /\ IndexFindsStream /\ DistinctPids)
<1>1. Init => RegistryInv
  BY RegistryInit
<1>2. RegistryInv /\ [Next]_vars => RegistryInv'
  BY RegistryStep
<1>3. RegistryInv => StreamsAreListedAssets /\ IndexFindsStream /\ DistinctPids
  BY RegistrySays
<1> QED
  BY <1>1, <1>2, <1>3, PTL DEF Spec

\* No table, of its own package or of another, moves a stream that keeps its
\* type to another index or PID.
THEOREM StreamsKeepTheirPids == ASSUME RegistryAssumption PROVE Spec => StreamsAreStable
<1>1. Init => RegistryInv
  BY RegistryInit
<1>2. RegistryInv /\ [Next]_vars => RegistryInv' /\ [StableStep]_vars
  BY RegistryStep
<1> QED
  BY <1>1, <1>2, PTL DEF Spec, StreamsAreStable

-----------------------------------------------------------------------------
(* Components keep their PIDs.  What a component's PID is may change with  *)
(* every entry of a table, so that it stays is shown of the registries     *)
(* f[n] again: for a component c that has the PID pid, of which nobody but *)
(* the streams S makes use.                                                *)

\* No two components have the same PID.
PidsInjective(r) ==
  \A c, d \in Components : c # d /\ r.pids[c] # None => r.pids[c] # r.pids[d]

\* Component c has pid, and only streams in S have it.
Holds(r, c, pid, S) ==
  /\ r.pids[c] = pid
  /\ \A id \in PacketIds : r.streams[id] # None /\ r.streams[id].pid = pid => id \in S

\* a is what package p lists as component c.
IsComponent(p, a, c) == a.type # OtherType /\ c = <<p, a.tag>>

\* What an entry makes of a component's PID.
LEMMA EntryPid ==
  ASSUME RegistryAssumption, NEW p \in Packages, NEW r, Sound(r),
         NEW a \in Assets, a.type # OtherType
  PROVE  LET e == Entry(p, r, a)
             s == Enter(p, r, a)
             d == <<p, a.tag>>
         IN /\ s.streams = [r.streams EXCEPT ![a.id] = e]
            /\ r.streams[a.id] # None => e.pid = r.streams[a.id].pid /\ s.pids = r.pids
            /\ r.streams[a.id] = None =>
                 /\ e.pid \in (Pids \ Used(r, d, a.id)) \cup {NullPid}
                 /\ a.tag # None /\ r.pids[d] \in Pids \ Used(r, d, a.id) => e.pid = r.pids[d]
                 /\ s.pids = IF a.tag # None /\ e.pid < EndPid
                             THEN [r.pids EXCEPT ![d] = e.pid] ELSE r.pids
<1> DEFINE old == r.streams[a.id]
           index == IF old # None THEN old.index ELSE Min({i \in Indices : r.byIdx[i] = None})
           tag == IF a.tag = None /\ old # None THEN old.tag ELSE a.tag
           c == <<p, tag>>
           new == Allowed(OwnPid(r, c, index), Used(r, c, a.id))
           e == Entry(p, r, a)
           s == Enter(p, r, a)
           d == <<p, a.tag>>
<1>1. e.pid = (IF old # None THEN old.pid ELSE new) /\ e.tag = tag
  BY DEF Entry, PidAtFirst
<1>2. /\ s.streams = [r.streams EXCEPT ![a.id] = e]
      /\ s.pids = IF old = None /\ tag # None /\ e.pid < EndPid
                  THEN [r.pids EXCEPT ![c] = e.pid] ELSE r.pids
  BY DEF Enter, Entry
<1>3. ASSUME old # None
      PROVE  e.pid = old.pid /\ s.pids = r.pids
  <2> HIDE DEF old, tag, c, new, e, s
  <2> QED
    BY <1>1, <1>2, <1>3
<1>4. ASSUME old = None
      PROVE  /\ e.pid \in (Pids \ Used(r, d, a.id)) \cup {NullPid}
             /\ a.tag # None /\ r.pids[d] \in Pids \ Used(r, d, a.id) => e.pid = r.pids[d]
             /\ s.pids = IF a.tag # None /\ e.pid < EndPid
                         THEN [r.pids EXCEPT ![d] = e.pid] ELSE r.pids
  <2>1. tag = a.tag /\ c = d
    BY <1>4
  <2>2. new \in (Pids \ Used(r, c, a.id)) \cup {NullPid}
    BY PidIsFree
  <2>3. a.tag # None /\ r.pids[d] \in Pids \ Used(r, d, a.id) => new = r.pids[d]
    BY <2>1, Apart DEF Allowed, OwnPid
  <2> HIDE DEF old, tag, c, d, new, e, s
  <2> QED
    BY <1>1, <1>2, <1>4, <2>1, <2>2, <2>3
<1> QED
  BY <1>2, <1>3, <1>4

\* An entry gives no component another one's PID.
LEMMA InjectiveStep ==
  ASSUME RegistryAssumption, NEW p \in Packages, NEW r, Sound(r), NEW a \in Assets,
         PidsInjective(r)
  PROVE  PidsInjective(Enter(p, r, a))
<1> DEFINE s == Enter(p, r, a)
           e == Entry(p, r, a)
           d == <<p, a.tag>>
<1>1. CASE s.pids = r.pids
  BY <1>1 DEF PidsInjective
<1>2. CASE s.pids # r.pids
  <2>1. a.type # OtherType
    <3> SUFFICES ASSUME a.type = OtherType PROVE s = r
      BY <1>2
    <3> QED
      BY Zenon DEF Enter
  <2>1a. /\ s.streams = [r.streams EXCEPT ![a.id] = e]
         /\ r.streams[a.id] # None => e.pid = r.streams[a.id].pid /\ s.pids = r.pids
         /\ r.streams[a.id] = None =>
              /\ e.pid \in (Pids \ Used(r, d, a.id)) \cup {NullPid}
              /\ a.tag # None /\ r.pids[d] \in Pids \ Used(r, d, a.id) => e.pid = r.pids[d]
              /\ s.pids = IF a.tag # None /\ e.pid < EndPid
                          THEN [r.pids EXCEPT ![d] = e.pid] ELSE r.pids
    BY <2>1, EntryPid
  <2> HIDE DEF s, e
  <2>2. /\ r.streams[a.id] = None => e.pid \in (Pids \ Used(r, d, a.id)) \cup {NullPid}
        /\ r.streams[a.id] = None /\ s.pids = [r.pids EXCEPT ![d] = e.pid]
        /\ a.tag # None /\ e.pid < EndPid
    BY <1>2, <2>1a
  <2>3. d \in Components
    BY <2>2 DEF Components, Assets
  <2>4. e.pid \in Pids
    BY <2>2 DEF RegistryAssumption
  <2>5. \A x \in Components \ {d} : r.pids[x] # e.pid
    BY <2>2, <2>4, Apart DEF Used, UsedByComponents
  <2> HIDE DEF d
  <2>6. s.pids[d] = e.pid /\ \A x \in Components \ {d} : s.pids[x] = r.pids[x]
    BY <2>2, <2>3 DEF Sound, RegistryTyped
  <2>7. PidsInjective(s)
    BY <2>5, <2>6 DEF PidsInjective
  <2> QED
    BY <2>7 DEF s
<1> QED
  BY <1>1, <1>2

\* A component that holds a PID keeps it, and a new stream of its gets it.
LEMMA HoldsStep ==
  ASSUME RegistryAssumption, NEW p \in Packages, NEW r, Sound(r), NEW a \in Assets,
         PidsInjective(r), NEW c \in Components, NEW pid \in Pids, NEW S,
         Holds(r, c, pid, S), IsComponent(p, a, c) => S = {a.id}
  PROVE  /\ Holds(Enter(p, r, a), c, pid, S)
         /\ IsComponent(p, a, c) /\ r.streams[a.id] = None =>
              Enter(p, r, a).streams[a.id].pid = pid
<1> DEFINE s == Enter(p, r, a)
           e == Entry(p, r, a)
           d == <<p, a.tag>>
<1>1. CASE a.type = OtherType
  <2>1. s = r
    BY <1>1, Zenon DEF Enter
  <2> QED
    BY <1>1, <2>1 DEF IsComponent
<1>2. CASE a.type # OtherType
  <2>1. /\ s.streams = [r.streams EXCEPT ![a.id] = e]
        /\ r.streams[a.id] # None => e.pid = r.streams[a.id].pid /\ s.pids = r.pids
        /\ r.streams[a.id] = None =>
             /\ e.pid \in (Pids \ Used(r, d, a.id)) \cup {NullPid}
             /\ a.tag # None /\ r.pids[d] \in Pids \ Used(r, d, a.id) => e.pid = r.pids[d]
             /\ s.pids = IF a.tag # None /\ e.pid < EndPid
                         THEN [r.pids EXCEPT ![d] = e.pid] ELSE r.pids
    BY <1>2, EntryPid
  <2>2. a.id \in PacketIds /\ d = <<p, a.tag>>
    BY DEF Assets
  <2>3. IsComponent(p, a, c) <=> c = d
    BY <1>2 DEF IsComponent
  <2>4. a.tag # None => d \in Components
    BY DEF Components, Assets
  <2>5. pid # NullPid
    BY Apart
  <2>6. c = d => a.tag # None
    BY Apart DEF Components
  <2> HIDE DEF s, e, d
  <2>7. s.streams[a.id] = e /\ \A id \in PacketIds \ {a.id} : s.streams[id] = r.streams[id]
    BY <2>1, <2>2 DEF Sound, RegistryTyped
  <2>8. CASE r.streams[a.id] # None
    <3>1. Holds(s, c, pid, S)
      BY <2>1, <2>2, <2>7, <2>8 DEF Holds
    <3> QED
      BY <2>8, <3>1 DEF s
  <2>9. CASE r.streams[a.id] = None /\ c = d
    <3>1. pid \notin UsedByStreams(r, d, a.id)
      BY <2>3, <2>9 DEF UsedByStreams, Holds
    <3>2. pid \notin UsedByComponents(r, d, a.id)
      BY <2>9, Apart DEF UsedByComponents, Holds, PidsInjective
    <3>3. e.pid = pid
      BY <2>1, <2>6, <2>9, <3>1, <3>2 DEF Used, Holds
    <3>4. s.pids[c] = pid
      BY <2>1, <2>4, <2>6, <2>9, <3>3 DEF Sound, RegistryTyped, Holds
    <3>5. Holds(s, c, pid, S)
      BY <2>3, <2>7, <2>9, <3>4 DEF Holds
    <3> QED
      BY <2>7, <3>3, <3>5 DEF s
  <2>10. CASE r.streams[a.id] = None /\ c # d
    <3>1. pid \in UsedByComponents(r, d, a.id)
      BY <2>10 DEF UsedByComponents, Holds
    <3>2. e.pid # pid
      BY <2>1, <2>5, <2>10, <3>1 DEF Used
    <3>3. s.pids[c] = pid
      BY <2>1, <2>4, <2>10 DEF Sound, RegistryTyped, Holds
    <3>4. Holds(s, c, pid, S)
      BY <2>2, <2>7, <3>2, <3>3 DEF Holds
    <3> QED
      BY <2>3, <2>10, <3>4 DEF s
  <2> QED
    BY <2>8, <2>9, <2>10
<1> QED
  BY <1>1, <1>2

\* A table with distinct IDs and tags.
Distinct(table) ==
  \A i, j \in 1..Len(table) : i # j =>
    /\ table[i].id # table[j].id
    /\ table[i].tag = None \/ table[i].tag # table[j].tag

\* Its n + 1st entry is new to the registry after n, unless it was there before.
LEMMA EntryIsNew ==
  ASSUME NEW first, NEW table \in Seq(Assets), Distinct(table), NEW r, NEW n \in Nat,
         n < Len(table), FromTable(first, table, r, n),
         first.streams[table[n + 1].id] = None
  PROVE  r.streams[table[n + 1].id] = None
<1>1. n + 1 \in 1..Len(table) /\ table[n + 1] \in Assets
  OBVIOUS
<1>2. \A j \in 1..n : table[j].id # table[n + 1].id
  BY <1>1 DEF Distinct
<1>3. table[n + 1].id \in PacketIds
  BY <1>1 DEF Assets
<1> QED
  BY <1>2, <1>3 DEF FromTable

\* The whole table takes no PID from a component that holds it.
LEMMA TableHolds ==
  ASSUME RegistryAssumption, NEW p \in Packages, NEW table \in Seq(Assets), Distinct(table),
         NEW first, NEW f, Entered(p, table, first, f), PidsInjective(first)
  PROVE  /\ \A n \in 0..Len(table) : PidsInjective(f[n])
         /\ \A c \in Components, pid \in Pids, S \in SUBSET PacketIds :
              /\ Holds(first, c, pid, S)
              /\ \A j \in 1..Len(table) : IsComponent(p, table[j], c) => S = {table[j].id}
              => \A n \in 0..Len(table) :
                   /\ Holds(f[n], c, pid, S)
                   /\ \A j \in 1..n :
                        IsComponent(p, table[j], c) /\ first.streams[table[j].id] = None =>
                          f[n].streams[table[j].id].pid = pid
<1>1. \A n \in 0..Len(table) : PidsInjective(f[n])
  <2> DEFINE T == {n \in 0..Len(table) : PidsInjective(f[n])}
  <2>1. 0 \in T
    BY DEF Entered
  <2>2. ASSUME NEW n \in T, n < Len(table) PROVE n + 1 \in T
    <3>1. n \in 0..Len(table) /\ n + 1 \in 1..Len(table) /\ (n + 1) - 1 = n
          /\ table[n + 1] \in Assets
      BY <2>2
    <3>2. f[n + 1] = Enter(p, f[n], table[n + 1]) /\ Sound(f[n])
      BY <3>1 DEF Entered
    <3>3. PidsInjective(f[n + 1])
      BY <2>2, <3>1, <3>2, InjectiveStep
    <3> QED
      BY <3>1, <3>3
  <2>3. T \in SUBSET (0..Len(table)) /\ Len(table) \in Nat
    OBVIOUS
  <2>4. T = 0..Len(table)
    <3> HIDE DEF T
    <3> QED
      BY <2>1, <2>2, <2>3, InductionTo
  <2> QED
    BY <2>4
<1>2. ASSUME NEW c \in Components, NEW pid \in Pids, NEW S \in SUBSET PacketIds,
             Holds(first, c, pid, S),
             \A j \in 1..Len(table) : IsComponent(p, table[j], c) => S = {table[j].id}
      PROVE  \A n \in 0..Len(table) :
               /\ Holds(f[n], c, pid, S)
               /\ \A j \in 1..n :
                    IsComponent(p, table[j], c) /\ first.streams[table[j].id] = None =>
                      f[n].streams[table[j].id].pid = pid
  <2> DEFINE New(n) ==
               \A j \in 1..n :
                 IsComponent(p, table[j], c) /\ first.streams[table[j].id] = None =>
                   f[n].streams[table[j].id].pid = pid
             T == {n \in 0..Len(table) : Holds(f[n], c, pid, S) /\ New(n)}
  <2>1. 0 \in T
    BY <1>2 DEF Entered
  <2>2. ASSUME NEW n \in T, n < Len(table) PROVE n + 1 \in T
    <3> DEFINE a == table[n + 1]
    <3>1. n \in 0..Len(table) /\ n \in Nat /\ n + 1 \in 1..Len(table) /\ (n + 1) - 1 = n
          /\ a \in Assets
      BY <2>2
    <3>2. /\ f[n + 1] = Enter(p, f[n], a)
          /\ Sound(f[n]) /\ FromTable(first, table, f[n], n)
      BY <3>1 DEF Entered
    <3>3. IsComponent(p, a, c) => S = {a.id}
      BY <1>2, <3>1
    <3>4. Holds(f[n], c, pid, S) /\ New(n)
      BY <2>2
    <3>5. /\ Holds(f[n + 1], c, pid, S)
          /\ IsComponent(p, a, c) /\ f[n].streams[a.id] = None => f[n + 1].streams[a.id].pid = pid
      BY <1>1, <3>1, <3>2, <3>3, <3>4, HoldsStep
    <3>6. ASSUME NEW j \in 1..(n + 1), IsComponent(p, table[j], c),
                 first.streams[table[j].id] = None
          PROVE  f[n + 1].streams[table[j].id].pid = pid
      <4>1. CASE j = n + 1
        <5>1. f[n].streams[a.id] = None
          BY <2>2, <3>1, <3>2, <3>6, <4>1, EntryIsNew
        <5> QED
          BY <3>5, <3>6, <4>1, <5>1
      <4>2. CASE j # n + 1
        <5>1. j \in 1..n /\ j \in 1..Len(table) /\ table[j] \in Assets
          BY <3>1, <4>2
        <5>2. f[n].streams[table[j].id].pid = pid
          BY <3>4, <3>6, <5>1
        <5>3. table[j].id # a.id
          BY <3>1, <4>2, <5>1 DEF Distinct
        <5>4. \/ f[n + 1] = f[n]
              \/ f[n + 1].streams = [f[n].streams EXCEPT ![a.id] = Entry(p, f[n], a)]
          <6>1. CASE a.type = OtherType
            <7>1. Enter(p, f[n], a) = f[n]
              BY <6>1, Zenon DEF Enter
            <7> QED
              BY <3>2, <7>1
          <6>2. CASE a.type # OtherType
            <7> HIDE DEF a
            <7>1. Enter(p, f[n], a).streams = [f[n].streams EXCEPT ![a.id] = Entry(p, f[n], a)]
              BY <6>2, Zenon DEF Enter, Entry
            <7> QED
              BY <3>2, <7>1
          <6> QED
            BY <6>1, <6>2
        <5> HIDE DEF a
        <5> QED
          BY <3>2, <5>1, <5>2, <5>3, <5>4 DEF Sound, RegistryTyped, Assets
      <4> QED
        BY <4>1, <4>2
    <3> HIDE DEF a
    <3> QED
      BY <3>1, <3>5, <3>6
  <2>3. T \in SUBSET (0..Len(table)) /\ Len(table) \in Nat
    OBVIOUS
  <2>4. T = 0..Len(table)
    <3> HIDE DEF T
    <3> QED
      BY <2>1, <2>2, <2>3, InductionTo
  <2> QED
    BY <2>4
<1> QED
  BY <1>1, <1>2

\* A new stream of a component has the component's PID, or the null PID.
PidsGiven(p, table, first, f) ==
  \A n \in 0..Len(table) : \A j \in 1..n :
    LET a == table[j] IN
    a.type # OtherType /\ a.tag # None /\ first.streams[a.id] = None =>
      f[n].streams[a.id].pid \in {NullPid, f[n].pids[<<p, a.tag>>]}

LEMMA TableGives ==
  ASSUME RegistryAssumption, NEW p \in Packages, NEW table \in Seq(Assets), Distinct(table),
         NEW first, NEW f, Entered(p, table, first, f)
  PROVE  PidsGiven(p, table, first, f)
<1> DEFINE Given(n, j) ==
             LET a == table[j] IN
             a.type # OtherType /\ a.tag # None /\ first.streams[a.id] = None =>
               f[n].streams[a.id].pid \in {NullPid, f[n].pids[<<p, a.tag>>]}
           T == {n \in 0..Len(table) : \A j \in 1..n : Given(n, j)}
<1>1. 0 \in T
  OBVIOUS
<1>2. ASSUME NEW n \in T, n < Len(table) PROVE n + 1 \in T
  <2> DEFINE a == table[n + 1]
             d == <<p, a.tag>>
             e == Entry(p, f[n], a)
  <2>1. n \in 0..Len(table) /\ n \in Nat /\ n + 1 \in 1..Len(table) /\ (n + 1) - 1 = n
        /\ a \in Assets
    BY <1>2
  <2>2. /\ f[n + 1] = Enter(p, f[n], a)
        /\ Sound(f[n]) /\ FromTable(first, table, f[n], n)
    BY <2>1 DEF Entered
  <2>3. a.type # OtherType =>
          /\ f[n + 1].streams = [f[n].streams EXCEPT ![a.id] = e]
          /\ f[n].streams[a.id] # None => f[n + 1].pids = f[n].pids
          /\ f[n].streams[a.id] = None =>
               /\ e.pid \in (Pids \ Used(f[n], d, a.id)) \cup {NullPid}
               /\ f[n + 1].pids = IF a.tag # None /\ e.pid < EndPid
                                  THEN [f[n].pids EXCEPT ![d] = e.pid] ELSE f[n].pids
    <3> SUFFICES ASSUME a.type # OtherType
                 PROVE  /\ f[n + 1].streams = [f[n].streams EXCEPT ![a.id] = e]
                        /\ f[n].streams[a.id] # None => f[n + 1].pids = f[n].pids
                        /\ f[n].streams[a.id] = None =>
                             /\ e.pid \in (Pids \ Used(f[n], d, a.id)) \cup {NullPid}
                             /\ f[n + 1].pids = IF a.tag # None /\ e.pid < EndPid
                                                THEN [f[n].pids EXCEPT ![d] = e.pid] ELSE f[n].pids
      OBVIOUS
    <3>1. PICK r : r = f[n]
      OBVIOUS
    <3>2. Sound(r)
      BY <2>2, <3>1, Zenon
    <3>3. f[n + 1] = Enter(p, r, a)
      BY <2>2, <3>1, Zenon
    <3> QED
      BY <2>1, <3>1, <3>2, <3>3, EntryPid
  <2>4. ASSUME a.type = OtherType PROVE f[n + 1] = f[n]
    <3>1. Enter(p, f[n], a) = f[n]
      BY <2>4, Zenon DEF Enter
    <3> QED
      BY <2>2, <3>1
  <2>5. ASSUME NEW j \in 1..(n + 1), table[j].type # OtherType, table[j].tag # None,
               first.streams[table[j].id] = None
        PROVE  f[n + 1].streams[table[j].id].pid \in {NullPid, f[n + 1].pids[<<p, table[j].tag>>]}
    <3>1. CASE j = n + 1
      <4>1. f[n].streams[a.id] = None
        BY <1>2, <2>1, <2>2, <2>5, <3>1, EntryIsNew
      <4>2. f[n + 1].streams[a.id] = e
        <5>1. a.id \in PacketIds
          BY <2>1 DEF Assets
        <5> HIDE DEF a, e
        <5> QED
          BY <2>2, <2>3, <2>5, <3>1, <5>1 DEF Sound, RegistryTyped, a
      <4>3. d \in Components
        BY <2>1, <2>5, <3>1 DEF Components, Assets
      <4>4. e.pid \in Pids => e.pid < EndPid
        BY DEF Pids, RegistryAssumption
      <4>5. e.pid \in Pids => f[n + 1].pids[d] = e.pid
        <5> HIDE DEF d, e
        <5> QED
          BY <2>2, <2>3, <2>5, <3>1, <4>1, <4>3, <4>4 DEF Sound, RegistryTyped
      <4> HIDE DEF e
      <4> QED
        BY <2>3, <2>5, <3>1, <4>1, <4>2, <4>5
    <3>2. CASE j # n + 1
      <4>1. j \in 1..n /\ j \in 1..Len(table) /\ table[j] \in Assets
        BY <2>1, <3>2
      <4>2. f[n].streams[table[j].id].pid \in {NullPid, f[n].pids[<<p, table[j].tag>>]}
        BY <1>2, <2>5, <4>1
      <4>3. table[j].id # a.id /\ table[j].tag # a.tag
        BY <2>1, <2>5, <3>2, <4>1 DEF Distinct
      <4>4. table[j].id \in PacketIds /\ <<p, table[j].tag>> \in Components
        BY <2>5, <4>1 DEF Assets, Components
      <4>5. f[n + 1].streams[table[j].id] = f[n].streams[table[j].id]
        <5> HIDE DEF a, e
        <5> QED
          BY <2>2, <2>3, <2>4, <4>3, <4>4 DEF Sound, RegistryTyped
      <4>6. f[n + 1].pids[<<p, table[j].tag>>] = f[n].pids[<<p, table[j].tag>>]
        <5>1. d # <<p, table[j].tag>>
          BY <4>3
        <5> HIDE DEF a, e, d
        <5> QED
          BY <2>2, <2>3, <2>4, <4>4, <5>1 DEF Sound, RegistryTyped
      <4> QED
        BY <4>2, <4>5, <4>6
    <3> QED
      BY <3>1, <3>2
  <2>6. ASSUME NEW j \in 1..(n + 1) PROVE Given(n + 1, j)
    <3> HIDE DEF a, d, e
    <3> QED
      BY <2>5, Zenon
  <2>7. n + 1 \in 0..Len(table)
    BY <2>1
  <2> QED
    <3> HIDE DEF a, d, e, Given
    <3> QED
      BY <2>6, <2>7
<1>3. T \in SUBSET (0..Len(table)) /\ Len(table) \in Nat
  OBVIOUS
<1>4. T = 0..Len(table)
  <2> HIDE DEF T
  <2> QED
    BY <1>1, <1>2, <1>3, InductionTo
<1>5. \A n \in 0..Len(table) : \A j \in 1..n : Given(n, j)
  <2> HIDE DEF Given
  <2> QED
    BY <1>4
<1> QED
  BY <1>5 DEF PidsGiven

\* What a table that finds the streams first leaves of the components' PIDs.
PidsEffect(p, table, first) ==
  /\ PidsInjective(Registry')
  /\ \A c \in Components, pid \in Pids, S \in SUBSET PacketIds :
       /\ componentPacketIds[c] = pid
       /\ \A id \in PacketIds : first[id] # None /\ first[id].pid = pid => id \in S
       /\ \A a \in ToSet(table) : IsComponent(p, a, c) => S = {a.id}
       => /\ Holds(Registry', c, pid, S)
          /\ \A a \in ToSet(table) :
               IsComponent(p, a, c) /\ first[a.id] = None => mapStream'[a.id].pid = pid
  /\ \A a \in ToSet(table) :
       a.type # OtherType /\ a.tag # None /\ first[a.id] = None =>
         mapStream'[a.id].pid \in {NullPid, componentPacketIds'[<<p, a.tag>>]}

\* A table has that effect.
LEMMA TableNoted ==
  ASSUME RegistryAssumption, RegistryInv, PidsInjective(Registry),
         NEW p \in Packages, PackageTable(p)
  PROVE  \E table, first : TableEffect(p, table, first) /\ PidsEffect(p, table, first)
<1>1. PICK table, start, f :
        /\ TableEffect(p, table, start.streams)
        /\ start.pids = componentPacketIds
        /\ Entered(p, table, start, f)
        /\ mapStream' = f[Len(table)].streams /\ componentPacketIds' = f[Len(table)].pids
  BY TableEffected
<1>2. /\ table \in Seq(Assets) /\ Distinct(table)
      /\ ToSet(table) = {table[i] : i \in 1..Len(table)} /\ Len(table) \in 0..Len(table)
  BY <1>1 DEF TableEffect, Tables, Distinct, ToSet
<1>3. Registry'.streams = mapStream' /\ Registry'.pids = componentPacketIds'
  BY DEF Registry
<1>4. PidsInjective(start)
  <2>1. Registry.pids = componentPacketIds
    BY DEF Registry
  <2> QED
    BY <1>1, <2>1 DEF PidsInjective
<1>5. /\ \A n \in 0..Len(table) : PidsInjective(f[n])
      /\ \A c \in Components, pid \in Pids, S \in SUBSET PacketIds :
           /\ Holds(start, c, pid, S)
           /\ \A j \in 1..Len(table) : IsComponent(p, table[j], c) => S = {table[j].id}
           => \A n \in 0..Len(table) :
                /\ Holds(f[n], c, pid, S)
                /\ \A j \in 1..n :
                     IsComponent(p, table[j], c) /\ start.streams[table[j].id] = None =>
                       f[n].streams[table[j].id].pid = pid
  BY <1>1, <1>2, <1>4, TableHolds
<1>6. \A n \in 0..Len(table) : \A j \in 1..n :
        LET a == table[j] IN
        a.type # OtherType /\ a.tag # None /\ start.streams[a.id] = None =>
          f[n].streams[a.id].pid \in {NullPid, f[n].pids[<<p, a.tag>>]}
  <2>1. /\ RegistryAssumption /\ p \in Packages /\ table \in Seq(Assets) /\ Distinct(table)
        /\ Entered(p, table, start, f)
    BY <1>1, <1>2
  <2>2. PidsGiven(p, table, start, f)
    BY <2>1, TableGives, Zenon
  <2> QED
    BY <2>2 DEF PidsGiven
<1>7. PidsInjective(Registry')
  BY <1>1, <1>2, <1>3, <1>5 DEF PidsInjective
<1>8. ASSUME NEW c \in Components, NEW pid \in Pids, NEW S \in SUBSET PacketIds,
             componentPacketIds[c] = pid,
             \A id \in PacketIds :
               start.streams[id] # None /\ start.streams[id].pid = pid => id \in S,
             \A a \in ToSet(table) : IsComponent(p, a, c) => S = {a.id}
      PROVE  /\ Holds(Registry', c, pid, S)
             /\ \A a \in ToSet(table) :
                  IsComponent(p, a, c) /\ start.streams[a.id] = None =>
                    mapStream'[a.id].pid = pid
  <2>1. Holds(start, c, pid, S)
    BY <1>1, <1>8 DEF Holds
  <2>2. \A j \in 1..Len(table) : IsComponent(p, table[j], c) => S = {table[j].id}
    BY <1>2, <1>8
  <2>3. /\ Holds(f[Len(table)], c, pid, S)
        /\ \A j \in 1..Len(table) :
             IsComponent(p, table[j], c) /\ start.streams[table[j].id] = None =>
               f[Len(table)].streams[table[j].id].pid = pid
    BY <1>2, <1>5, <2>1, <2>2
  <2>4. Holds(Registry', c, pid, S)
    BY <1>1, <1>3, <2>3 DEF Holds
  <2> QED
    BY <1>1, <1>2, <2>3, <2>4
<1>9. \A a \in ToSet(table) :
        a.type # OtherType /\ a.tag # None /\ start.streams[a.id] = None =>
          mapStream'[a.id].pid \in {NullPid, componentPacketIds'[<<p, a.tag>>]}
  <2>1. PICK n \in 0..Len(table) : n = Len(table)
    BY <1>2
  <2>2. mapStream' = f[n].streams /\ componentPacketIds' = f[n].pids
    BY <1>1, <2>1
  <2> SUFFICES ASSUME NEW a \in ToSet(table),
                      a.type # OtherType, a.tag # None, start.streams[a.id] = None
               PROVE  f[n].streams[a.id].pid \in {NullPid, f[n].pids[<<p, a.tag>>]}
    BY <2>2
  <2>3. PICK j \in 1..n : a = table[j]
    BY <1>2, <2>1
  <2> QED
    BY <1>6, <2>3, Zenon
<1>10. PidsEffect(p, table, start.streams)
  BY <1>7, <1>8, <1>9 DEF PidsEffect
<1> QED
  BY <1>1, <1>10

-----------------------------------------------------------------------------
(* The history.                                                            *)

\* What is recorded of component c.  A component with a recorded PID holds it,
\* and its stream has it; one without a record has no stream with a PID.
Noted(c) ==
  /\ firstPid[c] # Shared => IdsOf(AssetsOf(c)) \cap ListedElsewhere(c) = {}
  /\ firstPid[c] \in Pids =>
       /\ Holds(Registry, c, firstPid[c], IdsOf(AssetsOf(c)))
       /\ \A a \in AssetsOf(c) : mapStream[a.id].pid = firstPid[c]
  /\ firstPid[c] = None => \A a \in AssetsOf(c) : mapStream[a.id].pid = NullPid

HistInv ==
  /\ RegistryInv
  /\ PidsInjective(Registry)
  /\ firstPid \in [Components -> Pids \cup {None, Shared}]
  /\ \A c \in Components : Noted(c)

\* At the start, and after clear(), nothing is recorded.
LEMMA NothingNoted ==
  /\ RegistryAssumption /\ SharedAssumption
  /\ Registry.pids = [c \in Components |-> None]
  /\ listed = [p \in Packages |-> {}]
  /\ firstPid = [c \in Components |-> None]
  => /\ PidsInjective(Registry)
     /\ firstPid \in [Components -> Pids \cup {None, Shared}]
     /\ \A c \in Components : Noted(c)
<1> SUFFICES ASSUME RegistryAssumption, SharedAssumption,
                    Registry.pids = [c \in Components |-> None],
                    listed = [p \in Packages |-> {}], firstPid = [c \in Components |-> None]
             PROVE  /\ PidsInjective(Registry)
                    /\ firstPid \in [Components -> Pids \cup {None, Shared}]
                    /\ \A c \in Components : Noted(c)
  OBVIOUS
<1>1. PidsInjective(Registry)
  BY DEF PidsInjective
<1>2. ASSUME NEW c \in Components PROVE Noted(c)
  <2>1. c[1] \in Packages
    BY DEF Components
  <2>2. AssetsOf(c) = {} /\ firstPid[c] = None
    BY <2>1 DEF AssetsOf
  <2> QED
    BY <2>2, Apart DEF Noted, IdsOf
<1> QED
  BY <1>1, <1>2

\* What of the assets of a component a table leaves in the registry.
LEMMA ComponentStays ==
  ASSUME RegistryAssumption, RegistryInv, NEW p \in Packages, NEW table, NEW first,
         TableEffect(p, table, first), NEW c \in Components, NEW a \in AssetsOf(c)',
         IdsOf(AssetsOf(c))' \cap ListedElsewhere(c)' = {},
         c[1] # p \/ first[a.id] # None
  PROVE  /\ \E b \in AssetsOf(c) : b.id = a.id
         /\ mapStream[a.id] # None /\ mapStream'[a.id].pid = mapStream[a.id].pid
<1>1. /\ ToSet(table) \in SUBSET Assets
      /\ listed'[p] = ToSet(table) /\ \A q \in Packages \ {p} : listed'[q] = listed[q]
      /\ c[1] \in Packages /\ a \in listed'[c[1]] /\ a.type # OtherType /\ a.tag = c[2]
  BY DEF TableEffect, ToSet, RegistryInv, AssetsOf, Components
<1>2. a.id \in PacketIds
  BY <1>1 DEF RegistryInv, Assets
<1>3. \A q \in Packages \ {c[1]} : \A b \in listed'[q] : b.id # a.id
  BY DEF IdsOf, ListedElsewhere
<1>4. \A id \in PacketIds :
        mapStream[id] # None <=>
          \E q \in Packages : \E b \in listed[q] : b.id = id /\ b.type # OtherType
  BY DEF RegistryInv, StreamsAreListedAssets, Registered, IdsOf
<1>5. first[a.id] # None => mapStream[a.id] # None /\ mapStream'[a.id].pid = mapStream[a.id].pid
  <2> SUFFICES ASSUME first[a.id] # None
               PROVE  mapStream[a.id] # None /\ mapStream'[a.id].pid = mapStream[a.id].pid
    OBVIOUS
  <2>1. first[a.id] = IF a.id \in Gone(p, ToSet(table)) \cup Retyped(ToSet(table)) THEN None
                      ELSE mapStream[a.id]
    BY <1>2 DEF TableEffect
  <2>2. first[a.id] = mapStream[a.id]
    BY <2>1, Zenon
  <2>3. mapStream'[a.id] # None /\ mapStream'[a.id].pid = first[a.id].pid
    BY <1>2 DEF TableEffect
  <2> QED
    BY <2>2, <2>3
<1>6. CASE c[1] # p
  <2>1. a \in AssetsOf(c)
    BY <1>1, <1>6 DEF AssetsOf
  <2>2. a.id \notin Gone(p, ToSet(table))
    BY <1>1, <1>6 DEF Gone, IdsOf
  <2>3. a.id \notin Retyped(ToSet(table))
    BY <1>1, <1>3, <1>6 DEF Retyped
  <2>4. mapStream[a.id] # None
    BY <1>1, <1>2, <1>4, <1>6
  <2>5. first[a.id] # None
    BY <1>2, <2>2, <2>3, <2>4 DEF TableEffect
  <2> QED
    BY <1>5, <2>1, <2>5
<1>7. CASE c[1] = p /\ first[a.id] # None
  <2>1a. PICK q \in Packages : \E b \in listed[q] : b.id = a.id /\ b.type # OtherType
    BY <1>2, <1>4, <1>5, <1>7
  <2>1. PICK b \in listed[q] : b.id = a.id /\ b.type # OtherType
    BY <2>1a
  <2>2. q = p
    BY <1>1, <1>3, <1>7, <2>1
  <2>3. b.tag = a.tag
    BY <1>1, <1>7, <2>1, <2>2 DEF TableEffect, MayList
  <2>4. b \in AssetsOf(c)
    BY <1>1, <1>7, <2>1, <2>2, <2>3 DEF AssetsOf
  <2> QED
    BY <1>5, <1>7, <2>1, <2>4
<1> QED
  BY <1>6, <1>7

\* A stream that a component had before a table, and that is not shared, is the
\* component's after it too, or gone.
LEMMA ComponentLeaves ==
  ASSUME RegistryAssumption, RegistryInv, NEW p \in Packages, NEW table, NEW first,
         TableEffect(p, table, first), NEW c \in Components, NEW b \in AssetsOf(c),
         IdsOf(AssetsOf(c)) \cap ListedElsewhere(c) = {}, first[b.id] # None
  PROVE  \E a \in AssetsOf(c)' : a.id = b.id
<1>1. /\ ToSet(table) \in SUBSET Assets
      /\ listed'[p] = ToSet(table) /\ \A q \in Packages \ {p} : listed'[q] = listed[q]
      /\ c[1] \in Packages /\ b \in listed[c[1]] /\ b.type # OtherType /\ b.tag = c[2]
  BY DEF TableEffect, ToSet, RegistryInv, AssetsOf, Components
<1>2. b.id \in PacketIds
  BY <1>1 DEF RegistryInv, Assets
<1>3. \A q \in Packages \ {c[1]} : \A a \in listed[q] : a.id # b.id
  BY DEF IdsOf, ListedElsewhere
<1>4. CASE c[1] # p
  BY <1>1, <1>4 DEF AssetsOf
<1>5. CASE c[1] = p
  <2>1. first[b.id] = IF b.id \in Gone(p, ToSet(table)) \cup Retyped(ToSet(table)) THEN None
                      ELSE mapStream[b.id]
    BY <1>2 DEF TableEffect
  <2>2. b.id \notin Gone(p, ToSet(table)) \cup Retyped(ToSet(table)) /\ mapStream[b.id] # None
    BY <2>1, Zenon
  <2>3. b.id \in IdsOf(ToSet(table))
    BY <1>1, <1>3, <1>5, <2>2 DEF Gone, IdsOf
  <2>4. PICK a \in ToSet(table) : a.id = b.id
    BY <2>3 DEF IdsOf
  <2>5. a.tag = b.tag
    BY <1>1, <1>5, <2>4 DEF TableEffect, MayList
  <2>6. mapStream[b.id].type = a.type
    BY <2>2, <2>4 DEF Retyped
  <2>7. mapStream[b.id] \in Streams
    BY <1>2, <2>2 DEF RegistryInv, Sound, RegistryTyped, Registry
  <2>8. a.type # OtherType
    BY <2>6, <2>7, Apart DEF RegistryAssumption
  <2>9. a \in AssetsOf(c)'
    BY <1>1, <1>5, <2>4, <2>5, <2>8 DEF AssetsOf
  <2> QED
    BY <2>4, <2>9
<1> QED
  BY <1>4, <1>5

\* A package's table lists one asset as a component.
LEMMA OneAsset ==
  ASSUME RegistryAssumption, RegistryInv, NEW p \in Packages, NEW table, NEW first,
         TableEffect(p, table, first), NEW c \in Components, NEW a \in ToSet(table),
         IsComponent(p, a, c)
  PROVE  AssetsOf(c)' = {a} /\ IdsOf(AssetsOf(c))' = {a.id}
<1>1. listed'[p] = ToSet(table) /\ ToSet(table) = {table[i] : i \in 1..Len(table)}
  BY DEF TableEffect, ToSet, RegistryInv
<1>2. c = <<p, a.tag>> /\ a.type # OtherType /\ a.tag # None
  BY Apart DEF IsComponent, Components
<1>3. \A x \in ToSet(table) : x.tag = a.tag => x = a
  BY <1>1, <1>2 DEF TableEffect, Tables
<1>4. AssetsOf(c)' = {a}
  BY <1>1, <1>2, <1>3 DEF AssetsOf
<1> QED
  BY <1>4 DEF IdsOf

\* The record of a component that had its PID before.
LEMMA NotedStays ==
  ASSUME RegistryAssumption, RegistryInv, NEW p \in Packages, NEW table, NEW first,
         TableEffect(p, table, first), PidsEffect(p, table, first), NEW c \in Components,
         Noted(c), firstPid[c] \in Pids, firstPid[c] # Shared,
         IdsOf(AssetsOf(c))' \cap ListedElsewhere(c)' = {}
  PROVE  /\ Holds(Registry', c, firstPid[c], IdsOf(AssetsOf(c))')
         /\ \A a \in AssetsOf(c)' : mapStream'[a.id].pid = firstPid[c]
<1> DEFINE pid == firstPid[c]
           S == IdsOf(AssetsOf(c))'
<1>1. /\ ToSet(table) \in SUBSET Assets /\ c[1] \in Packages /\ c = <<c[1], c[2]>>
      /\ listed'[p] = ToSet(table) /\ \A q \in Packages \ {p} : listed'[q] = listed[q]
  BY DEF TableEffect, ToSet, RegistryInv, Components
<1>2. /\ componentPacketIds[c] = pid
      /\ \A id \in PacketIds : mapStream[id] # None /\ mapStream[id].pid = pid =>
           \E b \in AssetsOf(c) : b.id = id
      /\ \A b \in AssetsOf(c) : mapStream[b.id].pid = pid
      /\ IdsOf(AssetsOf(c)) \cap ListedElsewhere(c) = {}
  BY DEF Noted, Holds, Registry, IdsOf
<1>3. S \in SUBSET PacketIds
  <2>1. \A q \in Packages : listed'[q] \in SUBSET Assets
    BY <1>1 DEF RegistryInv
  <2>2. \A a \in AssetsOf(c)' : a.id \in PacketIds
    BY <1>1, <2>1 DEF AssetsOf, Assets
  <2> QED
    BY <2>2 DEF IdsOf
<1>4. ASSUME NEW id \in PacketIds, first[id] # None, first[id].pid = pid
      PROVE  id \in S
  <2>1. first[id] = IF id \in Gone(p, ToSet(table)) \cup Retyped(ToSet(table)) THEN None
                    ELSE mapStream[id]
    BY DEF TableEffect
  <2>2. first[id] = mapStream[id]
    BY <1>4, <2>1, Zenon
  <2>3. PICK b \in AssetsOf(c) : b.id = id
    BY <1>2, <1>4, <2>2
  <2>4. PICK a \in AssetsOf(c)' : a.id = id
    BY <1>2, <1>4, <2>3, ComponentLeaves
  <2> QED
    BY <2>4 DEF IdsOf
<1>5. \A a \in ToSet(table) : IsComponent(p, a, c) => S = {a.id}
  BY OneAsset
<1>6. /\ Holds(Registry', c, pid, S)
      /\ \A a \in ToSet(table) :
           IsComponent(p, a, c) /\ first[a.id] = None => mapStream'[a.id].pid = pid
  <2> HIDE DEF pid, S
  <2>1. pid \in Pids
    BY DEF pid
  <2> QED
    BY <1>2, <1>3, <1>4, <1>5, <2>1 DEF PidsEffect
<1>7. ASSUME NEW a \in AssetsOf(c)' PROVE mapStream'[a.id].pid = pid
  <2>1. CASE c[1] # p \/ first[a.id] # None
    <3>1. /\ \E b \in AssetsOf(c) : b.id = a.id
          /\ mapStream'[a.id].pid = mapStream[a.id].pid
      BY <2>1, ComponentStays
    <3> QED
      BY <1>2, <3>1
  <2>2. CASE c[1] = p /\ first[a.id] = None
    <3>1. a \in ToSet(table) /\ IsComponent(p, a, c)
      BY <1>1, <2>2 DEF AssetsOf, IsComponent
    <3> QED
      BY <1>6, <2>2, <3>1
  <2> QED
    BY <2>1, <2>2
<1> QED
  BY <1>6, <1>7

\* A component that had no PID: what is recorded is the PID that it got.
LEMMA NotedFirst ==
  ASSUME RegistryAssumption, RegistryInv, RegistryInv', NEW p \in Packages,
         NEW table, NEW first,
         TableEffect(p, table, first), PidsEffect(p, table, first), NEW c \in Components,
         Noted(c), firstPid[c] = None, firstPid[c] # Shared,
         IdsOf(AssetsOf(c))' \cap ListedElsewhere(c)' = {}, NEW pid \in PidsOf(c)'
  PROVE  /\ pid \in Pids
         /\ Holds(Registry', c, pid, IdsOf(AssetsOf(c))')
         /\ \A a \in AssetsOf(c)' : mapStream'[a.id].pid = pid
<1>1. PICK a \in AssetsOf(c)' : mapStream'[a.id].pid = pid /\ pid # NullPid
  BY DEF PidsOf
<1>2. /\ ToSet(table) \in SUBSET Assets /\ c[1] \in Packages /\ c = <<c[1], c[2]>>
      /\ listed'[p] = ToSet(table) /\ \A q \in Packages \ {p} : listed'[q] = listed[q]
      /\ a \in listed'[c[1]] /\ a.type # OtherType /\ a.tag = c[2] /\ c[2] # None
  BY Apart DEF TableEffect, ToSet, RegistryInv, Components, AssetsOf
<1>3. c[1] = p /\ first[a.id] = None
  <2> SUFFICES ASSUME c[1] # p \/ first[a.id] # None PROVE FALSE
    OBVIOUS
  <2>1. /\ \E b \in AssetsOf(c) : b.id = a.id
        /\ mapStream'[a.id].pid = mapStream[a.id].pid
    BY ComponentStays
  <2> QED
    BY <1>1, <2>1 DEF Noted
<1>4. a \in ToSet(table) /\ IsComponent(p, a, c)
  BY <1>2, <1>3 DEF IsComponent
<1>5. AssetsOf(c)' = {a} /\ IdsOf(AssetsOf(c))' = {a.id}
  BY <1>4, OneAsset
<1>6. componentPacketIds'[c] = pid
  BY <1>1, <1>2, <1>3, <1>4 DEF PidsEffect
<1>7. a.id \in PacketIds /\ mapStream'[a.id] # None
  BY <1>2, <1>4 DEF TableEffect, Assets
<1>8. DistinctPids' /\ TypeOK'
  <2>1. RegistryInv' => (DistinctPids /\ TypeOK)'
    BY RegistrySays, PTL
  <2> QED
    BY <2>1
<1>9. pid \in Pids
  <2>1. mapStream'[a.id] \in Streams
    BY <1>7, <1>8 DEF TypeOK
  <2> QED
    BY <1>1, <2>1, Apart
<1>10. \A id \in PacketIds : mapStream'[id] # None /\ mapStream'[id].pid = pid => id = a.id
  BY <1>1, <1>7, <1>8 DEF DistinctPids, Registered
<1>11. Registry'.streams = mapStream' /\ Registry'.pids = componentPacketIds'
  BY DEF Registry
<1>12. Holds(Registry', c, pid, {a.id})
  BY <1>6, <1>10, <1>11 DEF Holds
<1> QED
  BY <1>1, <1>5, <1>9, <1>12

\* What a table makes of the record of a component.
LEMMA NotedStep ==
  ASSUME RegistryAssumption, SharedAssumption, HistInv, RegistryInv', NEW p \in Packages,
         NEW table, NEW first, TableEffect(p, table, first), PidsEffect(p, table, first),
         firstPid' = Recorded, NEW c \in Components
  PROVE  firstPid'[c] \in Pids \cup {None, Shared} /\ Noted(c)'
<1> DEFINE shared == IdsOf(AssetsOf(c))' \cap ListedElsewhere(c)' # {}
<1>1. firstPid'[c] = IF shared THEN Shared
                     ELSE IF firstPid[c] = None /\ PidsOf(c)' # {}
                          THEN CHOOSE pid \in PidsOf(c)' : TRUE
                     ELSE firstPid[c]
  BY DEF Recorded
<1>2. Noted(c) /\ firstPid[c] \in Pids \cup {None, Shared}
  BY DEF HistInv
<1>3. Shared \notin Pids /\ Shared # None /\ None \notin Pids
  BY Apart DEF SharedAssumption
<1>4. CASE shared
  <2>1. firstPid'[c] = Shared
    BY <1>1, <1>4
  <2> QED
    BY <1>3, <2>1 DEF Noted
<1>5. CASE ~shared /\ firstPid[c] = None /\ PidsOf(c)' # {}
  <2>1. firstPid'[c] \in PidsOf(c)'
    BY <1>1, <1>5
  <2>2. /\ firstPid'[c] \in Pids
        /\ Holds(Registry', c, firstPid'[c], IdsOf(AssetsOf(c))')
        /\ \A a \in AssetsOf(c)' : mapStream'[a.id].pid = firstPid'[c]
    BY <1>2, <1>3, <1>5, <2>1, NotedFirst DEF HistInv
  <2> QED
    BY <1>3, <1>5, <2>2 DEF Noted
<1>6. CASE ~shared /\ firstPid[c] = None /\ PidsOf(c)' = {}
  <2>1. firstPid'[c] = None
    BY <1>1, <1>6
  <2>2. \A a \in AssetsOf(c)' : mapStream'[a.id].pid = NullPid
    BY <1>6 DEF PidsOf
  <2> QED
    BY <1>3, <1>6, <2>1, <2>2 DEF Noted
<1>7. CASE ~shared /\ firstPid[c] \in Pids
  <2>1. firstPid'[c] = firstPid[c]
    BY <1>1, <1>3, <1>7
  <2>2. /\ Holds(Registry', c, firstPid[c], IdsOf(AssetsOf(c))')
        /\ \A a \in AssetsOf(c)' : mapStream'[a.id].pid = firstPid[c]
    BY <1>2, <1>3, <1>7, NotedStays DEF HistInv
  <2> QED
    BY <1>3, <1>7, <2>1, <2>2 DEF Noted
<1>8. CASE ~shared /\ firstPid[c] = Shared
  <2>1. firstPid'[c] = Shared
    BY <1>1, <1>3, <1>8
  <2> QED
    BY <1>3, <2>1 DEF Noted
<1> QED
  BY <1>2, <1>4, <1>5, <1>6, <1>7, <1>8

\* The initial states of the registry with its history.
LEMMA HistStart == RegistryAssumption /\ SharedAssumption /\ HistInit => HistInv
<1> SUFFICES ASSUME RegistryAssumption, SharedAssumption, HistInit PROVE HistInv
  OBVIOUS
<1>1. RegistryInv
  BY RegistryInit DEF HistInit
<1>2. /\ Registry.pids = [c \in Components |-> None] /\ listed = [p \in Packages |-> {}]
      /\ firstPid = [c \in Components |-> None]
  BY DEF HistInit, Init, Registry
<1> QED
  BY <1>1, <1>2, NothingNoted DEF HistInv

\* Every step, with what is recorded of it.
LEMMA HistStep ==
  RegistryAssumption /\ SharedAssumption /\ HistInv /\ [HistNext]_histVars =>
    HistInv' /\ [StableStep]_histVars
<1> SUFFICES ASSUME RegistryAssumption, SharedAssumption, HistInv, [HistNext]_histVars
             PROVE  HistInv' /\ [StableStep]_histVars
  OBVIOUS
<1>1. ASSUME NEW p \in Packages, PackageTable(p), firstPid' = Recorded
      PROVE  HistInv' /\ StableStep
  <2>1. PICK table, first : TableEffect(p, table, first) /\ PidsEffect(p, table, first)
    BY <1>1, TableNoted DEF HistInv
  <2>2. RegistryInv'
    <3>1. [Next]_vars
      BY <1>1 DEF Next
    <3> QED
      BY <3>1, RegistryStep DEF HistInv
  <2>3. \A c \in Components : firstPid'[c] \in Pids \cup {None, Shared} /\ Noted(c)'
    BY <1>1, <2>1, <2>2, NotedStep
  <2>4. firstPid' \in [Components -> Pids \cup {None, Shared}]
    BY <1>1, <2>3 DEF Recorded
  <2>5. PidsInjective(Registry)'
    BY <2>1 DEF PidsEffect
  <2>6. StableStep
    BY <2>1, TableKeeps DEF HistInv
  <2> QED
    BY <2>2, <2>3, <2>4, <2>5, <2>6 DEF HistInv
<1>2. ASSUME Clear, firstPid' = [c \in Components |-> None]
      PROVE  HistInv' /\ StableStep
  <2>1. [Next]_vars
    BY <1>2 DEF Next
  <2>2. RegistryInv'
    BY <2>1, RegistryStep DEF HistInv
  <2>3. /\ (Registry.pids)' = [c \in Components |-> None]
        /\ listed' = [p \in Packages |-> {}]
    BY <1>2 DEF Clear, Registry
  <2>4. /\ PidsInjective(Registry)'
        /\ firstPid' \in [Components -> Pids \cup {None, Shared}]
        /\ \A c \in Components : Noted(c)'
    <3>1. (/\ RegistryAssumption /\ SharedAssumption
           /\ Registry.pids = [c \in Components |-> None]
           /\ listed = [p \in Packages |-> {}]
           /\ firstPid = [c \in Components |-> None]
           => /\ PidsInjective(Registry)
              /\ firstPid \in [Components -> Pids \cup {None, Shared}]
              /\ \A c \in Components : Noted(c))'
      BY NothingNoted, PTL
    <3> QED
      BY <1>2, <2>3, <3>1 DEF RegistryAssumption, SharedAssumption
  <2>5. StableStep
    BY <1>2 DEF Clear, StableStep, Registered
  <2> QED
    BY <2>2, <2>4, <2>5 DEF HistInv
<1>3. ASSUME UNCHANGED histVars
      PROVE  HistInv'
  <2>1. [Next]_vars /\ firstPid' = firstPid /\ listed' = listed /\ mapStream' = mapStream
        /\ Registry' = Registry
    BY <1>3 DEF histVars, vars, Registry
  <2>2. RegistryInv'
    BY <2>1, RegistryStep DEF HistInv
  <2> QED
    BY <2>1, <2>2 DEF HistInv, Noted, AssetsOf, ListedElsewhere
<1> QED
  BY <1>1, <1>2, <1>3 DEF HistNext

\* What the properties take from it.
LEMMA HistSays ==
  RegistryAssumption /\ SharedAssumption /\ HistInv =>
    ComponentKeepsPid /\ TypeOK /\ DistinctPids /\ IndexFindsStream /\ StreamsAreListedAssets
<1> SUFFICES ASSUME RegistryAssumption, SharedAssumption, HistInv PROVE ComponentKeepsPid
  BY RegistrySays DEF HistInv
<1> SUFFICES ASSUME NEW c \in Components
             PROVE  /\ \A a \in AssetsOf(c) : firstPid[c] \in Pids => mapStream[a.id].pid = firstPid[c]
                    /\ \A id \in Registered :
                         mapStream[id].pid = firstPid[c] => id \in IdsOf(AssetsOf(c))
  BY DEF ComponentKeepsPid
<1>1. Noted(c) /\ firstPid[c] \in Pids \cup {None, Shared}
  BY DEF HistInv
<1>2. ASSUME NEW id \in Registered, mapStream[id].pid = firstPid[c]
      PROVE  id \in IdsOf(AssetsOf(c))
  <2>1. id \in PacketIds /\ mapStream[id] # None /\ mapStream[id] \in Streams
    BY <1>2, RegistrySays DEF Registered, HistInv, TypeOK
  <2>2. firstPid[c] \in Nat
    BY <1>2, <2>1, Apart DEF RegistryAssumption
  <2>3. firstPid[c] \in Pids
    BY <1>1, <2>2, Apart DEF SharedAssumption
  <2> QED
    BY <1>1, <1>2, <2>1, <2>3 DEF Noted, Holds, Registry
<1> QED
  BY <1>1, <1>2 DEF Noted

\* A component that leaves the MPT and returns gets its PID back, and no other
\* component's stream has had that PID meanwhile, as mmtTlvDemuxer.h:106-107 has
\* it, unless another package lists its asset too.
THEOREM ComponentsKeepPids ==
  ASSUME RegistryAssumption, SharedAssumption
  PROVE  HistSpec => []ComponentKeepsPid
<1>1. HistInit => HistInv
  BY HistStart
<1>2. HistInv /\ [HistNext]_histVars => HistInv'
  BY HistStep
<1>3. HistInv => ComponentKeepsPid
  BY HistSays
<1> QED
  BY <1>1, <1>2, <1>3, PTL DEF HistSpec

-----------------------------------------------------------------------------
(* The program tables: the inductive invariant.                            *)

\* What tables list and what streams are agree in type and in tag, not in the
\* existence of streams only: a table that comes again changes no PMT.
StreamsAsListed ==
  \A p \in Packages : \A a \in listed[p] :
    mapStream[a.id] # None => mapStream[a.id].type = a.type /\ mapStream[a.id].tag = a.tag

\* Services have distinct PMT PIDs.
PidsAssigned(assigned) ==
  /\ assigned \in [Packages -> PmtPids \cup {None}]
  /\ \A s, other \in Packages :
       assigned[s] # None /\ assigned[s] = assigned[other] => s = other

\* The first k of a list's services.
FirstOf(services, k) == {services[i] : i \in 1..k}

\* Of the first n services of a list the first k have their PIDs and no others have
\* one: k is n, or there was no PID left for the next one.
SettledAt(assigned, services, pids, k, n) ==
  /\ \A s \in FirstOf(services, k) : assigned[s] # None
  /\ pids = [s \in Packages |-> IF s \in FirstOf(services, k) THEN assigned[s] ELSE None]
  /\ k < n =>
       /\ assigned[services[k + 1]] = None
       /\ \A pid \in PmtPids : \E s \in Packages : assigned[s] = pid

Settled(assigned, services, pids) ==
  /\ services \in Seq(Packages)
  /\ \E k \in 0..Len(services) : SettledAt(assigned, services, pids, k, Len(services))

\* The same list would give the PIDs that the PAT has: it may be ignored.
PatIsCurrent ==
  /\ mapService2Pid = pat.pids
  /\ IF pat.version = None THEN pat.pids = NoPids
     ELSE Settled(assignedPmtPids, pat.version, pat.pids)

\* The receiver's PMT of a service is of the last table.
PmtIsLast(s) ==
  /\ pat.pids[s] # None
  /\ pmts[s].version = listed[s]
  /\ pmts[s].streams = CarriedPids(mapStream, listed[s])
  /\ pmts[s].data \subseteq {AppDataPid(pat.pids[s])}

PmtsAreLast ==
  /\ DOMAIN pmts = Packages
  /\ \A s \in Packages : pmts[s] # None => PmtIsLast(s)

\* PMTs have been sent on the PIDs of their services only.
SentOnTheirPids ==
  /\ program \in [PmtPids -> Packages \cup {None}]
  /\ \A pid \in PmtPids : program[pid] # None => assignedPmtPids[program[pid]] = pid

ProgramInv ==
  /\ RegistryInv /\ StreamsAsListed
  /\ PidsAssigned(assignedPmtPids)
  /\ PatIsCurrent /\ PmtsAreLast /\ SentOnTheirPids

-----------------------------------------------------------------------------
(* The streams' types and tags.                                            *)

\* Where the streams of the registry r, n entries into the table, have their types
\* and tags from.
LabelledBy(first, table, r, n) ==
  \A id \in PacketIds : r.streams[id] # None =>
    \/ /\ r.streams[id] = first.streams[id]
       /\ \A j \in 1..n : table[j].id = id => table[j].type = OtherType
    \/ \E j \in 1..n :
         /\ table[j].id = id
         /\ r.streams[id].type = table[j].type /\ r.streams[id].tag = table[j].tag

\* An entry labels its stream, if a stream from before the table has its tag.
LEMMA LabelsStep ==
  ASSUME RegistryAssumption, NEW p \in Packages, NEW first, NEW table \in Seq(Assets),
         Distinct(table), NEW r, NEW n \in Nat, n < Len(table), Sound(r),
         LabelledBy(first, table, r, n),
         first.streams[table[n + 1].id] # None =>
           first.streams[table[n + 1].id].tag = table[n + 1].tag
  PROVE  LabelledBy(first, table, Enter(p, r, table[n + 1]), n + 1)
<1> DEFINE a == table[n + 1]
           s == Enter(p, r, a)
           e == Entry(p, r, a)
<1>1. 1..(n + 1) = 1..n \cup {n + 1} /\ n + 1 \in 1..Len(table) /\ a \in Assets
  OBVIOUS
<1>2. CASE a.type = OtherType
  <2>1. s = r
    BY <1>2, Zenon DEF Enter
  <2> HIDE DEF s
  <2>2. LabelledBy(first, table, s, n + 1)
    BY <1>1, <1>2, <2>1 DEF LabelledBy
  <2> QED
    BY <2>2 DEF s
<1>3. CASE a.type # OtherType
  <2>1. s.streams = [r.streams EXCEPT ![a.id] = e]
    BY <1>3 DEF Enter, Entry
  <2>2. /\ e.type = a.type
        /\ e.tag = IF a.tag = None /\ r.streams[a.id] # None THEN r.streams[a.id].tag ELSE a.tag
    BY DEF Entry
  <2>3. a.id \in PacketIds
    BY <1>1 DEF Assets
  <2>4. \A j \in 1..n : table[j].id # a.id
    BY <1>1 DEF Distinct
  <2>5. r.streams[a.id] # None => r.streams[a.id] = first.streams[a.id]
    BY <2>3, <2>4 DEF LabelledBy
  <2>6. e.tag = a.tag
    BY <2>2, <2>5
  <2> HIDE DEF s, e
  <2>7. /\ s.streams[a.id] = e
        /\ \A id \in PacketIds \ {a.id} : s.streams[id] = r.streams[id]
    BY <2>1, <2>3 DEF Sound, RegistryTyped
  <2>8. ASSUME NEW id \in PacketIds \ {a.id}, s.streams[id] # None
        PROVE  \/ /\ s.streams[id] = first.streams[id]
                  /\ \A j \in 1..(n + 1) : table[j].id = id => table[j].type = OtherType
               \/ \E j \in 1..(n + 1) :
                    /\ table[j].id = id
                    /\ s.streams[id].type = table[j].type /\ s.streams[id].tag = table[j].tag
    BY <1>1, <2>7, <2>8 DEF LabelledBy
  <2>9. \E j \in 1..(n + 1) :
          table[j].id = a.id /\ s.streams[a.id].type = table[j].type
          /\ s.streams[a.id].tag = table[j].tag
    BY <1>1, <2>2, <2>6, <2>7
  <2>10. LabelledBy(first, table, s, n + 1)
    BY <2>8, <2>9 DEF LabelledBy
  <2> QED
    BY <2>10 DEF s
<1> QED
  BY <1>2, <1>3

\* The whole table labels its streams.
LEMMA TableLabels ==
  ASSUME RegistryAssumption, NEW p \in Packages, NEW first, NEW f, NEW table \in Seq(Assets),
         Distinct(table), Entered(p, table, first, f),
         \A a \in ToSet(table) :
           first.streams[a.id] # None => first.streams[a.id].tag = a.tag
  PROVE  LabelledBy(first, table, f[Len(table)], Len(table))
<1> DEFINE Good(n) == LabelledBy(first, table, f[n], n)
           T == {n \in 0..Len(table) : Good(n)}
<1>1. 0 \in T
  BY DEF LabelledBy, Entered
<1>2. ASSUME NEW n \in T, n < Len(table) PROVE n + 1 \in T
  <2>1. Good(n) /\ n \in Nat /\ n \in 0..Len(table) /\ n + 1 \in 1..Len(table)
    BY <1>2
  <2>2. f[n + 1] = Enter(p, f[n], table[n + 1]) /\ Sound(f[n])
    BY <2>1 DEF Entered
  <2>3. table[n + 1] \in ToSet(table)
    BY <2>1 DEF ToSet
  <2>4. Good(n + 1)
    BY <1>2, <2>1, <2>2, <2>3, LabelsStep
  <2> HIDE DEF Good
  <2> QED
    BY <2>1, <2>4
<1>3. T = 0..Len(table)
  <2>1. T \in SUBSET (0..Len(table)) /\ Len(table) \in Nat
    OBVIOUS
  <2> HIDE DEF T
  <2> QED
    BY <1>1, <1>2, <2>1, InductionTo
<1>4. Good(Len(table))
  <2>1. Len(table) \in T
    BY <1>3
  <2> HIDE DEF Good
  <2> QED
    BY <2>1
<1> QED
  BY <1>4

\* Streams stay as listed.
LEMMA LabelsStay ==
  ASSUME RegistryAssumption, RegistryInv, StreamsAsListed, NEW p \in Packages, PackageTable(p)
  PROVE  StreamsAsListed' /\ \E table : listed' = [listed EXCEPT ![p] = ToSet(table)]
                             /\ \A a \in ToSet(table) : MayList(p, a)
<1>1. PICK table, first, f :
        /\ TableEffect(p, table, first.streams)
        /\ Entered(p, table, first, f)
        /\ mapStream' = f[Len(table)].streams
  BY TableEffected
<1>2. /\ table \in Seq(Assets) /\ table \in Tables(p)
      /\ \A a \in ToSet(table) : MayList(p, a)
      /\ listed' = [listed EXCEPT ![p] = ToSet(table)]
      /\ first.streams = [id \in PacketIds |->
                IF id \in Gone(p, ToSet(table)) \cup Retyped(ToSet(table)) THEN None
                ELSE mapStream[id]]
  BY <1>1 DEF TableEffect
<1>3. Distinct(table)
  BY <1>2 DEF Distinct, Tables
<1>4. /\ ToSet(table) \in SUBSET Assets
      /\ listed'[p] = ToSet(table) /\ \A q \in Packages \ {p} : listed'[q] = listed[q]
  BY <1>2 DEF ToSet, RegistryInv
<1>5. \A id \in PacketIds : first.streams[id] # None =>
        /\ first.streams[id] = mapStream[id] /\ id \notin Retyped(ToSet(table))
  BY <1>2
<1>6. ASSUME NEW a \in ToSet(table), first.streams[a.id] # None
      PROVE  first.streams[a.id].tag = a.tag
  <2>1. a.id \in PacketIds
    BY <1>4 DEF Assets
  <2>2. a.id \in Registered /\ first.streams[a.id] = mapStream[a.id]
    BY <1>5, <1>6, <2>1 DEF Registered
  <2>3. PICK q \in Packages : \E c \in listed[q] : c.id = a.id
    BY <2>2 DEF RegistryInv, StreamsAreListedAssets, IdsOf
  <2>4. PICK b \in listed[q] : b.id = a.id
    BY <2>3
  <2>5. a.tag = b.tag
    BY <1>2, <2>4 DEF MayList
  <2> QED
    BY <1>6, <2>2, <2>4, <2>5 DEF StreamsAsListed
<1>7. LabelledBy(first, table, f[Len(table)], Len(table))
  BY <1>1, <1>2, <1>3, <1>6, TableLabels
<1>8. \A i \in 1..Len(table) : table[i] \in ToSet(table)
  BY <1>2 DEF ToSet
<1>9. ASSUME NEW a \in ToSet(table), mapStream'[a.id] # None
      PROVE  mapStream'[a.id].type = a.type /\ mapStream'[a.id].tag = a.tag
  <2>1. a.id \in PacketIds
    BY <1>4 DEF Assets
  <2>2. PICK i \in 1..Len(table) : table[i] = a
    BY <1>2 DEF ToSet
  <2>3. CASE /\ mapStream'[a.id] = first.streams[a.id]
             /\ \A j \in 1..Len(table) : table[j].id = a.id => table[j].type = OtherType
    <3>1. a.type = OtherType /\ mapStream[a.id] # None /\ a.id \notin Retyped(ToSet(table))
      BY <1>5, <1>9, <2>1, <2>2, <2>3
    <3>2. mapStream[a.id] \in Streams
      BY <2>1, <3>1 DEF RegistryInv, Sound, RegistryTyped, Registry
    <3>3. mapStream[a.id].type = a.type
      BY <3>1 DEF Retyped
    <3> QED
      BY <3>1, <3>2, <3>3 DEF Streams, RegistryAssumption
  <2>4. CASE \E j \in 1..Len(table) :
               /\ table[j].id = a.id
               /\ mapStream'[a.id].type = table[j].type /\ mapStream'[a.id].tag = table[j].tag
    BY <1>3, <2>2, <2>4 DEF Distinct
  <2> QED
    BY <1>1, <1>7, <1>9, <2>1, <2>3, <2>4 DEF LabelledBy
<1>10. ASSUME NEW q \in Packages \ {p}, NEW b \in listed[q], mapStream'[b.id] # None
       PROVE  mapStream'[b.id].type = b.type /\ mapStream'[b.id].tag = b.tag
  <2>1. b.id \in PacketIds
    BY DEF RegistryInv, Assets
  <2>2. CASE mapStream'[b.id] = first.streams[b.id]
    BY <1>5, <1>10, <2>1, <2>2 DEF StreamsAsListed
  <2>3. CASE \E j \in 1..Len(table) :
               /\ table[j].id = b.id
               /\ mapStream'[b.id].type = table[j].type /\ mapStream'[b.id].tag = table[j].tag
    BY <1>2, <1>8, <2>3 DEF MayList
  <2> QED
    BY <1>1, <1>7, <1>10, <2>1, <2>2, <2>3 DEF LabelledBy
<1>11. StreamsAsListed'
  BY <1>4, <1>9, <1>10 DEF StreamsAsListed
<1> QED
  BY <1>2, <1>11

\* There is a stream for an asset if its type is supported.
SupportedHaveStreams ==
  \A p \in Packages : \A a \in listed[p] : mapStream[a.id] # None <=> a.type # OtherType

\* So the registry has it.
LEMMA SupportedStreams == RegistryInv => SupportedHaveStreams
<1> SUFFICES ASSUME RegistryInv, NEW p \in Packages, NEW a \in listed[p]
             PROVE  mapStream[a.id] # None <=> a.type # OtherType
  BY DEF SupportedHaveStreams
<1>1. a.id \in PacketIds
  BY DEF RegistryInv, Assets
<1>2. mapStream[a.id] # None <=>
        \E q \in Packages : \E b \in listed[q] : b.id = a.id /\ b.type # OtherType
  BY <1>1 DEF RegistryInv, StreamsAreListedAssets, Registered, IdsOf
<1> QED
  BY <1>2 DEF RegistryInv, Agreed

\* A table leaves the PIDs of what is listed as before, its own or another's.
LEMMA CarriedStay ==
  ASSUME RegistryAssumption, RegistryInv, StreamsAsListed, NEW p \in Packages, PackageTable(p),
         NEW q \in Packages, listed'[q] = listed[q]
  PROVE  CarriedPids(mapStream', listed'[q]) = CarriedPids(mapStream, listed[q])
<1>1. RegistryInv' /\ StableStep
  <2>1. [Next]_vars /\ ([StableStep]_vars => StableStep \/ UNCHANGED vars)
    BY DEF Next
  <2>2. UNCHANGED vars => StableStep
    BY DEF vars, StableStep, Registered
  <2> QED
    BY <2>1, <2>2, RegistryStep
<1>1a. SupportedHaveStreams /\ SupportedHaveStreams'
  BY <1>1, SupportedStreams, PTL
<1>2. StreamsAsListed'
  BY LabelsStay
<1>3. ASSUME NEW a \in listed[q]
      PROVE  /\ mapStream'[a.id] # None <=> mapStream[a.id] # None
             /\ mapStream[a.id] # None =>
                  /\ mapStream'[a.id].tag = mapStream[a.id].tag
                  /\ mapStream'[a.id].pid = mapStream[a.id].pid
  <2>1. a \in listed'[q] /\ a.id \in PacketIds
    BY DEF RegistryInv, Assets
  <2>2. mapStream'[a.id] # None <=> mapStream[a.id] # None
    BY <1>1a, <2>1 DEF SupportedHaveStreams
  <2>3. ASSUME mapStream[a.id] # None
        PROVE  /\ mapStream'[a.id].tag = mapStream[a.id].tag
               /\ mapStream'[a.id].pid = mapStream[a.id].pid
    <3>1. /\ mapStream[a.id].type = a.type /\ mapStream[a.id].tag = a.tag
          /\ mapStream'[a.id].type = a.type /\ mapStream'[a.id].tag = a.tag
      BY <1>2, <2>1, <2>2, <2>3 DEF StreamsAsListed
    <3> QED
      BY <1>1, <2>1, <2>2, <2>3, <3>1 DEF StableStep, Registered
  <2> QED
    BY <2>2, <2>3
<1> QED
  BY <1>3 DEF CarriedPids

-----------------------------------------------------------------------------
(* The PIDs of the PMTs.                                                   *)

\* What the proofs assume of the constants.
Assumed == RegistryAssumption /\ ProgramAssumption

\* A service keeps its PID; one that has none gets one that nobody has, or there is
\* none left.
LEMMA PmtPidIsFree ==
  ASSUME Assumed, NEW assigned, PidsAssigned(assigned), NEW s \in Packages, NEW n
  PROVE  LET pid == PmtPidForService(assigned, s, n)
         IN /\ assigned[s] # None => pid = assigned[s] /\ pid \in PmtPids
            /\ assigned[s] = None =>
                 \/ pid \in PmtPids /\ \A other \in Packages : assigned[other] # pid
                 \/ /\ pid = LastPmtPid + 1
                    /\ \A q \in PmtPids : \E other \in Packages : assigned[other] = q
<1> DEFINE free == (PmtPids \cup {LastPmtPid + 1}) \ {assigned[other] : other \in Packages}
           pid == PmtPidForService(assigned, s, n)
<1>1. CASE assigned[s] # None
  <2>1. pid = assigned[s]
    BY <1>1 DEF PmtPidForService
  <2>2. assigned[s] \in PmtPids
    BY <1>1 DEF PidsAssigned
  <2> QED
    BY <1>1, <2>1, <2>2
<1>2. CASE assigned[s] = None
  <2>1. pid = Min(free)
    BY <1>2 DEF PmtPidForService
  <2>2. free \in SUBSET Nat /\ LastPmtPid + 1 \in free
    BY DEF Assumed, ProgramAssumption, RegistryAssumption, PidsAssigned, PmtPids
  <2>3. PICK m \in free : \A k \in free : m <= k
    BY <2>2, LeastNumber
  <2>4. Min(free) \in free /\ \A k \in free : Min(free) <= k
    BY <2>3, Zenon DEF Min
  <2>5. CASE pid \in PmtPids
    BY <1>2, <2>1, <2>4, <2>5
  <2>6. CASE pid \notin PmtPids
    <3>1. pid = LastPmtPid + 1
      BY <2>1, <2>4, <2>6
    <3>2. \A q \in PmtPids : ~(LastPmtPid + 1 <= q)
      BY DEF PmtPids, Assumed, ProgramAssumption
    <3>3. \A q \in PmtPids : q \notin free
      BY <2>1, <2>4, <3>1, <3>2
    <3> QED
      BY <1>2, <3>1, <3>3
  <2> QED
    BY <2>5, <2>6
<1> QED
  BY <1>1, <1>2

\* What n services of a list have come to, from the PIDs assigned before.
PidTables == [Packages -> PmtPids \cup {None}]

Reached(before, services, r, n) ==
  /\ r \in [assigned : PidTables, pids : PidTables, full : BOOLEAN]
  /\ PidsAssigned(r.assigned)
  /\ \A s \in Packages : before[s] # None => r.assigned[s] = before[s]
  /\ \E k \in 0..n :
       /\ SettledAt(r.assigned, services, r.pids, k, n)
       /\ r.full <=> k < n
       /\ \A s \in Packages \ FirstOf(services, k) : r.assigned[s] = before[s]

\* One service more.
LEMMA AssignReaches ==
  ASSUME Assumed, NEW before, NEW services \in Seq(Packages), NEW n \in Nat, n < Len(services),
         NEW r, Reached(before, services, r, n)
  PROVE  Reached(before, services, Assign(r, services[n + 1]), n + 1)
<1> DEFINE s == services[n + 1]
           count == Cardinality({o \in Packages : r.pids[o] # None})
           pid == PmtPidForService(r.assigned, s, count)
           t == Assign(r, s)
<1>1. s \in Packages
  OBVIOUS
<1>2. PICK k \in 0..n :
        /\ SettledAt(r.assigned, services, r.pids, k, n)
        /\ r.full <=> k < n
        /\ \A o \in Packages \ FirstOf(services, k) : r.assigned[o] = before[o]
  BY DEF Reached
<1>3. /\ r \in [assigned : PidTables, pids : PidTables, full : BOOLEAN]
      /\ PidsAssigned(r.assigned)
      /\ \A o \in Packages : before[o] # None => r.assigned[o] = before[o]
  BY DEF Reached
<1>4. /\ r.assigned[s] # None => pid = r.assigned[s] /\ pid \in PmtPids
      /\ r.assigned[s] = None =>
           \/ pid \in PmtPids /\ \A other \in Packages : r.assigned[other] # pid
           \/ /\ pid = LastPmtPid + 1
              /\ \A q \in PmtPids : \E other \in Packages : r.assigned[other] = q
  BY <1>1, <1>3, PmtPidIsFree
<1>5. /\ r.full \/ pid > LastPmtPid => t = [r EXCEPT !.full = TRUE]
      /\ ~(r.full \/ pid > LastPmtPid) => t = [r EXCEPT !.assigned[s] = pid, !.pids[s] = pid]
  BY DEF Assign
<1>6. /\ \A q \in PmtPids : q \in Nat /\ q <= LastPmtPid /\ ~(q > LastPmtPid) /\ q # None
      /\ LastPmtPid \in Nat
  BY DEF PmtPids, Assumed, ProgramAssumption, RegistryAssumption
<1> HIDE DEF s, count, pid, t
<1>7. CASE r.full
  <2>1. t = r
    BY <1>3, <1>5, <1>7
  <2>2. k \in 0..(n + 1) /\ k < n /\ k < n + 1
    BY <1>2, <1>7
  <2>3. SettledAt(t.assigned, services, t.pids, k, n + 1)
    BY <1>2, <2>1, <2>2 DEF SettledAt
  <2>4. Reached(before, services, t, n + 1)
    BY <1>2, <1>3, <1>7, <2>1, <2>2, <2>3 DEF Reached
  <2> QED
    BY <2>4 DEF t, s
<1>8. CASE ~r.full /\ pid \notin PmtPids
  <2>1. k = n
    BY <1>2, <1>8
  <2>2. /\ r.assigned[s] = None /\ pid > LastPmtPid
        /\ \A q \in PmtPids : \E other \in Packages : r.assigned[other] = q
    BY <1>4, <1>6, <1>8
  <2>3. /\ t \in [assigned : PidTables, pids : PidTables, full : BOOLEAN]
        /\ t.assigned = r.assigned /\ t.pids = r.pids /\ t.full
    BY <1>3, <1>5, <2>2
  <2>4. n \in 0..(n + 1) /\ n < n + 1
    OBVIOUS
  <2>5. SettledAt(t.assigned, services, t.pids, n, n + 1)
    BY <1>2, <2>1, <2>2, <2>3 DEF SettledAt, s
  <2>6. Reached(before, services, t, n + 1)
    BY <1>2, <1>3, <2>1, <2>3, <2>4, <2>5 DEF Reached
  <2> QED
    BY <2>6 DEF t, s
<1>9. CASE ~r.full /\ pid \in PmtPids
  <2>1. k = n
    BY <1>2, <1>9
  <2>2. /\ t.assigned = [r.assigned EXCEPT ![s] = pid] /\ t.pids = [r.pids EXCEPT ![s] = pid]
        /\ ~t.full
        /\ t \in [assigned : PidTables, pids : PidTables, full : BOOLEAN]
    <3>1. t = [r EXCEPT !.assigned[s] = pid, !.pids[s] = pid]
      BY <1>5, <1>6, <1>9
    <3>2. /\ [r.assigned EXCEPT ![s] = pid] \in PidTables
          /\ [r.pids EXCEPT ![s] = pid] \in PidTables
      BY <1>1, <1>3, <1>9 DEF PidTables
    <3> QED
      BY <1>3, <1>9, <3>1, <3>2
  <2>3. /\ t.assigned[s] = pid /\ t.pids[s] = pid
        /\ \A o \in Packages \ {s} : t.assigned[o] = r.assigned[o] /\ t.pids[o] = r.pids[o]
    BY <1>1, <1>3, <2>2 DEF PidTables
  <2>4. FirstOf(services, n + 1) = FirstOf(services, n) \cup {s}
    <3>1. 1..(n + 1) = 1..n \cup {n + 1}
      OBVIOUS
    <3> QED
      BY <3>1 DEF FirstOf, s
  <2>5. \A o \in Packages : r.assigned[o] # None => t.assigned[o] = r.assigned[o]
    BY <1>4, <1>9, <2>3
  <2>6. PidsAssigned(t.assigned)
    <3>1. t.assigned \in [Packages -> PmtPids \cup {None}]
      BY <2>2 DEF PidTables
    <3>2. ASSUME NEW o \in Packages, NEW other \in Packages,
                 t.assigned[o] # None, t.assigned[o] = t.assigned[other]
          PROVE  o = other
      <4>1. CASE r.assigned[s] # None
        BY <1>3, <1>4, <2>3, <3>2, <4>1 DEF PidsAssigned
      <4>2. CASE r.assigned[s] = None
        BY <1>3, <1>4, <1>6, <1>9, <2>3, <3>2, <4>2 DEF PidsAssigned
      <4> QED
        BY <4>1, <4>2
    <3> QED
      BY <3>1, <3>2 DEF PidsAssigned
  <2>7. SettledAt(t.assigned, services, t.pids, n + 1, n + 1)
    <3>1. \A o \in FirstOf(services, n + 1) : t.assigned[o] # None
      <4>1. FirstOf(services, n) \in SUBSET Packages
        BY DEF FirstOf
      <4>2. \A o \in FirstOf(services, n) : r.assigned[o] # None
        BY <1>2, <2>1 DEF SettledAt
      <4>3. t.assigned[s] # None
        BY <1>6, <1>9, <2>3
      <4> QED
        BY <2>4, <2>5, <4>1, <4>2, <4>3
    <3>2. t.pids \in PidTables
      BY <2>2
    <3>3. ASSUME NEW o \in Packages
          PROVE  t.pids[o] = IF o \in FirstOf(services, n + 1) THEN t.assigned[o] ELSE None
      <4>1. CASE o = s
        BY <2>3, <2>4, <4>1
      <4>2. CASE o # s
        BY <1>2, <2>1, <2>3, <2>4, <4>2 DEF SettledAt
      <4> QED
        BY <4>1, <4>2
    <3>4. t.pids = [o \in Packages |->
                      IF o \in FirstOf(services, n + 1) THEN t.assigned[o] ELSE None]
      BY <3>2, <3>3 DEF PidTables
    <3> QED
      BY <3>1, <3>4 DEF SettledAt
  <2>8. \A o \in Packages : before[o] # None => t.assigned[o] = before[o]
    BY <1>3, <2>5
  <2>9. \A o \in Packages \ FirstOf(services, n + 1) : t.assigned[o] = before[o]
    BY <1>2, <2>1, <2>3, <2>4
  <2>10. n + 1 \in 0..(n + 1) /\ ~(n + 1 < n + 1)
    OBVIOUS
  <2>11. Reached(before, services, t, n + 1)
    BY <2>2, <2>6, <2>7, <2>8, <2>9, <2>10 DEF Reached
  <2> QED
    BY <2>11 DEF t, s
<1> QED
  BY <1>7, <1>8, <1>9

\* The steps of a list's services, as AllAssigned takes them.
LEMMA ServicesTaken ==
  ASSUME NEW services, Len(services) \in Nat
  PROVE  \E f :
           /\ f[0] = [assigned |-> assignedPmtPids, pids |-> NoPids, full |-> FALSE]
           /\ \A i \in 1..Len(services) : f[i] = Assign(f[i - 1], services[i])
           /\ AllAssigned(services) = f[Len(services)]
<1> DEFINE first == [assigned |-> assignedPmtPids, pids |-> NoPids, full |-> FALSE]
           F(f, n) == f = [i \in 0..n |-> IF i = 0 THEN first ELSE Assign(f[i - 1], services[i])]
           T == {n \in Nat : \E f : F(f, n)}
<1> HIDE DEF first
<1>1. 0 \in T
  <2>1. F([i \in 0..0 |-> first], 0)
    OBVIOUS
  <2> QED
    BY <2>1, Zenon
<1>2. ASSUME NEW n \in T PROVE n + 1 \in T
  <2>1. PICK f : F(f, n)
    BY <1>2
  <2> DEFINE g == [i \in 0..(n + 1) |->
                     IF i = n + 1 THEN Assign(f[n], services[n + 1]) ELSE f[i]]
  <2>2. F(g, n + 1)
    BY <2>1
  <2> HIDE DEF g
  <2>3. \E h : F(h, n + 1)
    BY <2>2, Zenon
  <2>4. n + 1 \in Nat
    OBVIOUS
  <2> QED
    BY <2>3, <2>4
<1>3. T = Nat
  <2>1. T \in SUBSET Nat
    OBVIOUS
  <2> HIDE DEF T
  <2> QED
    BY <1>1, <1>2, <2>1, Induction
<1>4. PICK f : F(f, Len(services))
  BY <1>3
<1> DEFINE after == CHOOSE g : F(g, Len(services))
<1>5. F(after, Len(services))
  BY <1>4
<1>6. AllAssigned(services) = after[Len(services)]
  BY DEF AllAssigned, first
<1> HIDE DEF after
<1>7. /\ after[0] = first
      /\ \A i \in 1..Len(services) : after[i] = Assign(after[i - 1], services[i])
  BY <1>5
<1> QED
  BY <1>6, <1>7, Zenon DEF first

\* What the whole list comes to.
LEMMA ListReaches ==
  ASSUME Assumed, NEW services \in Seq(Packages), PidsAssigned(assignedPmtPids)
  PROVE  Reached(assignedPmtPids, services, AllAssigned(services), Len(services))
<1>1. PICK f :
        /\ f[0] = [assigned |-> assignedPmtPids, pids |-> NoPids, full |-> FALSE]
        /\ \A i \in 1..Len(services) : f[i] = Assign(f[i - 1], services[i])
        /\ AllAssigned(services) = f[Len(services)]
  <2>1. Len(services) \in Nat
    OBVIOUS
  <2> QED
    BY <2>1, ServicesTaken
<1> DEFINE Good(n) == Reached(assignedPmtPids, services, f[n], n)
           T == {n \in 0..Len(services) : Good(n)}
<1>2. 0 \in T
  <2>1. /\ f[0] \in [assigned : PidTables, pids : PidTables, full : BOOLEAN]
        /\ f[0].assigned = assignedPmtPids /\ f[0].pids = NoPids /\ f[0].full = FALSE
    <3>1. assignedPmtPids \in PidTables /\ NoPids \in PidTables
      BY DEF PidTables, PidsAssigned, NoPids
    <3> QED
      BY <1>1, <3>1
  <2>2. SettledAt(assignedPmtPids, services, NoPids, 0, 0)
    BY DEF SettledAt, FirstOf, NoPids
  <2>3. Good(0)
    BY <2>1, <2>2 DEF Reached
  <2> HIDE DEF Good
  <2> QED
    BY <2>3
<1>3. ASSUME NEW n \in T, n < Len(services) PROVE n + 1 \in T
  <2>1. Good(n) /\ n \in Nat /\ n + 1 \in 1..Len(services)
    BY <1>3
  <2>2. f[n + 1] = Assign(f[n], services[n + 1])
    BY <1>1, <2>1
  <2>3. Good(n + 1)
    BY <1>3, <2>1, <2>2, AssignReaches
  <2> HIDE DEF Good
  <2> QED
    BY <2>1, <2>3
<1>4. T = 0..Len(services)
  <2>1. T \in SUBSET (0..Len(services)) /\ Len(services) \in Nat
    OBVIOUS
  <2> HIDE DEF T
  <2> QED
    BY <1>2, <1>3, <2>1, InductionTo
<1>5. Good(Len(services))
  <2>1. Len(services) \in T
    BY <1>4
  <2> HIDE DEF Good
  <2> QED
    BY <2>1
<1> QED
  BY <1>1, <1>5

\* A list that has been settled changes nothing when it comes again.
LEMMA SameList ==
  ASSUME Assumed, NEW assigned, NEW pids, NEW services, PidsAssigned(assigned),
         Settled(assigned, services, pids),
         NEW r, Reached(assigned, services, r, Len(services))
  PROVE  r.assigned = assigned /\ r.pids = pids
<1>1. PICK k \in 0..Len(services) : SettledAt(assigned, services, pids, k, Len(services))
  BY DEF Settled
<1>2. PICK l \in 0..Len(services) :
        /\ SettledAt(r.assigned, services, r.pids, l, Len(services))
        /\ \A s \in Packages \ FirstOf(services, l) : r.assigned[s] = assigned[s]
  BY DEF Reached
<1>3. /\ r.assigned \in PidTables /\ PidsAssigned(r.assigned) /\ assigned \in PidTables
      /\ \A s \in Packages : assigned[s] # None => r.assigned[s] = assigned[s]
  BY DEF Reached, PidTables, PidsAssigned
<1>4. services \in Seq(Packages) /\ Len(services) \in Nat
  BY DEF Settled
<1>5. \A i \in 1..Len(services) : services[i] \in Packages
  BY <1>4
<1>6. \A i \in 1..k : assigned[services[i]] # None
  BY <1>1 DEF SettledAt, FirstOf
<1>7. \A s \in Packages : r.assigned[s] = assigned[s]
  <2> SUFFICES ASSUME NEW s \in Packages, assigned[s] = None, r.assigned[s] # None
               PROVE  FALSE
    BY <1>3
  <2>1. s \in FirstOf(services, l)
    BY <1>2
  <2>2. CASE k = Len(services)
    <3>1. PICK i \in 1..l : s = services[i]
      BY <2>1 DEF FirstOf
    <3>2. i \in 1..k
      BY <1>4, <2>2
    <3> QED
      BY <1>6, <3>1, <3>2
  <2>3. CASE k < Len(services)
    <3>1. r.assigned[s] \in PmtPids
      BY <1>3 DEF PidTables
    <3>2. PICK other \in Packages : assigned[other] = r.assigned[s]
      BY <1>1, <2>3, <3>1 DEF SettledAt
    <3>3. r.assigned[other] = r.assigned[s]
      BY <1>3, <3>2
    <3>4. other = s
      BY <1>3, <3>3 DEF PidsAssigned
    <3> QED
      BY <3>2, <3>4
  <2> QED
    BY <1>4, <2>2, <2>3
<1>8. r.assigned = assigned
  BY <1>3, <1>7 DEF PidTables
<1>9. k = l
  <2>1. ~(k < l)
    <3> SUFFICES ASSUME k < l PROVE FALSE
      OBVIOUS
    <3>1. k < Len(services) /\ k + 1 \in 1..l
      BY <1>4
    <3>2. assigned[services[k + 1]] = None
      BY <1>1, <3>1 DEF SettledAt
    <3>3. services[k + 1] \in FirstOf(services, l)
      BY <3>1 DEF FirstOf
    <3> QED
      BY <1>2, <1>8, <3>2, <3>3 DEF SettledAt
  <2>2. ~(l < k)
    <3> SUFFICES ASSUME l < k PROVE FALSE
      OBVIOUS
    <3>1. l < Len(services) /\ l + 1 \in 1..k
      BY <1>4
    <3>2. r.assigned[services[l + 1]] = None
      BY <1>2, <3>1 DEF SettledAt
    <3> QED
      BY <1>6, <1>8, <3>1, <3>2
  <2> QED
    BY <2>1, <2>2
<1> QED
  BY <1>1, <1>2, <1>8, <1>9 DEF SettledAt

\* The lists that onPlt may get.
LEMMA ListsAreSequences ==
  ASSUME Assumed, NEW services \in SetToAllKPermutations(Packages)
  PROVE  services \in Seq(Packages) /\ services # None
<1>1. PICK S \in SUBSET Packages : services \in SetToSeqs(S)
  BY DEF SetToAllKPermutations
<1>2. IsFiniteSet(S)
  BY FS_Subset DEF Assumed, ProgramAssumption
<1>3. Cardinality(S) \in Nat
  BY <1>2, FS_CardinalityType
<1>4. services \in [1..Cardinality(S) -> S]
  BY <1>1, Zenon DEF SetToSeqs
<1>5. services \in Seq(Packages)
  BY <1>3, <1>4
<1> QED
  BY <1>5 DEF Assumed, ProgramAssumption

-----------------------------------------------------------------------------
(* The steps.                                                              *)

\* After clear() everything is empty, here and at the receiver.
Cleared ==
  /\ mapService2Pid = NoPids /\ assignedPmtPids = NoPids
  /\ pat = [version |-> None, pids |-> NoPids]
  /\ pmts = [s \in Packages |-> None]
  /\ program = [pid \in PmtPids |-> None]
  /\ listed = [p \in Packages |-> {}]

\* There is nothing to contradict then.
LEMMA ClearedAgrees == RegistryInv /\ Cleared => ProgramInv
<1> SUFFICES ASSUME RegistryInv, Cleared PROVE ProgramInv
  OBVIOUS
<1>1. StreamsAsListed
  BY DEF Cleared, StreamsAsListed
<1>2. PidsAssigned(assignedPmtPids)
  BY DEF Cleared, PidsAssigned, NoPids
<1>3. PatIsCurrent
  BY DEF Cleared, PatIsCurrent
<1>4. PmtsAreLast
  BY DEF Cleared, PmtsAreLast
<1>5. SentOnTheirPids
  BY DEF Cleared, SentOnTheirPids
<1> QED
  BY <1>1, <1>2, <1>3, <1>4, <1>5 DEF ProgramInv

\* Initially.
LEMMA ProgramStart == Assumed /\ ProgramInit => ProgramInv
<1> SUFFICES ASSUME Assumed, ProgramInit PROVE ProgramInv
  OBVIOUS
<1>1. RegistryInv
  BY RegistryInit DEF Assumed, ProgramInit
<1>2. Cleared
  BY DEF ProgramInit, Init, Cleared
<1> QED
  BY <1>1, <1>2, ClearedAgrees

\* A change of the channel.
LEMMA ChannelChanges == Assumed /\ ProgramInv /\ ChangeChannel => ProgramInv'
<1> SUFFICES ASSUME Assumed, ProgramInv, ChangeChannel PROVE ProgramInv'
  OBVIOUS
<1>1. RegistryInv'
  BY RegistryStep DEF Assumed, ProgramInv, ChangeChannel, Next
<1>2. Cleared'
  BY DEF ChangeChannel, Clear, Cleared, NoPids
<1> QED
  BY <1>1, <1>2, ClearedAgrees, PTL

\* A list of services.
LEMMA ServicesListed == Assumed /\ ProgramInv /\ OnPlt => ProgramInv'
<1> SUFFICES ASSUME Assumed, ProgramInv, OnPlt PROVE ProgramInv'
  OBVIOUS
<1>1. PICK services \in SetToAllKPermutations(Packages) :
        /\ assignedPmtPids' = AllAssigned(services).assigned
        /\ mapService2Pid' = AllAssigned(services).pids
        /\ ReceivePat(services, AllAssigned(services).pids)
        /\ UNCHANGED vars
  BY DEF OnPlt
<1> DEFINE r == AllAssigned(services)
<1>2. services \in Seq(Packages) /\ services # None
  BY <1>1, ListsAreSequences
<1>3. Reached(assignedPmtPids, services, r, Len(services))
  BY <1>2, ListReaches DEF ProgramInv
<1> HIDE DEF r
<1>4. Settled(r.assigned, services, r.pids)
  BY <1>2, <1>3 DEF Reached, Settled
<1>5. PidsAssigned(r.assigned) /\ r.pids \in PidTables
  BY <1>3 DEF Reached
<1>6. RegistryInv' /\ StreamsAsListed' /\ mapStream' = mapStream /\ listed' = listed
  <2>1. RegistryInv'
    BY <1>1, RegistryStep DEF Assumed, ProgramInv
  <2> QED
    BY <1>1, <2>1 DEF vars, ProgramInv, StreamsAsListed
<1>7. PidsAssigned(assignedPmtPids)'
  BY <1>1, <1>5 DEF r
<1>8. SentOnTheirPids'
  <2>1. program' = program
    BY <1>1 DEF ReceivePat
  <2>2. \A s \in Packages : assignedPmtPids[s] # None => assignedPmtPids'[s] = assignedPmtPids[s]
    BY <1>1, <1>3 DEF Reached, r
  <2>3. \A pid \in PmtPids : pid # None
    BY DEF PmtPids, Assumed, ProgramAssumption, RegistryAssumption
  <2> QED
    BY <2>1, <2>2, <2>3 DEF ProgramInv, SentOnTheirPids
<1>9. CASE services = pat.version
  <2>1. UNCHANGED <<pat, pmts>>
    BY <1>1, <1>9 DEF ReceivePat
  <2>2. Settled(assignedPmtPids, services, pat.pids)
    BY <1>2, <1>9 DEF ProgramInv, PatIsCurrent
  <2>3. r.assigned = assignedPmtPids /\ r.pids = pat.pids
    BY <1>3, <2>2, SameList DEF ProgramInv
  <2>4. PatIsCurrent'
    BY <1>1, <2>1, <2>3 DEF ProgramInv, PatIsCurrent, r
  <2>5. PmtsAreLast'
    BY <1>6, <2>1 DEF ProgramInv, PmtsAreLast, PmtIsLast
  <2> QED
    BY <1>6, <1>7, <1>8, <2>4, <2>5 DEF ProgramInv
<1>10. CASE services # pat.version
  <2>1. /\ pat' = [version |-> services, pids |-> r.pids]
        /\ pmts' = [s \in Packages |-> IF r.pids[s] = pat.pids[s] THEN pmts[s] ELSE None]
    BY <1>1, <1>10 DEF ReceivePat, r
  <2>2. PatIsCurrent'
    <3>1. pat'.version = services /\ pat'.pids = r.pids
      BY <2>1
    <3> QED
      BY <1>1, <1>2, <1>4, <3>1 DEF PatIsCurrent, r
  <2>3. PmtsAreLast'
    <3>1. pat'.pids = r.pids /\ DOMAIN pmts' = Packages
      BY <2>1
    <3>2. ASSUME NEW s \in Packages, pmts'[s] # None PROVE PmtIsLast(s)'
      <4>1. pmts'[s] = pmts[s] /\ pat'.pids[s] = pat.pids[s]
        BY <2>1, <3>1, <3>2
      <4> QED
        BY <1>6, <3>2, <4>1 DEF ProgramInv, PmtsAreLast, PmtIsLast
    <3> QED
      BY <3>1, <3>2 DEF PmtsAreLast
  <2> QED
    BY <1>6, <1>7, <1>8, <2>2, <2>3 DEF ProgramInv
<1> QED
  BY <1>9, <1>10

\* The PIDs that services have are those assigned to them.
LEMMA PatIsAssigned ==
  ASSUME PatIsCurrent, NEW s \in Packages
  PROVE  mapService2Pid[s] = pat.pids[s] /\ pat.pids[s] \in {None, assignedPmtPids[s]}
  BY DEF PatIsCurrent, Settled, SettledAt, NoPids

\* A package table, and the PMT that is made of it.
LEMMA PackageListed ==
  ASSUME Assumed, ProgramInv, NEW p \in Packages, OnMpt(p)
  PROVE  ProgramInv'
<1>1. /\ PackageTable(p)
      /\ IF mapService2Pid[p] = None THEN UNCHANGED <<pat, pmts, program>>
         ELSE ReceivePmt(p, Pmt(p, mapStream', listed'[p]))
      /\ UNCHANGED <<mapService2Pid, assignedPmtPids>>
  BY DEF OnMpt
<1>2. RegistryInv'
  BY <1>1, RegistryStep DEF Assumed, ProgramInv, Next
<1>3. StreamsAsListed' /\ \E assets : listed' = [listed EXCEPT ![p] = assets]
  BY <1>1, LabelsStay DEF Assumed, ProgramInv
<1>4. \A q \in Packages : listed'[q] = listed[q] =>
        CarriedPids(mapStream', listed'[q]) = CarriedPids(mapStream, listed[q])
  BY <1>1, CarriedStay DEF Assumed, ProgramInv
<1>5. \A q \in Packages \ {p} : listed'[q] = listed[q]
  BY <1>3 DEF ProgramInv, RegistryInv
<1>6. mapService2Pid[p] = pat.pids[p] /\ pat.pids[p] \in {None, assignedPmtPids[p]}
  BY PatIsAssigned DEF ProgramInv
<1>7. \A s \in Packages : pmts[s] # None => PmtIsLast(s)
  BY DEF ProgramInv, PmtsAreLast
<1>8. UNCHANGED pat
  BY <1>1 DEF ReceivePmt
<1>9. ASSUME NEW q \in Packages, pmts[q] # None, listed'[q] = listed[q], pmts'[q] = pmts[q]
      PROVE  PmtIsLast(q)'
  BY <1>4, <1>7, <1>8, <1>9 DEF PmtIsLast
<1>10. CASE mapService2Pid[p] = None
  <2>1. UNCHANGED <<pat, pmts, program>>
    BY <1>1, <1>10
  <2>2. pmts[p] = None
    BY <1>6, <1>7, <1>10 DEF PmtIsLast
  <2>3. PmtsAreLast'
    BY <1>5, <1>9, <2>1, <2>2 DEF ProgramInv, PmtsAreLast
  <2>4. PatIsCurrent' /\ SentOnTheirPids' /\ PidsAssigned(assignedPmtPids)'
    BY <1>1, <2>1 DEF ProgramInv, PatIsCurrent, SentOnTheirPids
  <2> QED
    BY <1>2, <1>3, <2>3, <2>4 DEF ProgramInv
<1>11. CASE mapService2Pid[p] # None
  <2> DEFINE pmt == Pmt(p, mapStream', listed'[p])
             pid == mapService2Pid[p]
  <2>1. /\ program' = [program EXCEPT ![pid] = p]
        /\ pmts' = IF pmts[p] = None \/ pmts[p].version # pmt.version
                   THEN [pmts EXCEPT ![p] = pmt] ELSE pmts
    BY <1>1, <1>6, <1>11 DEF ReceivePmt
  <2>2. /\ pmt.version = listed'[p] /\ pmt.streams = CarriedPids(mapStream', listed'[p])
        /\ pmt.data \subseteq {AppDataPid(pat.pids[p])}
    BY <1>6 DEF Pmt
  <2>3. pid = assignedPmtPids[p] /\ pid \in PmtPids
    BY <1>6, <1>11 DEF ProgramInv, PidsAssigned
  <2> HIDE DEF pmt, pid
  <2>4. PmtsAreLast'
    <3>1. DOMAIN pmts = Packages
      BY DEF ProgramInv, PmtsAreLast
    <3>2. CASE pmts[p] = None \/ pmts[p].version # pmt.version
      <4>1. /\ DOMAIN pmts' = Packages /\ pmts'[p] = pmt
            /\ \A q \in Packages \ {p} : pmts'[q] = pmts[q]
        BY <2>1, <3>1, <3>2
      <4>2. PmtIsLast(p)'
        BY <1>6, <1>8, <1>11, <2>2, <4>1 DEF PmtIsLast
      <4> QED
        BY <1>5, <1>9, <4>1, <4>2 DEF PmtsAreLast
    <3>3. CASE ~(pmts[p] = None \/ pmts[p].version # pmt.version)
      <4>1. pmts' = pmts /\ listed'[p] = listed[p]
        BY <1>7, <2>1, <2>2, <3>3 DEF PmtIsLast
      <4> QED
        BY <1>5, <1>9, <3>1, <4>1 DEF PmtsAreLast
    <3> QED
      BY <3>2, <3>3
  <2>5. SentOnTheirPids'
    BY <1>1, <2>1, <2>3 DEF ProgramInv, SentOnTheirPids
  <2>6. PatIsCurrent' /\ PidsAssigned(assignedPmtPids)'
    BY <1>1, <1>8 DEF ProgramInv, PatIsCurrent
  <2> QED
    BY <1>2, <1>3, <2>4, <2>5, <2>6 DEF ProgramInv
<1> QED
  BY <1>10, <1>11

\* Every step.
LEMMA ProgramStep == Assumed /\ ProgramInv /\ [ProgramNext]_allVars => ProgramInv'
<1> SUFFICES ASSUME Assumed, ProgramInv, [ProgramNext]_allVars PROVE ProgramInv'
  OBVIOUS
<1>1. CASE OnPlt
  BY <1>1, ServicesListed
<1>2. ASSUME UNCHANGED <<vars, mapService2Pid, assignedPmtPids, pat, pmts, program>>
      PROVE  ProgramInv'
  <2>1. RegistryInv'
    BY <1>2, RegistryStep DEF Assumed, ProgramInv
  <2> QED
    BY <1>2, <2>1 DEF ProgramInv, vars, StreamsAsListed, PatIsCurrent, PmtsAreLast, PmtIsLast,
                      SentOnTheirPids
<1>3. CASE OnStreamId
  BY <1>2, <1>3 DEF OnStreamId
<1>4. CASE ChangeChannel
  BY <1>4, ChannelChanges
<1>5. ASSUME NEW p \in Packages, OnMpt(p) PROVE ProgramInv'
  BY <1>5, PackageListed
<1>6. CASE UNCHANGED allVars
  BY <1>2, <1>6 DEF allVars
<1> QED
  BY <1>1, <1>3, <1>4, <1>5, <1>6 DEF ProgramNext

\* What the properties take from the invariant.
LEMMA ProgramSays == Assumed /\ ProgramInv => PmtsAreCurrent /\ EachPidOneUse
<1> SUFFICES ASSUME Assumed, ProgramInv PROVE PmtsAreCurrent /\ EachPidOneUse
  OBVIOUS
<1>1. \A s \in Packages : pmts[s] # None => PmtIsLast(s)
  BY DEF ProgramInv, PmtsAreLast
<1>2. PmtsAreCurrent
  BY <1>1 DEF PmtsAreCurrent, Watched, PmtIsLast
<1>3. \A s \in Packages : pat.pids[s] # None =>
        pat.pids[s] = assignedPmtPids[s] /\ pat.pids[s] \in PmtPids
  BY PatIsAssigned DEF ProgramInv, PidsAssigned
<1>4. ASSUME NEW s \in Packages, pat.pids[s] # None
      PROVE  program[pat.pids[s]] \in {s, None}
  BY <1>3, <1>4 DEF ProgramInv, SentOnTheirPids, PidsAssigned
<1>5. ASSUME NEW s \in Watched, NEW other \in Watched, s # other
      PROVE  pmts[s].data \cap (pmts[other].data \cup pmts[other].streams) = {}
  <2>1. /\ pat.pids[s] \in PmtPids /\ pat.pids[other] \in PmtPids
        /\ pat.pids[s] # pat.pids[other]
    BY <1>3, <1>5 DEF Watched, ProgramInv, PidsAssigned
  <2>2. /\ pmts[s].data \subseteq {AppDataPid(pat.pids[s])}
        /\ pmts[other].data \subseteq {AppDataPid(pat.pids[other])}
        /\ pmts[other].streams = CarriedPids(mapStream, listed[other])
    BY <1>1 DEF Watched, PmtIsLast
  <2>3. AppDataPid(pat.pids[s]) # AppDataPid(pat.pids[other]) /\ AppDataPid(pat.pids[s]) >= EndPid
    BY <2>1 DEF AppDataPid, PmtPids, Assumed, ProgramAssumption, RegistryAssumption
  <2>4. CarriedPids(mapStream, listed[other]) \in SUBSET Pids
    <3>1. \A a \in listed[other] : mapStream[a.id] # None => mapStream[a.id].pid \in Pids \cup {NullPid}
      <4>1. \A a \in listed[other] : a.id \in PacketIds
        BY <1>5 DEF ProgramInv, RegistryInv, Assets, Watched
      <4>2. \A id \in PacketIds : mapStream[id] # None => mapStream[id] \in Streams
        BY DEF ProgramInv, RegistryInv, Sound, RegistryTyped, Registry
      <4> QED
        BY <4>1, <4>2 DEF Streams
    <3> QED
      BY <3>1 DEF CarriedPids
  <2>5. \A x \in Pids : x \in Int /\ ~(x >= EndPid)
    BY DEF Pids, Assumed, RegistryAssumption
  <2> QED
    BY <2>2, <2>3, <2>4, <2>5
<1>6. EachPidOneUse
  BY <1>4, <1>5 DEF EachPidOneUse
<1> QED
  BY <1>2, <1>6

\* Whatever lists and tables come, however often, in whatever order: a receiver that
\* keeps each table until its version changes has the PIDs that the streams are
\* written with, and none of the PIDs has two uses (onPlt, onMpt).
THEOREM ReceiverFindsStreams ==
  ASSUME Assumed
  PROVE  ProgramSpec => [](PmtsAreCurrent /\ EachPidOneUse)
<1>1. ProgramInit => ProgramInv
  BY ProgramStart
<1>2. ProgramInv /\ [ProgramNext]_allVars => ProgramInv'
  BY ProgramStep
<1>3. ProgramInv => PmtsAreCurrent /\ EachPidOneUse
  BY ProgramSays
<1> QED
  BY <1>1, <1>2, <1>3, PTL DEF ProgramSpec

=============================================================================
