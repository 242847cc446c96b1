--------------------------- MODULE StreamRegistry ---------------------------
(***************************************************************************)
(* The demultiplexer's registry of streams                                 *)
(* (MmtTlvDemuxer::processMmtPackageTable).  Every package (a service)     *)
(* sends tables that list its assets; the registry keeps one stream for    *)
(* each listed asset of a supported type, with an index for the other      *)
(* parts of the program and a PID for the transport stream.                *)
(*                                                                         *)
(* Modelled are assets with one location.  What tables say of timestamps   *)
(* and of video, audio and subtitle parameters is left out.  A table that  *)
(* does not parse to its end is ignored by the code and has no action.     *)
(***************************************************************************)
EXTENDS Integers, SequencesExt

CONSTANTS
  Packages,     \* package IDs
  PacketIds,    \* packet IDs of assets
  Types,        \* asset types for which there is a processor
  OtherType,    \* an asset type for which there is none
  Tags,         \* component tags
  None,
  MaxAssets,    \* bound: assets in a table
  FirstPid,     \* 0x100 in the code: the PID of tag 0
  PcrPid,       \* 0x1FF
  FallbackPid,  \* 0x200: the first PID that is not a tag's
  EndPid,       \* 0xF00: the first PID reserved for data and PMTs
  NullPid       \* 0x1FFF

VARIABLES
  mapStream,           \* packet ID -> stream, or None
  mapPacketIdByIdx,    \* stream index -> packet ID, or None
  componentPacketIds,  \* component (package, tag) -> PID, or None
  listed               \* package -> the assets of its last table; their packet
                       \* IDs are packagePacketIds

vars == <<mapStream, mapPacketIdByIdx, componentPacketIds, listed>>

Assets ==
  [id : PacketIds, type : Types \cup {OtherType}, tag : Tags \cup {None}]
Components == Packages \X Tags
Pids       == (FirstPid..(EndPid - 1)) \ {PcrPid}
Indices    == 0..(Cardinality(PacketIds) - 1)  \* 0..0xFFFE in the code
Streams ==
  [type : Types, tag : Tags \cup {None}, index : Indices, pid : Pids \cup {NullPid}]

RegistryAssumption ==
  /\ IsFiniteSet(PacketIds)
  /\ Tags \subseteq Nat
  /\ OtherType \notin Types
  /\ None \notin PacketIds \cup Tags \cup Nat \cup Streams
  /\ MaxAssets \in Nat
  /\ FirstPid \in Nat /\ PcrPid \in Nat /\ FallbackPid \in Nat /\ EndPid \in Nat
  /\ FirstPid <= PcrPid /\ PcrPid < FallbackPid /\ FallbackPid <= EndPid
  /\ NullPid \in Nat /\ NullPid >= EndPid

TypeOK ==
  /\ mapStream \in [PacketIds -> Streams \cup {None}]
  /\ mapPacketIdByIdx \in [Indices -> PacketIds \cup {None}]
  /\ componentPacketIds \in [Components -> Pids \cup {None}]
  /\ listed \in [Packages -> SUBSET Assets]

Init ==
  /\ mapStream = [id \in PacketIds |-> None]
  /\ mapPacketIdByIdx = [i \in Indices |-> None]
  /\ componentPacketIds = [c \in Components |-> None]
  /\ listed = [p \in Packages |-> {}]

-----------------------------------------------------------------------------
(* The broadcaster.                                                        *)

IdsOf(assets) == {a.id : a \in assets}

\* Packages may share an asset.  It has one type, and keeps its tag as long as
\* it is listed.
MayList(p, a) ==
  \A q \in Packages : \A b \in listed[q] :
    a.id = b.id => a.tag = b.tag /\ (a.type = b.type \/ p = q)

\* A table lists a packet ID once and gives a tag to one asset only.
Tables(p) ==
  {table \in SeqOf({a \in Assets : MayList(p, a)}, MaxAssets) :
     \A i, j \in DOMAIN table : i # j =>
       /\ table[i].id # table[j].id
       /\ table[i].tag = None \/ table[i].tag # table[j].tag}

-----------------------------------------------------------------------------
(* The registry r = [streams, byIdx, pids], and what a table does to it.   *)
(* TagPid in place of OwnPid, AnyUnused of Allowed, PidAtEveryTable of     *)
(* PidAtFirst, GoneFromPackage of Gone, WithoutStreams of Without are      *)
(* mistakes that the code could have been written with.                    *)

Registry ==
  [streams |-> mapStream, byIdx |-> mapPacketIdByIdx, pids |-> componentPacketIds]

\* The PIDs of other streams, those of other components, and both.
UsedByStreams(r, c, id) ==
  {r.streams[x].pid : x \in {y \in PacketIds \ {id} : r.streams[y] # None}}

UsedByComponents(r, c, id) == {r.pids[x] : x \in Components \ {c}}

Used(r, c, id) == UsedByStreams(r, c, id) \cup UsedByComponents(r, c, id)

FirstFree(used) ==
  LET free == (FallbackPid..(EndPid - 1)) \ used
  IN  IF free = {} THEN NullPid ELSE Min(free)

\* The PID that a new stream would like: the component's earlier one, the
\* tag's or the index's.
TagPid(r, c, index) == IF c[2] = None THEN FallbackPid + index ELSE FirstPid + c[2]

OwnPid(r, c, index) ==
  IF c[2] # None /\ r.pids[c] # None THEN r.pids[c] ELSE TagPid(r, c, index)

\* It gets another one if that one is reserved or taken.
AnyUnused(own, used) == IF own \notin used THEN own ELSE FirstFree(used)

Allowed(own, used) == IF own \in Pids \ used THEN own ELSE FirstFree(used)

\* A stream that is there keeps its PID.
PidAtEveryTable(old, new) == new

PidAtFirst(old, new) == IF old # None THEN old.pid ELSE new

\* An asset's entry into the registry.  Only a new stream gives the component
\* its PID.
Enter(p, r, a) ==
  LET old   == r.streams[a.id]
      index == IF old # None THEN old.index
               ELSE Min({i \in Indices : r.byIdx[i] = None})
      tag   == IF a.tag = None /\ old # None THEN old.tag ELSE a.tag
      c     == <<p, tag>>
      pid   == PidAtFirst(old, Allowed(OwnPid(r, c, index), Used(r, c, a.id)))
  IN  IF a.type = OtherType THEN r
      ELSE [streams |-> [r.streams EXCEPT ![a.id] =
                           [type |-> a.type, tag |-> tag, index |-> index, pid |-> pid]],
            byIdx   |-> [r.byIdx EXCEPT ![index] = a.id],
            pids    |-> IF old = None /\ tag # None /\ pid < EndPid
                        THEN [r.pids EXCEPT ![c] = pid] ELSE r.pids]

\* The streams that a table removes: those that no package lists any more,
\* and those that have another type now.
GoneFromPackage(p, assets) == IdsOf(listed[p]) \ IdsOf(assets)

Gone(p, assets) ==
  IdsOf(listed[p]) \ (IdsOf(assets) \cup IdsOf(UNION {listed[q] : q \in Packages \ {p}}))

Retyped(assets) ==
  {a.id : a \in {b \in assets : mapStream[b.id] # None /\ mapStream[b.id].type # b.type}}

WithoutStreams(r, ids) ==
  [r EXCEPT !.streams = [id \in PacketIds |-> IF id \in ids THEN None ELSE @[id]]]

\* They are removed with their indices, and keep their components' PIDs.
Without(r, ids) ==
  [r EXCEPT !.streams = [id \in PacketIds |-> IF id \in ids THEN None ELSE @[id]],
            !.byIdx = [i \in Indices |-> IF @[i] \in ids THEN None ELSE @[i]]]

Updated(p, table) ==
  LET assets == ToSet(table)
      entered[i \in 0..Len(table)] ==
        IF i = 0 THEN Without(Registry, Gone(p, assets) \cup Retyped(assets))
        ELSE Enter(p, entered[i - 1], table[i])
  IN  entered[Len(table)]

\* processMmtPackageTable
PackageTable(p) ==
  \E table \in Tables(p) :
    /\ LET r == Updated(p, table) IN
         /\ mapStream' = r.streams
         /\ mapPacketIdByIdx' = r.byIdx
         /\ componentPacketIds' = r.pids
    /\ listed' = [listed EXCEPT ![p] = ToSet(table)]

\* clear()
Clear ==
  /\ mapStream' = [id \in PacketIds |-> None]
  /\ mapPacketIdByIdx' = [i \in Indices |-> None]
  /\ componentPacketIds' = [c \in Components |-> None]
  /\ listed' = [p \in Packages |-> {}]

Next == (\E p \in Packages : PackageTable(p)) \/ Clear

Spec == Init /\ [][Next]_vars

-----------------------------------------------------------------------------
(* Safety.                                                                 *)

Registered == {id \in PacketIds : mapStream[id] # None}

\* No two streams share a PID, except those for which none was left.
DistinctPids ==
  \A id, other \in Registered :
    id # other => mapStream[id].pid # mapStream[other].pid \/ mapStream[id].pid = NullPid

\* An index leads to the stream that has it, and to no removed one
\* (getStreamByIdx).
IndexFindsStream ==
  \A id \in PacketIds, i \in Indices :
    mapPacketIdByIdx[i] = id <=> id \in Registered /\ mapStream[id].index = i

\* There are streams for the assets that packages list, and for no others: a
\* shared asset stays until the last package drops it.
StreamsAreListedAssets ==
  Registered =
    IdsOf({a \in UNION {listed[p] : p \in Packages} : a.type # OtherType})

\* While it is registered with one type a stream keeps its index and its PID,
\* whatever its own and other packages' tables say.
StableStep ==
  \A id \in Registered \cap Registered' :
    mapStream'[id].type = mapStream[id].type =>
      /\ mapStream'[id].index = mapStream[id].index
      /\ mapStream'[id].pid = mapStream[id].pid

StreamsAreStable == [][StableStep]_vars

=============================================================================
