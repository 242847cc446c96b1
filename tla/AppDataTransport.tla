--------------------------- MODULE AppDataTransport --------------------------
(***************************************************************************)
(* The data broadcasting of the services, carried over to MPEG-2 TS as     *)
(* sections (src/appDataTransport.cpp, docs/app-data-ts-transport.md).     *)
(*                                                                         *)
(* A broadcaster repeats tables, event message tables (EMTs) and items far *)
(* faster than a receiver needs them, so what has been sent is remembered  *)
(* by its content and sent again only after an interval of stream time.    *)
(* The package table (MPT) of a service says which packet IDs are its own  *)
(* and which tag an EMT has; the package list (PLT) gives the service the  *)
(* PID that its sections go out on.  A content is a model value; an item   *)
(* that does not fit into 256 sections is one of Oversized.                *)
(*                                                                         *)
(* The documentation says that what has changed is sent at once (lines 43  *)
(* and 76).  The code remembers a content before it knows that it can go   *)
(* out: one that comes before the PLT, or as an EMT before its tag, counts *)
(* as sent, is dropped, and is held back for an interval after that.       *)
(***************************************************************************)
EXTENDS Naturals, FiniteSetsExt, Functions

CONSTANTS
  Services,
  Packets,            \* MMT packet IDs
  OwnerOf(_),         \* the service a packet ID belongs to
  KindOf(_),          \* what is sent on it: "table", "emt", "item", "caption"
  ContentsOf(_),      \* and its contents, one of which is on air at a time
  Oversized,
  Tags,               \* EMT tags
  None,
  TableInterval, ItemInterval,  \* kTableResendInterval90k, itemResendInterval90k
  MaxRememberedSends,
  MaxTime             \* bound: of the stream clock

TransportAssumption ==
  /\ \A p \in Packets : /\ OwnerOf(p) \in Services
                        /\ KindOf(p) \in {"table", "emt", "item", "caption"}
                        /\ None \notin ContentsOf(p)
  /\ {TableInterval, ItemInterval, MaxRememberedSends} \subseteq Nat \ {0}
  /\ MaxTime \in Nat

VARIABLES
  now,        \* the stream clock
  onAir,      \* external: what the broadcaster sends on each packet ID
  since,      \* history: when that, or its route, tag or PID, last changed, by
              \* the latest time that the clock has shown since the last clear()
  packetIdToService, packetIdToEmtTag, captionServices,
  mapService2Pid,  \* the remuxer's: of which only the services matter here
  lastSent,   \* content key -> stream time it was last sent
  source,     \* history: content key -> the packet ID it last counted as sent for
  tv          \* external: what a receiver has, of the service, for each packet ID

vars ==
  <<now, onAir, since, packetIdToService, packetIdToEmtTag, captionServices,
    mapService2Pid, lastSent, source, tv>>

Times    == 0..MaxTime
Contents == UNION {ContentsOf(p) : p \in Packets}
Keys     == Contents \X Services
Has      == [content : Contents, tag : Tags \cup {None}]

TypeOK ==
  /\ now \in Times
  /\ onAir \in [Packets -> Contents]
  /\ since \in [Packets -> Times]
  /\ DOMAIN packetIdToService \subseteq Packets
  /\ \A p \in DOMAIN packetIdToService : packetIdToService[p] = OwnerOf(p)
  /\ DOMAIN packetIdToEmtTag \subseteq {p \in DOMAIN packetIdToService : KindOf(p) = "emt"}
  /\ \A p \in DOMAIN packetIdToEmtTag : packetIdToEmtTag[p] \in Tags
  /\ captionServices \in SUBSET Services /\ mapService2Pid \in SUBSET Services
  /\ DOMAIN lastSent \subseteq Keys /\ \A k \in DOMAIN lastSent : lastSent[k] \in Times
  /\ Cardinality(DOMAIN lastSent) <= MaxRememberedSends
  /\ DOMAIN source \subseteq Keys /\ \A k \in DOMAIN source : source[k] \in Packets
  /\ tv \in [Packets -> Has \cup {None}]

Init ==
  /\ now = 0
  /\ onAir \in [Packets -> Contents] /\ \A p \in Packets : onAir[p] \in ContentsOf(p)
  /\ since = [p \in Packets |-> 0]
  /\ packetIdToService = <<>> /\ packetIdToEmtTag = <<>> /\ captionServices = {}
  /\ mapService2Pid = {} /\ lastSent = <<>> /\ source = <<>>
  /\ tv = [p \in Packets |-> None]

-----------------------------------------------------------------------------
(* Mutated forms of definitions below, each with a mistake that the code   *)
(* could have been written with; they are no part of the model.            *)

With(f, k, v) == [x \in DOMAIN f \cup {k} |-> IF x = k THEN v ELSE f[x]]

RememberAlways(key, interval) == lastSent' = With(lastSent, key, now)

-----------------------------------------------------------------------------
(* The broadcaster and the stream clock, which follows its NTP time and may*)
(* be set back.                                                            *)

Latest == Max({now} \cup {since[p] : p \in Packets})

Change(p) ==
  /\ \E c \in ContentsOf(p) \ {onAir[p]} : onAir' = [onAir EXCEPT ![p] = c]
  /\ since' = [since EXCEPT ![p] = Latest]
  /\ UNCHANGED <<now, packetIdToService, packetIdToEmtTag, captionServices, mapService2Pid,
                 lastSent, source, tv>>

Tick ==
  /\ now < MaxTime /\ now' = now + 1
  /\ UNCHANGED <<onAir, since, packetIdToService, packetIdToEmtTag, captionServices, mapService2Pid,
                 lastSent, source, tv>>

SetBack ==
  /\ now > 0 /\ now' \in 0..now - 1
  /\ since' = [p \in Packets |-> Latest]
  /\ UNCHANGED <<onAir, packetIdToService, packetIdToEmtTag, captionServices, mapService2Pid,
                 lastSent, source, tv>>

-----------------------------------------------------------------------------
\* onMpt: what the service had before is forgotten.  An MPT lists some of the
\* service's packet IDs, and may give EMTs a tag.
OnMpt(s) ==
  \E listed \in SUBSET {p \in Packets : OwnerOf(p) = s} :
    LET others == {p \in DOMAIN packetIdToService : packetIdToService[p] # s}
        emts   == {p \in listed : KindOf(p) = "emt"}
        kept   == {p \in DOMAIN packetIdToEmtTag : p \in others}
        had(p) == p \in DOMAIN packetIdToService /\ packetIdToService[p] = s
        tagOf(p) == IF p \in DOMAIN packetIdToEmtTag THEN packetIdToEmtTag[p] ELSE None
    IN  /\ packetIdToService' = [p \in others \cup listed |->
                                   IF p \in listed THEN s ELSE packetIdToService[p]]
        /\ \E tags \in [emts -> Tags \cup {None}] :
             /\ packetIdToEmtTag' = [p \in kept \cup {q \in emts : tags[q] # None} |->
                                       IF p \in emts THEN tags[p] ELSE packetIdToEmtTag[p]]
             /\ since' = [p \in Packets |->
                            IF p \in listed /\ (~had(p) \/ (p \in emts /\ tagOf(p) # tags[p]))
                            THEN Latest ELSE since[p]]
        /\ captionServices' =
             IF \E p \in listed : KindOf(p) = "caption"
             THEN captionServices \cup {s} ELSE captionServices \ {s}
        /\ UNCHANGED <<now, onAir, mapService2Pid, lastSent, source, tv>>

\* onPlt of the remuxer: the services that the list gives a PID are all that have
\* one.  The MPT of a service may come before.
OnPlt ==
  \E given \in SUBSET Services :
    /\ mapService2Pid' = given
    /\ since' = [p \in Packets |->
                   IF OwnerOf(p) \in given \ mapService2Pid THEN Latest ELSE since[p]]
    /\ UNCHANGED <<now, onAir, packetIdToService, packetIdToEmtTag, captionServices, lastSent,
                   source, tv>>

-----------------------------------------------------------------------------
(* shouldSend.                                                             *)

Elapsed(t, interval) == now < t \/ now - t >= interval

Due(key, interval) == key \notin DOMAIN lastSent \/ Elapsed(lastSent[key], interval)

Horizon == IF ItemInterval > TableInterval THEN ItemInterval ELSE TableInterval

\* At its limit the table loses what would be sent again anyway, or all.
Forgotten(key) ==
  IF key \in DOMAIN lastSent \/ Cardinality(DOMAIN lastSent) < MaxRememberedSends THEN lastSent
  ELSE LET recent == {k \in DOMAIN lastSent : ~Elapsed(lastSent[k], Horizon)}
       IN  IF Cardinality(recent) < MaxRememberedSends THEN Restrict(lastSent, recent) ELSE <<>>

Remember(key, interval) ==
  lastSent' = IF Due(key, interval) THEN With(Forgotten(key), key, now) ELSE lastSent

\* writeAppDataSection: the section goes out if its service has a PID, and is
\* dropped otherwise; it counts as sent in either case.
Sent(p, key, tag) ==
  /\ tv' = IF packetIdToService[p] \in mapService2Pid
           THEN [tv EXCEPT ![p] = [content |-> onAir[p], tag |-> tag]] ELSE tv
  /\ source' = With(source, key, p)

NotSent == UNCHANGED <<tv, source>>

CountedAsSent(p, key) == source' = With(source, key, p) /\ UNCHANGED tv

Received ==
  UNCHANGED <<now, onAir, since, packetIdToService, packetIdToEmtTag, captionServices,
              mapService2Pid>>

-----------------------------------------------------------------------------
Routed(p) == p \in DOMAIN packetIdToService
Key(p)    == <<onAir[p], packetIdToService[p]>>

\* onTableSection.  An EMT without a tag counts as sent, but is not.
OnTableSection(p) ==
  /\ KindOf(p) \in {"table", "emt"}
  /\ IF ~Routed(p) THEN NotSent /\ UNCHANGED lastSent
     ELSE /\ Remember(Key(p), TableInterval)
          /\ IF ~Due(Key(p), TableInterval) THEN NotSent
             ELSE IF KindOf(p) = "table" THEN Sent(p, Key(p), None)
             ELSE IF p \in DOMAIN packetIdToEmtTag THEN Sent(p, Key(p), packetIdToEmtTag[p])
             ELSE CountedAsSent(p, Key(p))
  /\ Received

\* onApplicationData, of the last part of an item.
OnItem(p) ==
  /\ KindOf(p) = "item"
  /\ IF ~Routed(p) THEN NotSent /\ UNCHANGED lastSent
     ELSE /\ Remember(Key(p), ItemInterval)
          /\ IF Due(Key(p), ItemInterval) /\ onAir[p] \notin Oversized
             THEN Sent(p, Key(p), None) ELSE NotSent
  /\ Received

\* onCaption: captions are not repeated.
OnCaption(p) ==
  /\ KindOf(p) = "caption"
  /\ IF Routed(p) /\ packetIdToService[p] \in captionServices /\ onAir[p] \notin Oversized
     THEN Sent(p, Key(p), None) ELSE NotSent
  /\ UNCHANGED lastSent
  /\ Received

\* clear() of the remuxer.
Clear ==
  /\ packetIdToService' = <<>> /\ packetIdToEmtTag' = <<>> /\ captionServices' = {}
  /\ mapService2Pid' = {} /\ lastSent' = <<>>
  /\ since' = [p \in Packets |-> now]
  /\ UNCHANGED <<now, onAir, source, tv>>

OnSection(p) == OnTableSection(p) \/ OnItem(p) \/ OnCaption(p)

Next ==
  \/ \E p \in Packets : Change(p) \/ OnSection(p)
  \/ \E s \in Services : OnMpt(s)
  \/ OnPlt \/ Tick \/ SetBack \/ Clear

Spec == Init /\ [][Next]_vars

-----------------------------------------------------------------------------
IntervalOf(p) ==
  CASE KindOf(p) \in {"table", "emt"} -> TableInterval
    [] KindOf(p) = "item"             -> ItemInterval
    [] KindOf(p) = "caption"          -> 0

TagOf(p) == IF p \in DOMAIN packetIdToEmtTag THEN packetIdToEmtTag[p] ELSE None

\* A receiver is at most one interval behind: once a content has been on air for
\* the interval, with its route, its tag and a PID for its service, its next section
\* leaves the receiver with it, whatever was sent, dropped or counted before; unless
\* the same bytes came on another packet ID of the service, as two EMTs may have the
\* same.  The interval is needed: what is dropped for want of a PID counts as sent.
CatchesUp ==
  \A p \in Packets :
    /\ Routed(p) /\ OwnerOf(p) \in mapService2Pid
    /\ now >= since[p] + IntervalOf(p)
    /\ onAir[p] \notin Oversized /\ (KindOf(p) = "emt" => TagOf(p) # None)
    /\ OnSection(p)
    => \/ tv'[p] = [content |-> onAir[p], tag |-> TagOf(p)]
       \/ Key(p) \in DOMAIN source /\ source[Key(p)] # p

AtMostOneIntervalBehind == [][CatchesUp]_vars

=============================================================================
