------------------------- MODULE DescriptorLayouts -------------------------
(***************************************************************************)
(* The descriptors that the demultiplexer knows: for each of them, what    *)
(* its unpack() reads of the octets that its length gives it.  Octets that *)
(* it does not read are skipped with the length (Rest).                    *)
(***************************************************************************)
EXTENDS Naturals, Sequences, SequencesExt, TLC

-----------------------------------------------------------------------------
(* The language of layouts: a layout is a sequence of items, which an      *)
(* unpack() reads in their order from a ReadStream.  What a field means is *)
(* left out: only its length matters, and what its value says about the    *)
(* items that follow.                                                      *)

\* n octets.
Octets(n) == [is |-> "octets", size |-> n]

\* A number in w octets that decides what follows; cases is a function on the
\* values that are ever sent.
Pick(w, cases) == [is |-> "pick", width |-> w, cases |-> cases]

\* These items n times.
Times(n, items) == [is |-> "times", count |-> n, items |-> items]

\* These items as long as more than keep octets are left.
EachBut(keep, items) == [is |-> "each", keep |-> keep, items |-> items]
Each(items) == EachBut(0, items)

\* A length in w octets, of which the upper bits may be reserved, and a stream of
\* its own with as many octets.
Within(w, reserved, items) ==
  [is |-> "within", width |-> w, reserved |-> reserved, items |-> items]

\* What is left, but for the last keep octets: kept as it is, or skipped.
RestBut(keep) == [is |-> "rest", keep |-> keep]
Rest == RestBut(0)

Counted(w) == Within(w, 0, <<Rest>>)

\* A list of descriptors: whatever is left but for keep octets, or with a length of
\* 16, or of 12 bits.
DescriptorsBut(keep, family) == [is |-> "descriptors", keep |-> keep, family |-> family]
List16(family) == Within(2, 0, <<DescriptorsBut(0, family)>>)
List12(family) == Within(2, 4, <<DescriptorsBut(0, family)>>)

\* These items if a flag says so.
When(flag, items) == IF flag THEN items ELSE <<>>
Bit(v, b) == (v \div b) % 2 = 1
-----------------------------------------------------------------------------
\* Octets and numbers, the most significant octet first.
Filler(n) == [i \in 1..n |-> 200]
Number(v, w) == [i \in 1..w |-> (v \div (256 ^ (w - i))) % 256]
Value(octets) == FoldLeft(LAMBDA v, octet : 256 * v + octet, 0, octets)
-----------------------------------------------------------------------------
(* The descriptors.                                                        *)

\* Where something is sent: a packet ID, alone or with addresses or a network, or a
\* URL.
Location ==
  Pick(1, [type \in 0..5 |->
    CASE type = 0 -> <<Octets(2)>>
      [] type = 1 -> <<Octets(12)>>
      [] type \in {2, 4} -> <<Octets(36)>>
      [] type = 3 -> <<Octets(6)>>
      [] type = 5 -> <<Counted(1)>>])

AccessControl == <<Octets(2), Location, Rest>>

\* The location of the MH-AIT, perhaps that of DT messages, and those of the event
\* message tables.
ApplicationService ==
  <<Octets(2),
    Pick(1, [flags \in {0, 65} |->
      <<Location>> \o When(Bit(flags, 64), <<Location>>)
                   \o <<Times(flags % 16, <<Octets(1), Location>>)>>]), Rest>>

\* A maximum bit rate for all, and one for each component.
ContentCopyControl ==
  <<Pick(1, [flags \in {0, 16, 32, 48} |->
      When(Bit(flags, 32), <<Octets(1)>>)
        \o When(Bit(flags, 16),
             <<Within(1, 0,
                 <<Each(<<Octets(2),
                          Pick(1, [own \in {0, 32} |->
                            <<Octets(1)>> \o When(Bit(own, 32), <<Octets(1)>>)])>>)>>)>>)]),
    Rest>>

EventPackage == <<Counted(1), Rest>>

\* Per entry, permissions and URLs.
ApplicationBoundaryAndPermission ==
  <<Each(<<Pick(1, [n \in {0, 2} |-> <<Times(n, <<Octets(2)>>)>>]),
           Pick(1, [n \in 0..1 |-> <<Times(n, <<Counted(1)>>)>>])>>)>>

Application == <<Within(1, 0, <<Each(<<Octets(5)>>)>>), Octets(2), Rest>>

AudioComponent ==
  <<Octets(6), Pick(1, [flags \in {0, 128} |->
                 <<Octets(3)>> \o When(Bit(flags, 128), <<Octets(3)>>)]), Rest>>

AutostartPriority == <<Octets(1), Rest>>

BroadcasterName == <<Rest>>

CacheControlInfo == <<Octets(6), Rest>>

CaContractInformation ==
  <<Octets(2), Pick(1, [n \in {0, 2} |-> <<Times(n % 16, <<Octets(2)>>)>>]),
    Counted(1), Counted(1), Rest>>

Content == <<Each(<<Octets(2)>>)>>

DataComponent == <<Octets(2), Rest>>

\* Events of this network, then those of others or private data.
EventGroup ==
  <<Pick(1, [v \in {16, 17, 66, 80} |->
      <<Times(v % 16, <<Octets(4)>>),
        IF v \div 16 \in {4, 5} THEN Each(<<Octets(8)>>) ELSE Rest>>])>>

ExtendedEvent ==
  <<Octets(4), Within(2, 0, <<Each(<<Counted(1), Counted(2)>>)>>), Counted(2), Rest>>

Linkage == <<Octets(7), Rest>>

LogoTransmission ==
  <<Pick(1, [type \in 1..4 |->
      CASE type = 1 -> <<Octets(6), Each(<<Octets(3)>>)>>
        [] type = 2 -> <<Octets(2), Rest>>
        [] OTHER -> <<Rest>>])>>

ParentalRating == <<Each(<<Octets(4)>>)>>

RandomizedLatency ==
  <<Octets(3), Pick(1, [flag \in {0, 128} |-> When(Bit(flag, 128), <<Octets(8)>>)]), Rest>>

Series == <<Octets(8), Rest>>

Service == <<Octets(1), Counted(1), Counted(1), Rest>>

ServiceList == <<Each(<<Octets(3)>>)>>

ShortEvent == <<Octets(3), Counted(1), Counted(2), Rest>>

SiParameter == <<Octets(3), Each(<<Octets(1), Counted(1)>>)>>

SimpleApplicationLocation == <<Rest>>

StreamIdentification == <<Octets(2), Rest>>

TransportProtocol == <<Octets(3), Rest>>

\* Per MPU one offset per access unit, or two.
MpuExtendedTimestamp ==
  <<Pick(1, [flags \in 0..5 |->
      When(Bit(flags, 1), <<Octets(4)>>)
        \o When(flags \div 2 = 1, <<Octets(2)>>)
        \o <<Each(<<Octets(7),
                    Pick(1, [units \in {0, 2} |->
                      <<Times(units, <<Octets(IF flags \div 2 = 2 THEN 4 ELSE 2)>>)>>])>>)>>])>>

\* As many entries as the length holds.
MpuTimestamp == <<EachBut(11, <<Octets(4), Octets(8)>>), Rest>>

MultimediaServiceInformation ==
  <<Pick(2, [id \in {0, 32, 33} |->
      When(id = 32, <<Octets(5), Counted(1)>>) \o When(id = 33, <<Octets(1)>>)]),
    Counted(1), Rest>>

RelatedBroadcaster ==
  <<Pick(1, [n \in {0, 18, 33} |->
      <<Pick(1, [networks \in {0, 32} |->
          <<Times(n \div 16, <<Octets(3)>>), Times(n % 16, <<Octets(1)>>),
            Times(networks \div 16, <<Octets(2)>>)>>])>>]), Rest>>

VideoComponent == <<Octets(8), Rest>>

\* Descriptors of TLV tables.
NetworkName == <<Rest>>

RemoteControlKey ==
  <<Pick(1, [n \in {0, 2} |-> <<Times(n, <<Octets(5)>>)>>]), Rest>>

TlvServiceList == <<Each(<<Octets(3)>>)>>

SystemManagement == <<Octets(2), Rest>>
-----------------------------------------------------------------------------
\* The factories: the layouts by tag.
MmtDescriptor ==
  \h0001 :> MpuTimestamp @@ \h8001 :> EventPackage @@ \h8004 :> AccessControl @@
  \h800C :> EventGroup @@ \h800D :> ServiceList @@ \h8010 :> VideoComponent @@
  \h8011 :> StreamIdentification @@ \h8012 :> Content @@ \h8013 :> ParentalRating @@
  \h8014 :> AudioComponent @@ \h8016 :> Series @@ \h8017 :> SiParameter @@
  \h8018 :> BroadcasterName @@ \h8019 :> Service @@ \h8020 :> DataComponent @@
  \h8025 :> LogoTransmission @@ \h8026 :> MpuExtendedTimestamp @@
  \h8029 :> Application @@ \h802A :> TransportProtocol @@
  \h802B :> SimpleApplicationLocation @@ \h802C :> ApplicationBoundaryAndPermission @@
  \h802D :> AutostartPriority @@ \h802E :> CacheControlInfo @@
  \h802F :> RandomizedLatency @@ \h8034 :> ApplicationService @@
  \h8038 :> ContentCopyControl @@ \h803E :> RelatedBroadcaster @@
  \h803F :> MultimediaServiceInformation @@ \h8041 :> CaContractInformation @@
  \hF000 :> Linkage @@ \hF001 :> ShortEvent @@ \hF002 :> ExtendedEvent

TlvDescriptor ==
  \h40 :> NetworkName @@ \h41 :> TlvServiceList @@ \hCD :> RemoteControlKey @@
  \hFE :> SystemManagement

\* The descriptors whose class reads a length of 16 bits.
Wide == {\hF001, \hF002}
=============================================================================
