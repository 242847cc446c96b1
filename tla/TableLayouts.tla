---------------------------- MODULE TableLayouts ----------------------------
(***************************************************************************)
(* The tables that the demultiplexer knows and the messages that carry     *)
(* them, as DescriptorLayouts has the descriptors.  A table's ID is the    *)
(* first octet of its layout.                                              *)
(***************************************************************************)
EXTENDS DescriptorLayouts

\* The package table: the package's descriptors, then its assets.
Asset ==
  <<Octets(5), Counted(1), Octets(5),
    Pick(1, [n \in {0, 1} |-> <<Times(n, <<Location>>)>>]), List16("mmt")>>

Mpt ==
  <<Octets(5), Counted(1), List16("mmt"), Pick(1, [n \in 0..2 |-> <<Times(n, Asset)>>])>>

Plt == <<Octets(4), Pick(1, [n \in 0..2 |-> <<Times(n, <<Counted(1), Location>>)>>])>>

\* Sections end with a CRC of four octets.  Only the EMM's is checked, with its length
\* and its numbers: see EmmIsSound in TableReading.
MhEit == <<Octets(14), EachBut(4, <<Octets(10), List12("mmt")>>), Octets(4)>>

MhSdt == <<Octets(12), EachBut(4, <<Octets(3), List12("mmt")>>), Octets(4)>>

MhBit == <<Octets(8), List12("mmt"), EachBut(4, <<Octets(1), List12("mmt")>>), Octets(4)>>

MhAit ==
  <<Octets(8), List12("mmt"), Within(2, 4, <<Each(<<Octets(7), List12("mmt")>>)>>),
    Octets(4)>>

MhCdt == <<Octets(11), List12("mmt"), RestBut(4), Octets(4)>>

MhTot == <<Octets(11), Rest>>

Emt == <<Octets(8), DescriptorsBut(4, "mmt"), Octets(4)>>

Ecm == <<Octets(8), RestBut(4), Octets(4)>>

\* A section of entitlements: its version with the current indicator, its number and
\* the last one, then messages to single cards, each with a length.
EmmMessage == <<Octets(6), Counted(1)>>

Emm ==
  <<Octets(1),
    Within(2, 4, <<Octets(2), Octets(1), Octets(1), Octets(1), EachBut(4, EmmMessage), Octets(4)>>)>>

\* The items of an MPU of data broadcasting; an index item describes itself.
DamtItem(index) ==
  <<Octets(2)>>
    \o When(~index, <<Octets(9), Pick(1, [f \in {0, 128} |-> When(Bit(f, 128), <<Octets(4)>>)]),
                      Counted(1)>>)

DamtMpu ==
  <<Octets(8),
    Pick(1, [flags \in {0, 64, 128, 192} |->
      When(flags = 192, <<Octets(4)>>)
        \o <<Pick(2, [n \in 0..1 |-> <<Times(n, DamtItem(Bit(flags, 128)))>>])>>]),
    Counted(1)>>

Damt ==
  <<Octets(18), Pick(1, [n \in 0..1 |-> <<Times(n, DamtMpu)>>]), Counted(1), Octets(4)>>

Ddmt ==
  <<Octets(8), Counted(1),
    Pick(1, [n \in 0..1 |->
      <<Times(n, <<Octets(3), Counted(1),
                   Pick(2, [k \in 0..2 |-> <<Times(k, <<Octets(2), Counted(1)>>)>>])>>)>>])>>

\* A content's presentation units, or its nodes.
Dcct ==
  <<Octets(15),
    Pick(1, [flags \in {0, 64, 128, 192} |->
      <<Pick(2, [n \in 0..1 |->
          <<Times(n, IF Bit(flags, 128)
                     THEN <<Octets(3), Pick(1, [k \in 0..1 |-> <<Times(k, <<Octets(2)>>)>>]),
                            Counted(2)>>
                     ELSE <<Octets(2)>>)>>])>>
        \o When(Bit(flags, 64), <<Counted(2)>>)]),
    Octets(4)>>

Nit ==
  <<Octets(8), List12("tlv"), Within(2, 4, <<Each(<<Octets(4), List12("tlv")>>)>>), Rest>>

\* The event tables: of the present and the next event, then of the schedule.
EventTables == \h8B..\h9B

MmtTable ==
  [id \in EventTables |-> MhEit] @@
  \h20 :> Mpt @@ \h80 :> Plt @@ \h82 :> Ecm @@ \h84 :> Emm @@ \h9C :> MhAit @@ \h9D :> MhBit @@
  \h9F :> MhSdt @@ \hA1 :> MhTot @@ \hA2 :> MhCdt @@ \hA3 :> Ddmt @@ \hA4 :> Damt @@
  \hA5 :> Dcct @@ \hA6 :> Emt

TlvTable == \h40 :> Nit

\* What precedes the tables of a message, by the message's ID.  Table information
\* (four octets per table, of which 32 are skipped) is never sent.
PaMessage == <<Octets(7), Pick(1, [n \in {0} |-> <<Octets(32 * n)>>])>>
M2SectionMessage == <<Octets(5)>>
CaMessage == <<Octets(5)>>
M2ShortSectionMessage == <<Octets(5)>>
DataTransmissionMessage == <<Octets(7)>>
=============================================================================
