---------------------------- MODULE TableReading ----------------------------
(***************************************************************************)
(* From a signalling message, or a TLV control packet, to the tables that  *)
(* the handlers get: MmtTlvDemuxer's process...Message, processMmtTable    *)
(* and processTlvTable, with the unpack() functions of tables and of lists *)
(* of descriptors.                                                         *)
(*                                                                         *)
(* What was read is told by the octets of each field.  External: the       *)
(* broadcaster, who writes every table by its layout and every descriptor  *)
(* from F000 up with a length of 16 bits (mmtDescriptorBase.h:14-15); and  *)
(* the way to the receiver, on which an octet of an EMM may change.  No    *)
(* other table's check sum is looked at, so nothing is said of the others  *)
(* when they change.                                                       *)
(***************************************************************************)
EXTENDS TableLayouts

CONSTANT Messages    \* records of carrier, header, tables as sent, and tables as arrived

VARIABLES
  at,        \* what is read next: "message", "tables", or nothing: "done"
  carrier,   \* how the tables have come
  stream,    \* their octets that are not read yet
  sent,      \* the tables, as sequences of fields
  arrived,   \* the same after their way
  given      \* those that the handlers got

vars == <<at, carrier, stream, sent, arrived, given>>
-----------------------------------------------------------------------------
(* Reading.                                                                *)

Parsed(fields, left) == [ok |-> TRUE, fields |-> fields, left |-> left]
Failed == [ok |-> FALSE, fields |-> <<>>, left |-> <<>>]

First(s, n) == SubSeq(s, 1, n)
After(s, n) == SubSeq(s, n + 1, Len(s))

\* The next n octets as a field; none of them if there are fewer.
Take(s, n) == IF n <= Len(s) THEN Parsed(<<First(s, n)>>, After(s, n)) ELSE Failed

\* What r read, and then what is read of what it left.
Then(r, next(_)) == IF r.ok THEN [next(r) EXCEPT !.fields = r.fields \o @] ELSE Failed

\* OnlyOwnClasses, which knows the classes alone, is a mistake that the code could have
\* been written with.
OnlyOwnClasses(family, tag) == family = "mmt" /\ tag \in Wide

\* Does this class, or the base class for a tag that no class has, read a length of
\* 16 bits?
ReadsWideLength(family, tag) ==
  /\ family = "mmt"
  /\ IF tag \in DOMAIN MmtDescriptor THEN tag \in Wide ELSE tag >= \hF000

LayoutOf(family, tag) ==
  LET known == IF family = "mmt" THEN MmtDescriptor ELSE TlvDescriptor
  IN IF tag \in DOMAIN known THEN known[tag] ELSE <<Rest>>

TagWidth(family) == IF family = "mmt" THEN 2 ELSE 1

RECURSIVE Read(_, _), ReadItem(_, _), ReadEach(_, _, _), ReadDescriptor(_, _),
          ReadDescriptors(_, _)

Read(items, s) ==
  IF items = <<>> THEN Parsed(<<>>, s)
  ELSE Then(ReadItem(Head(items), s), LAMBDA first : Read(Tail(items), first.left))

\* A stream of its own of the next n octets, whatever of it is read.
Skipped(r, left) == IF r.ok THEN Parsed(r.fields, left) ELSE Failed
ReadWithin(s, n, inner(_)) ==
  IF n <= Len(s) THEN Skipped(inner(First(s, n)), After(s, n)) ELSE Failed

ReadItem(item, s) ==
  CASE item.is = "octets" -> Take(s, item.size)
    [] item.is = "pick" ->
         Then(Take(s, item.width), LAMBDA n :
           LET v == Value(n.fields[1])
           IN IF v \in DOMAIN item.cases THEN Read(item.cases[v], n.left) ELSE Failed)
    [] item.is = "times" ->
         Read(FlattenSeq([i \in 1..item.count |-> item.items]), s)
    [] item.is = "each" -> ReadEach(item.items, item.keep, s)
    [] item.is = "within" ->
         Then(Take(s, item.width), LAMBDA n :
           ReadWithin(n.left, Value(n.fields[1]) % (2 ^ (8 * item.width - item.reserved)),
                      LAMBDA inner : Read(item.items, inner)))
    [] item.is = "rest" -> IF Len(s) < item.keep THEN Failed ELSE Take(s, Len(s) - item.keep)
    [] item.is = "descriptors" ->
         IF Len(s) < item.keep THEN Failed
         ELSE ReadWithin(s, Len(s) - item.keep, LAMBDA inner : ReadDescriptors(item.family, inner))

ReadEach(items, keep, s) ==
  IF Len(s) <= keep THEN Parsed(<<>>, s)
  ELSE Then(Read(items, s), LAMBDA one : ReadEach(items, keep, one.left))

\* One descriptor: its tag, its length, and its class's layout.
ReadDescriptor(family, s) ==
  Then(Take(s, TagWidth(family)), LAMBDA tag :
    LET value == Value(tag.fields[1])
    IN Then(Take(tag.left, IF ReadsWideLength(family, value) THEN 2 ELSE 1), LAMBDA length :
         ReadWithin(length.left, Value(length.fields[1]),
                    LAMBDA inner : Read(LayoutOf(family, value), inner))))

\* One after the other to the end; the list is lost with any of them.
ReadDescriptors(family, s) ==
  IF s = <<>> THEN Parsed(<<>>, s)
  ELSE Then(ReadDescriptor(family, s), LAMBDA one : ReadDescriptors(family, one.left))
-----------------------------------------------------------------------------
Init ==
  \E m \in Messages :
    /\ at = "message" /\ carrier = m.carrier /\ given = <<>>
    /\ sent = m.tables /\ arrived = m.arrived
    /\ stream = FlattenSeq(m.header \o FlattenSeq(m.arrived))

HeaderOf ==
  [pa |-> PaMessage, m2 |-> M2SectionMessage, ca |-> CaMessage,
   short |-> M2ShortSectionMessage, data |-> DataTransmissionMessage, tlv |-> <<>>]

ReadHeader ==
  /\ at = "message"
  /\ LET header == Read(HeaderOf[carrier], stream)
     IN /\ at' = IF header.ok THEN "tables" ELSE "done"
        /\ stream' = header.left
  /\ UNCHANGED <<carrier, sent, arrived, given>>

\* A table that is unknown, or cannot be read, takes what is left with it: it is not
\* known where the next one begins.
KnownTables == IF carrier = "tlv" THEN TlvTable ELSE MmtTable

\* The parts of an EMM as read.
IsEmm(table) == carrier # "tlv" /\ table[1] = <<\h84>>
EmmIsCurrent(emm) == emm[4][1] % 2 = 1
EmmMessageSizes(emm) == {7 + emm[7 + 3 * k + 1][1] : k \in 0..((Len(emm) - 7) \div 3 - 1)}

\* Its CRC, of which only this matters: an octet that changes shows.
CheckSum(octets) == Number(FoldLeft(+, 0, octets), 4)

\* The section is one, its number is at most the last one's, and each message
\* fits in a command to the card.
EmmIsInOrder(emm) ==
  /\ emm[2][1] >= 128 /\ Value(emm[2]) % 4096 <= 4093
  /\ emm[5][1] <= emm[6][1]
  /\ \A size \in EmmMessageSizes(emm) : size \in 9..255

EmmIsSound(emm) ==
  EmmIsInOrder(emm) /\ Last(emm) = CheckSum(FlattenSeq(Front(emm)))

TableAt(s) ==
  LET table == IF s # <<>> /\ s[1] \in DOMAIN KnownTables THEN Read(KnownTables[s[1]], s)
               ELSE Failed
  IN IF table.ok /\ IsEmm(table.fields) /\ ~EmmIsSound(table.fields) THEN Failed ELSE table

\* The next section of EMMs waits until it is current.
IsForHandlers(table) == IsEmm(table) => EmmIsCurrent(table)

\* Only a PA message holds several.
ReadTable ==
  /\ at = "tables"
  /\ LET table == TableAt(stream)
     IN /\ given' = IF table.ok /\ IsForHandlers(table.fields) THEN Append(given, table.fields)
                    ELSE given
        /\ stream' = table.left
        /\ at' = IF carrier = "pa" /\ table.left # <<>> THEN "tables" ELSE "done"
  /\ UNCHANGED <<carrier, sent, arrived>>

Next == ReadHeader \/ ReadTable

Spec == Init /\ [][Next]_vars
-----------------------------------------------------------------------------
\* The handlers get every table with the fields that were sent, up to one that
\* nobody knows, or an EMM that changed on its way or is not in order: whatever lists
\* of descriptors and optional parts there are, each length that is read is the one
\* that was written (all unpack() functions), and no card gets a changed EMM, nor one
\* before its time (Emm::unpack, processMmtTable).
TablesAreRead ==
  at = "done" =>
    LET DoesNotFit(emm) == \E size \in EmmMessageSizes(emm) : size \notin 9..255
        lost == {k \in DOMAIN sent :
                   \/ sent[k][1][1] \notin DOMAIN KnownTables
                   \/ /\ IsEmm(sent[k])
                      /\ \/ arrived[k] # sent[k]
                         \/ sent[k][5][1] > sent[k][6][1]
                         \/ DoesNotFit(sent[k])}
        read == {k \in DOMAIN sent : \A l \in lost : k < l}
    IN given = SelectSeq(First(sent, Cardinality(read)),
                         LAMBDA table : IsEmm(table) => EmmIsCurrent(table))

=============================================================================
