-------------------------- MODULE MCTableMessages --------------------------
(***************************************************************************)
(* The messages with which TableReading is checked: what a broadcaster     *)
(* writes by the layouts, each number that decides what follows taking     *)
(* every value in turn.                                                    *)
(***************************************************************************)
EXTENDS TableLayouts

Flat(fields) == FlattenSeq(fields)

Each1(fields, f) == {f \o other : other \in fields}
Twice(all) == {one \o one : one \in all}

RECURSIVE Written(_, _), WrittenItem(_, _)

\* The sequences of fields that items stand for, with descriptors taken from lists.
Written(items, lists) ==
  IF items = <<>> THEN {<<>>}
  ELSE UNION {Each1(Written(Tail(items), lists), f) : f \in WrittenItem(Head(items), lists)}

WrittenItem(item, lists) ==
  CASE item.is = "octets" -> {<<Filler(item.size)>>}
    [] item.is = "pick" ->
         UNION {Each1(Written(item.cases[v], lists), <<Number(v, item.width)>>) :
                v \in DOMAIN item.cases}
    [] item.is = "times" ->
         {FlattenSeq([i \in 1..item.count |-> one]) : one \in Written(item.items, lists)}
    [] item.is = "each" ->
         LET all == Written(item.items, lists) IN {<<>>} \cup all \cup Twice(all)
    [] item.is = "within" ->
         {<<Number((2 ^ item.reserved - 1) * 2 ^ (8 * item.width - item.reserved)
                     + Len(Flat(f)), item.width)>> \o f : f \in Written(item.items, lists)}
    [] item.is = "rest" -> {<<<<>>>>, <<Filler(2)>>}
    [] item.is = "descriptors" -> lists[item.family]

\* One descriptor: from F000 up the length has 16 bits.
Descriptor(tag, width, fields) ==
  <<Number(tag, width),
    Number(Len(Flat(fields)), IF width = 2 /\ tag >= \hF000 THEN 2 ELSE 1)>> \o fields

FormsOf(family, tags, width) ==
  UNION {{Descriptor(tag, width, f) : f \in Written(family[tag], <<>>)} : tag \in tags}

\* An event message descriptor, which has no class, and a simple one that has one.
NoClass == Descriptor(\hF003, 2, <<Filler(300)>>)
Simple == Descriptor(\h8011, 2, <<Filler(2), <<>>>>)

FewLists == [mmt |-> {<<>>, NoClass \o Simple}, tlv |-> {<<>>}]

\* Every form of every descriptor, with a neighbour on both sides.
AllLists(tags) ==
  [mmt |-> {NoClass \o one \o Simple : one \in FormsOf(MmtDescriptor, tags, 2)},
   tlv |-> FormsOf(TlvDescriptor, DOMAIN TlvDescriptor, 1)]

Tables(known, id, lists) ==
  {[table EXCEPT ![1][1] = id] : table \in Written(known[id], lists)}

\* That of other networks' services, which the factory does not create.
UnknownTable == <<<<\hA0>>, Filler(3)>>

\* EMMs that are current or not, with numbers in order or not, and no messages, or some of
\* a length that is too small, right or too large, all with the check sum that belongs to
\* them.
Summed(emm) ==
  Append(Front(emm), Number(FoldLeft(+, 0, Flat(Front(emm))), 4))

Message(n) == <<Filler(6), <<n>>, Filler(n)>>

Emms ==
  {Summed(<<<<\h84>>, Number(\hF000 + 9 + Len(Flat(messages)), 2), Filler(2),
            <<version>>, <<number>>, <<1>>>> \o messages \o <<Filler(4)>>) :
     version \in 0..1, number \in 1..2,
     messages \in {<<>>, Message(1), Message(2), Message(2) \o Message(248), Message(249)}}

\* One octet of the EMM has changed.
Changed(emm) ==
  UNION {{[emm EXCEPT ![f][k] = (@ + 1) % 256] : k \in DOMAIN emm[f]} : f \in DOMAIN emm}

Arriving(carrier, header, tables, arrived) ==
  [carrier |-> carrier, header |-> header, tables |-> tables, arrived |-> arrived]
Sent(carrier, header, tables) == Arriving(carrier, header, tables, tables)

\* An EMM alone, then between other tables, and the same with an octet changed.
EmmMessages ==
  LET plt == CHOOSE table \in Tables(MmtTable, \h80, FewLists) : TRUE
      few == {emm \in Emms : Len(Flat(emm)) < 50}
  IN {Sent("m2", <<Filler(5)>>, <<emm>>) : emm \in Emms}
     \cup {Sent("pa", <<Filler(7), <<0>>>>, <<plt, emm, plt>>) : emm \in Emms}
     \cup UNION {{Arriving("pa", <<Filler(7), <<0>>>>, <<plt, emm, plt>>, <<plt, other, plt>>) :
                    other \in Changed(emm)} : emm \in few}

\* Descriptors with these tags in events; each table; several tables in a message.
MessagesWith(tags) ==
  {Sent("m2", <<Filler(5)>>, <<eit>>) : eit \in Tables(MmtTable, \h8B, AllLists(tags))}
  \cup {Sent("tlv", <<>>, <<nit>>) : nit \in Tables(TlvTable, \h40, AllLists({}))}
  \cup UNION {{Sent("m2", <<Filler(5)>>, <<table>>) : table \in Tables(MmtTable, id, FewLists)} :
              id \in DOMAIN MmtTable \ {\h84}}
  \cup EmmMessages
  \cup {Sent("ca", <<Filler(5)>>, <<ecm>>) : ecm \in Tables(MmtTable, \h82, FewLists)}
  \cup {Sent("short", <<Filler(5)>>, <<tot>>) : tot \in Tables(MmtTable, \hA1, FewLists)}
  \cup {Sent("data", <<Filler(7)>>, <<damt>>) : damt \in Tables(MmtTable, \hA4, FewLists)}
  \cup {Sent("pa", <<Filler(7), <<0>>>>, <<plt>> \o other \o <<plt>>) :
          plt \in Tables(MmtTable, \h80, FewLists), other \in {<<>>, <<UnknownTable>>}}

\* A linkage descriptor, with a tag of F000, has a run of its own.
MCMessages == MessagesWith(DOMAIN MmtDescriptor \ {\hF000})
MCLinkage == MessagesWith({\hF000})
=============================================================================
