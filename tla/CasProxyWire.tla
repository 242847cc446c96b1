---------------------------- MODULE CasProxyWire ----------------------------
(***************************************************************************)
(* The packets between dantto4k and a CasProxyServer (src/casProxy.h): one *)
(* request and one response for every PC/SC function that is called        *)
(* remotely.  A packet is an ID, an opcode and fields in a fixed order; a  *)
(* response also has a result code.                                        *)
(*                                                                         *)
(* A packet's payload is a sequence of cells: a number is one cell (its 4  *)
(* or 8 bytes), a flag is 0 or 1, a buffer is its length and then its bytes.  *)
(***************************************************************************)
EXTENDS Naturals, SequencesExt

Calls ==
  {"EstablishContext", "ReleaseContext", "ListReaders", "Connect", "Disconnect",
   "BeginTransaction", "EndTransaction", "Transmit", "GetAttrib", "Reconnect"}

\* enum Opcode: a response's opcode is its request's plus one.
RequestOpcode(call) ==
  CASE call = "EstablishContext" -> 1
    [] call = "ReleaseContext"   -> 3
    [] call = "ListReaders"      -> 5
    [] call = "Connect"          -> 7
    [] call = "Disconnect"       -> 9
    [] call = "BeginTransaction" -> 11
    [] call = "EndTransaction"   -> 13
    [] call = "Transmit"         -> 15
    [] call = "GetAttrib"        -> 17
    [] call = "Reconnect"        -> 19

ResponseOpcode(call) == RequestOpcode(call) + 1

Number(name) == [name |-> name, kind |-> "number", unless |-> "never"]
Flag(name)   == [name |-> name, kind |-> "flag", unless |-> "never"]
Buffer(name) == [name |-> name, kind |-> "buffer", unless |-> "never"]

\* A field that is left out of the packet when a flag before it is set.
Unless(flag, field) == [field EXCEPT !.unless = flag]

RequestFields(call) ==
  CASE call = "EstablishContext" -> <<Number("dwScope")>>
    [] call = "ReleaseContext"   -> <<Number("hContext")>>
    [] call = "ListReaders"      ->
         <<Number("hContext"), Flag("isGroupsNull"),
           Unless("isGroupsNull", Buffer("groups")), Number("readersLength")>>
    [] call = "Connect"          ->
         <<Number("hContext"), Buffer("szReader"), Number("dwShareMode"),
           Number("dwPreferredProtocols")>>
    [] call = "Reconnect"        ->
         <<Number("hCard"), Number("dwShareMode"), Number("dwPreferredProtocols"),
           Number("dwInitialization")>>
    [] call \in {"Disconnect", "EndTransaction"} ->
         <<Number("hCard"), Number("dwDisposition")>>
    [] call = "BeginTransaction" -> <<Number("hCard")>>
    [] call = "Transmit"         ->
         <<Number("hCard"), Number("sendPci"), Buffer("sendBuffer"),
           Flag("isRecvPciNull"), Unless("isRecvPciNull", Number("recvPciProtocol")),
           Unless("isRecvPciNull", Number("recvPciLength")), Number("recvLength")>>
    [] call = "GetAttrib"        ->
         <<Number("hCard"), Number("dwAttrId"), Number("attrLength")>>

\* What the function gives back besides its result.
ResultFields(call) ==
  CASE call = "EstablishContext" -> <<Number("hContext")>>
    [] call = "ListReaders"      -> <<Buffer("readers"), Number("readersLength")>>
    [] call = "Connect"          -> <<Number("hCard"), Number("dwActiveProtocol")>>
    [] call = "Reconnect"        -> <<Number("dwActiveProtocol")>>
    [] call = "Transmit"         ->
         <<Buffer("recvBuffer"), Number("recvLength"), Flag("isRecvPciNull"),
           Unless("isRecvPciNull", Number("recvPciProtocol")),
           Unless("isRecvPciNull", Number("recvPciLength"))>>
    [] call = "GetAttrib"        -> <<Buffer("attrBuffer"), Number("attrLength")>>
    [] OTHER                     -> <<>>

ResponseFields(call) == <<Number("apiReturn")>> \o ResultFields(call)

-----------------------------------------------------------------------------
(* Packing and unpacking of the values v of fields, a function of their    *)
(* names.  A field that is left out keeps its default.                     *)

Default(field) ==
  CASE field.kind = "number" -> 0 [] field.kind = "flag" -> TRUE [] OTHER -> <<>>

Defaults(fields) ==
  [n \in {f.name : f \in ToSet(fields)} |->
     Default(CHOOSE f \in ToSet(fields) : f.name = n)]

IsSent(field, v) == field.unless = "never" \/ ~v[field.unless]

\* StreamWriter::writeBe
Cells(field, v) ==
  LET value == v[field.name]
  IN  CASE field.kind = "buffer" -> <<Len(value)>> \o value
        [] field.kind = "flag"   -> <<IF value THEN 1 ELSE 0>>
        [] field.kind = "number" -> <<value>>

\* packPayload
Pack(fields, v) ==
  LET cells[i \in 0..Len(fields)] ==
        IF i = 0 THEN <<>>
        ELSE IF IsSent(fields[i], v) THEN cells[i - 1] \o Cells(fields[i], v) ELSE cells[i - 1]
  IN  cells[Len(fields)]

\* StreamReader::readBe of a field into r = [ok, rest, v].
Read(r, f) ==
  LET taken == IF f.kind = "buffer" THEN 1 + r.rest[1] ELSE 1
  IN  IF ~r.ok \/ ~IsSent(f, r.v) THEN r
      ELSE IF r.rest = <<>> \/ taken > Len(r.rest) THEN [r EXCEPT !.ok = FALSE]
      ELSE [ok   |-> TRUE,
            rest |-> SubSeq(r.rest, taken + 1, Len(r.rest)),
            v    |-> [r.v EXCEPT ![f.name] =
                        CASE f.kind = "buffer" -> SubSeq(r.rest, 2, taken)
                          [] f.kind = "flag"   -> r.rest[1] # 0
                          [] f.kind = "number" -> r.rest[1]]]

\* unpackPayload: [ok, rest, v].  Cells that are left over are ignored, in a
\* response.
Unpack(fields, cells) ==
  LET after[i \in 0..Len(fields)] ==
        IF i = 0 THEN [ok |-> TRUE, rest |-> cells, v |-> Defaults(fields)]
        ELSE Read(after[i - 1], fields[i])
  IN  after[Len(fields)]

=============================================================================
