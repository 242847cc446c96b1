------------------------ MODULE SignallingReassembly ------------------------
(***************************************************************************)
(* How the packets of one packet ID become signalling messages again       *)
(* (MmtTlvDemuxer::processSignalingMessages, processSignalingMessage,      *)
(* FragmentAssembler with checkState).                                     *)
(*                                                                         *)
(* A packet carries a part of one message, or two whole messages           *)
(* (aggregated).  It may be lost, or be too short for the header of        *)
(* signalling messages.  A message may be one whose processing throws      *)
(* out_of_range, for example a CA message without a table: demux catches   *)
(* the exception, and what processSignalingMessages had yet to do is left  *)
(* undone.                                                                 *)
(*                                                                         *)
(* Bytes are not modelled: a message is a sequence of parts.  Bytes that   *)
(* are no message by themselves throw, too, or are read as a message that  *)
(* is not there and ignored.                                               *)
(***************************************************************************)
EXTENDS Fragments, SequencesExt

CONSTANTS
  Fates,        \* what may become of a packet
  Sound,        \* whether the processing of a message succeeds
  None,
  MaxMessages,  \* bound: messages sent
  MaxParts,     \* bound: parts of a message
  SeqModulus    \* packet sequence numbers, 2^32 in the code

Parts ==
  {p \in [unit : 1..MaxMessages, part : 1..MaxParts, of : 1..MaxParts,
          sound : Sound] : p.part <= p.of}

Assemblers ==
  [state : States, data : Seq(Parts), lastSeq : 0..(SeqModulus - 1)]

SignallingAssumption ==
  /\ Fates \subseteq {"intact", "lost", "malformed"}
  /\ Sound \subseteq BOOLEAN /\ Sound # {}
  /\ MaxMessages \in Nat /\ MaxParts \in Nat \ {0}
  /\ SeqModulus \in Nat \ {0, 1}
  /\ None \notin Seq(Parts) /\ None \notin Assemblers

VARIABLES
  air,        \* the parts in the next packet to be sent, or None
  seq,        \* its packet sequence number
  lostRow,    \* packets lost in a row
  asm,        \* the packet ID's FragmentAssembler, None if there is none
  output,     \* what was processed as messages in the last packet
  processed,  \* the last message processed to its end, 0 for none
  heard,      \* history: all parts of the message on air so far have arrived
  fresh,      \* history: and none has been damaged since the last loss
  arrived     \* history: the last sound message all of whose parts have
              \* arrived, and whether damage came before

vars == <<air, seq, lostRow, asm, output, processed, heard, fresh, arrived>>

\* Whoever refuses continuations keeps no data, unless processing threw.
TypeOK ==
  /\ air \in Seq(Parts) \cup {None}
  /\ seq \in 0..(SeqModulus - 1)
  /\ lostRow \in 0..(SeqModulus - 1)
  /\ asm \in Assemblers \cup {None}
  /\ asm # None /\ asm.state # "InFragment" /\ fresh => asm.data = <<>>
  /\ output \in Seq(Seq(Parts))
  /\ processed \in 0..MaxMessages
  /\ heard \in BOOLEAN /\ fresh \in BOOLEAN
  /\ arrived \in [unit : 0..MaxMessages, fresh : BOOLEAN]

\* The packets that may begin a message u.
Beginnings(u) ==
  {<<p>> : p \in {q \in Parts : q.unit = u /\ q.part = 1}}
  \cup {<<p, q>> : p \in {w \in Parts : w.unit = u /\ w.of = 1},
                   q \in {w \in Parts : w.unit = u + 1 /\ w.of = 1}}

Init ==
  /\ air \in Beginnings(1)
  /\ seq = 0 /\ lostRow = 0
  /\ asm = None
  /\ output = <<>> /\ processed = 0
  /\ heard = FALSE /\ fresh = TRUE
  /\ arrived = [unit |-> 0, fresh |-> TRUE]

-----------------------------------------------------------------------------
(* The broadcaster.                                                        *)

Following(p) ==
  IF p.part < p.of THEN {<<[p EXCEPT !.part = @ + 1]>>}
  ELSE IF p.unit = MaxMessages THEN {None}
  ELSE Beginnings(p.unit + 1)

Broadcast ==
  /\ air' \in Following(Last(air))
  /\ seq' = (seq + 1) % SeqModulus

-----------------------------------------------------------------------------
(* Mutated forms of definitions below, each with a mistake that the code   *)
(* could have been written with; they are no part of the model.            *)

CheckStateAlone(a) ==
  IF a.state = "Init" THEN [a EXCEPT !.state = "Skip", !.lastSeq = seq]
  ELSE IF seq # (a.lastSeq + 1) % SeqModulus
  THEN [a EXCEPT !.state = "Skip", !.lastSeq = seq]
  ELSE [a EXCEPT !.lastSeq = seq]

CheckStateOnceOnly(a) ==
  IF a.state = "Init" THEN [a EXCEPT !.state = "Skip", !.lastSeq = seq]
  ELSE IF seq # (a.lastSeq + 1) % SeqModulus
  THEN [a EXCEPT !.state = "Skip", !.data = <<>>]
  ELSE [a EXCEPT !.lastSeq = seq]

ForgetStateOnly(a) == [a EXCEPT !.state = "NotStarted"]

-----------------------------------------------------------------------------
(* The demultiplexer.                                                      *)

NewAssembler == [state |-> "Init", data |-> <<>>, lastSeq |-> 0]

\* FragmentAssembler::checkState
CheckState(a) ==
  IF a.state = "Init" THEN [a EXCEPT !.state = "Skip", !.lastSeq = seq]
  ELSE IF seq # (a.lastSeq + 1) % SeqModulus
  THEN [state |-> "Skip", data |-> <<>>, lastSeq |-> seq]
  ELSE [a EXCEPT !.lastSeq = seq]

\* FragmentAssembler::clear
Cleared(a) == [a EXCEPT !.state = "NotStarted", !.data = <<>>]

\* processSignalingMessage of assembled data: how it ends.
Processing(data, misread) ==
  IF ~IsWholeUnit(data) THEN misread
  ELSE IF data[1].sound THEN "done" ELSE "throws"

\* The effect of a part on r = [asm, output, processed, thrown]: it is put to
\* the data; a complete message is processed and the assembler cleared, unless
\* processing throws.
Assemble(r, p, misread) ==
  LET fi   == Indicator(p)
      more == [r.asm EXCEPT !.data = Append(@, p), !.state = StateAfter(fi)]
      end  == Processing(more.data, misread)
  IN  IF r.thrown \/ ~Accepts(r.asm.state, fi) THEN r
      ELSE IF ~Ends(fi) THEN [r EXCEPT !.asm = more]
      ELSE [asm       |-> IF end = "throws" THEN more ELSE Cleared(more),
            output    |-> Append(r.output, more.data),
            processed |-> IF end = "done" THEN p.unit ELSE r.processed,
            thrown    |-> end = "throws"]

\* processSignalingMessages of an intact packet: its messages one after the other.
Demuxed(misread) ==
  LET begun == [asm       |-> CheckState(IF asm = None THEN NewAssembler ELSE asm),
                output    |-> <<>>,
                processed |-> processed,
                thrown    |-> FALSE]
      after[i \in 0..Len(air)] ==
        IF i = 0 THEN begun ELSE Assemble(after[i - 1], air[i], misread)
  IN  after[Len(air)]

ReceiveIntact ==
  /\ air # None
  /\ \E misread \in {"throws", "ignored"} :
       LET r == Demuxed(misread) IN
         /\ asm' = r.asm
         /\ output' = r.output
         /\ processed' = r.processed
  /\ lostRow' = 0
  /\ heard' = (heard \/ Begins(Indicator(air[1])))
  /\ fresh' = ((fresh \/ lostRow > 0) /\ \A i \in DOMAIN air : air[i].sound)
  /\ LET p == Last(air) IN
       arrived' = IF heard' /\ p.part = p.of /\ p.sound
                  THEN [unit |-> p.unit, fresh |-> fresh'] ELSE arrived
  /\ Broadcast

\* As many as SeqModulus packets lost in a row would go unnoticed.
MissedByAssembler ==
  /\ lostRow < SeqModulus - 1
  /\ lostRow' = lostRow + 1
  /\ heard' = FALSE
  /\ Broadcast
  /\ UNCHANGED <<asm, processed, fresh, arrived>>

Lose == air # None /\ MissedByAssembler /\ UNCHANGED output

\* SignalingMessage::unpack fails: the assembler is not told of the packet.
ReceiveMalformed == air # None /\ MissedByAssembler /\ output' = <<>>

\* clear() and resetStreams() drop all assemblers.
DropAssemblers ==
  /\ asm' = None
  /\ output' = <<>>
  /\ heard' = FALSE
  /\ fresh' = TRUE
  /\ UNCHANGED <<air, seq, lostRow, processed, arrived>>

Next ==
  \/ ReceiveIntact
  \/ "lost" \in Fates /\ Lose
  \/ "malformed" \in Fates /\ ReceiveMalformed
  \/ DropAssemblers

Spec == Init /\ [][Next]_vars

-----------------------------------------------------------------------------
(* Safety.                                                                 *)

\* Only whole messages are processed, whatever is lost, unless a damaged one
\* was received and no gap since: a gap repairs what an exception leaves behind.
WholeMessages == fresh => \A i \in DOMAIN output : IsWholeUnit(output[i])

\* A message all of whose packets were received is processed, unless its own
\* content is damaged ("valid MPT after damaged input must still update
\* streams", demux_safety_test.cpp:174).
ArrivedMessageProcessed == processed >= arrived.unit

\* ... or, at least, unless another one's was and there was no gap since.
UndamagedMessageProcessed == arrived.fresh => processed >= arrived.unit

SentNumber == IF air = None THEN MaxMessages ELSE Last(air).unit
WholeProcessed == IF WholeMessages THEN processed ELSE 0
Channel ==
  INSTANCE UnitChannel WITH sent <- SentNumber, delivered <- WholeProcessed

\* Messages are processed whole, in the order they were sent, each once.
ImplementsChannel == Channel!Spec

=============================================================================
