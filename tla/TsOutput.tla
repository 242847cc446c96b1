------------------------------ MODULE TsOutput ------------------------------
(***************************************************************************)
(* A video asset on its way into the transport stream, and back out of it: *)
(* MmtTlvDemuxer's gap check and FragmentValidator, MpuVideoProcessor,     *)
(* RemuxerHandler::writeStream and onPacketDrop, and TsVerifier, which     *)
(* reads what was written (--verify and --report).                         *)
(*                                                                         *)
(* A frame is a series of NAL units, the first an access unit delimiter,   *)
(* each sent in one or more parts, a part to a packet.  The processor      *)
(* passes every part on at once.  The writer begins a PES packet at a      *)
(* delimiter and fills TS packets; when the receiver notices lost packets  *)
(* it skips one value of the continuity counter, and that is all a reader  *)
(* can know of the loss.  Parts are of one size, the payload of a TS       *)
(* packet holds PacketCells of them, and the PES header fills another.     *)
(***************************************************************************)
EXTENDS Fragments, FiniteSets

CONSTANTS
  Shape,        \* of a frame: a sequence of [type, of], the first an "aud"
  SlicesNeeded, \* slices after which a frame may end: 4 in 8K video, else 1
  PacketCells,  \* parts that fit into a TS packet
  CcModulus,    \* continuity counters: 16 in the code
  MaxFrames,    \* bound: frames sent
  None

Parts == {p \in [frame : 1..MaxFrames, nal : 1..Len(Shape), part : Nat \ {0}, of : Nat \ {0}] :
            p.of = Shape[p.nal].of /\ p.part <= p.of}

Cells == Parts \cup [frame : 1..MaxFrames, nal : {0}, part : {1}, of : {1}]

Closed == [cells : Seq(Cells), damaged : BOOLEAN, intact : BOOLEAN]

Procs == [left : Nat, timed : BOOLEAN, slices : 0..SlicesNeeded]

\* The slices in the first n NAL units of a frame.
Slices(n) == {m \in 1..n : Shape[m].type = "slice"}

\* The processor sees where a frame ends by its slices.
TsOutputAssumption ==
  /\ SlicesNeeded \in Nat \ {0} /\ PacketCells \in Nat \ {0}
  /\ CcModulus \in Nat \ {0, 1} /\ MaxFrames \in Nat \ {0}
  /\ Shape \in Seq([type : {"aud", "slice", "other"}, of : Nat \ {0}])
  /\ Shape # <<>> /\ \A n \in DOMAIN Shape : Shape[n].type = "aud" <=> n = 1
  /\ Shape[1].of = 1 /\ Cardinality(Slices(Len(Shape))) >= SlicesNeeded
  /\ None \notin Nat /\ None \notin Parts /\ None \notin Seq(Cells) /\ None \notin Closed
  /\ None \notin Procs

VARIABLES
  air,       \* the next part to be sent: [frame, nal, part, of]
  missed,    \* a packet was lost since one last arrived
  state,     \* the FragmentValidator
  proc,      \* the MpuVideoProcessor: [left, timed, slices]
  writer,    \* mapPes..[pid] and mapCC[pid]: [open, pending, index, cc]
  reader,    \* the verifier's PidState: [cc, duplicate, pes, damaged]
  closed,    \* the PES packet it has just closed, or None
  bumps,     \* history: values of the counter skipped since a packet was written
  masked,    \* history: so many were skipped at once that the counter came round
  tainted,   \* history: frames with a part that could not be decrypted
  calm       \* history: the frame since whose beginning nothing went wrong

vars == <<air, missed, state, proc, writer, reader, closed, bumps, masked, tainted, calm>>

Writers == [open : BOOLEAN, pending : Seq(Cells), index : {0, 1}, cc : 0..(CcModulus - 1)]

Readers == [cc : 0..(CcModulus - 1) \cup {None}, duplicate : BOOLEAN,
            pes : (Seq(Cells) \ {<<>>}) \cup {None}, damaged : BOOLEAN]

TypeOK ==
  /\ air \in Parts \cup {None}
  /\ missed \in BOOLEAN /\ state \in States
  /\ proc \in Procs /\ writer \in Writers /\ reader \in Readers
  /\ closed \in Closed \cup {None}
  /\ bumps \in 0..CcModulus /\ masked \in BOOLEAN
  /\ tainted \subseteq 1..MaxFrames /\ calm \in 1..MaxFrames \cup {None}

FirstPart(f, n) == [frame |-> f, nal |-> n, part |-> 1, of |-> Shape[n].of]

LastPart(f) ==
  LET n == Len(Shape) IN [frame |-> f, nal |-> n, part |-> Shape[n].of, of |-> Shape[n].of]

Cleared == [left |-> 0, timed |-> FALSE, slices |-> 0]

Init ==
  /\ air = FirstPart(1, 1)
  /\ missed = FALSE /\ state = "Init" /\ proc = Cleared
  /\ writer = [open |-> FALSE, pending |-> <<>>, index |-> 0, cc |-> 0]
  /\ reader = [cc |-> None, duplicate |-> FALSE, pes |-> None, damaged |-> FALSE]
  /\ closed = None /\ bumps = 0 /\ masked = FALSE /\ tainted = {} /\ calm = None

-----------------------------------------------------------------------------
(* The broadcaster.                                                        *)

Following(p) ==
  IF p.part < p.of THEN [p EXCEPT !.part = @ + 1]
  ELSE IF p.nal < Len(Shape) THEN FirstPart(p.frame, p.nal + 1)
  ELSE IF p.frame < MaxFrames THEN FirstPart(p.frame + 1, 1) ELSE None

Broadcast == air' = Following(air)

Lose ==
  /\ air # None
  /\ Broadcast
  /\ missed' = TRUE /\ calm' = None
  /\ closed' = None
  /\ UNCHANGED <<state, proc, writer, reader, bumps, masked, tainted>>

-----------------------------------------------------------------------------
(* Mutated forms of definitions below.                                     *)

NothingSkipped(w) == w

SkippedAtEach(w) == [w EXCEPT !.cc = (@ + 1) % CcModulus]

-----------------------------------------------------------------------------
(* MpuVideoProcessor::process.  The outcome of a part is the processor's   *)
(* new state and whether the part begins or ends a frame, or None if it is *)
(* dropped.                                                                *)

Dropped == [proc |-> Cleared, first |-> FALSE, last |-> FALSE, passed |-> FALSE]

\* The beginning of a NAL unit; a part that is none is read as one if the
\* unit before it seems complete, and then its size is absurd.
Started(q, p, known) ==
  LET type == Shape[p.nal].type
      kept == IF type = "aud" THEN [q EXCEPT !.timed = TRUE, !.slices = 0] ELSE q
  IN IF p.part > 1 \/ (type = "aud" /\ ~known) THEN None
     ELSE [kept EXCEPT !.left = p.of,
                       !.slices = IF type = "slice" /\ @ < SlicesNeeded THEN @ + 1 ELSE @]

\* In a unit the beginning of another one is read on as data, and is longer
\* by the four bytes of its size.
Fits(q, p) == q.left > (IF p.part = 1 THEN 1 ELSE 0)

Process(q, p, known) ==
  LET begins == q.left = 0
      unit   == IF begins THEN Started(q, p, known) ELSE q
  IN IF unit = None THEN Dropped
     ELSE IF ~unit.timed \/ (~begins /\ ~Fits(unit, p)) THEN Dropped
     ELSE [proc   |-> [unit EXCEPT !.left = @ - 1],
           first  |-> begins /\ Shape[p.nal].type = "aud",
           last   |-> unit.slices >= SlicesNeeded /\ unit.left = 1,
           passed |-> TRUE]

-----------------------------------------------------------------------------
(* RemuxerHandler.                                                         *)

\* What a new PES packet begins with: what was left of the last is dropped.
NewPending(w, header) == IF header = <<>> THEN w.pending ELSE header

Header(p) == [frame |-> p.frame, nal |-> 0, part |-> 1, of |-> 1]

\* The TS packets that writeStream puts out for a part, and the writer after it.
Written(w, p, first, last) ==
  LET new     == first \/ ~w.open
      pending == Append(NewPending(w, IF new THEN <<Header(p)>> ELSE <<>>), p)
      full    == Len(pending) \div PacketCells
      count   == IF last /\ Len(pending) % PacketCells # 0 THEN full + 1 ELSE full
      size    == Len(pending)
      upTo(i) == IF i * PacketCells < size THEN i * PacketCells ELSE size
  IN [packets |-> [i \in 1..count |->
                     [cc    |-> (w.cc + i - 1) % CcModulus,
                      start |-> i = 1 /\ (new \/ w.index = 0),
                      cells |-> SubSeq(pending, (i - 1) * PacketCells + 1, upTo(i))]],
      writer  |-> [open    |-> TRUE,
                   pending |-> SubSeq(pending, upTo(count) + 1, size),
                   index   |-> IF count > 0 THEN 1 ELSE IF new THEN 0 ELSE w.index,
                   cc      |-> (w.cc + count) % CcModulus]]

\* onPacketDrop: the counter is skipped once, however many packets were lost.
Skipped(w) == [w EXCEPT !.cc = (@ + 1) % CcModulus]

-----------------------------------------------------------------------------
(* TsVerifier::processPacket, processPesPayload and closePes: the PID's    *)
(* state with the PES packets closed so far.                               *)

IsFirstRepeat(v, p) == v.cc = p.cc /\ ~v.duplicate

Breaks(v, p) == v.cc # None /\ p.cc # (v.cc + 1) % CcModulus

Continued(v, p) == IF v.pes = None THEN v ELSE [v EXCEPT !.pes = @ \o p.cells]

Opened(pid, p) == [pid EXCEPT !.pes = p.cells, !.damaged = FALSE]

Verified(v, p) ==
  IF IsFirstRepeat(v.pid, p) THEN [v EXCEPT !.pid.duplicate = TRUE]
  ELSE LET damaged == v.pid.damaged \/ Breaks(v.pid, p)
           pid == [v.pid EXCEPT !.cc = p.cc, !.duplicate = FALSE, !.damaged = damaged]
       IN IF ~p.start THEN [v EXCEPT !.pid = Continued(pid, p)]
          ELSE [pid |-> Opened(pid, p),
                closed |-> IF pid.pes = None THEN v.closed
                           ELSE [cells |-> pid.pes, damaged |-> damaged]]

\* Of packets one after the other.
AllVerified(pid, packets) ==
  LET after[i \in 0..Len(packets)] ==
        IF i = 0 THEN [pid |-> pid, closed |-> None] ELSE Verified(after[i - 1], packets[i])
  IN  after[Len(packets)]

-----------------------------------------------------------------------------
(* A packet that arrives.                                                  *)

Notice(w) == IF missed THEN Skipped(w) ELSE w

\* Packets that could not be decrypted are counted, and go no further.
ReceiveUndecryptable ==
  /\ air # None
  /\ Broadcast
  /\ missed' = FALSE /\ calm' = None
  /\ state' = (IF missed THEN "NotStarted" ELSE state)
  /\ proc' = (IF missed THEN Cleared ELSE proc)
  /\ writer' = Notice(writer)
  /\ bumps' = (IF missed /\ bumps < CcModulus THEN bumps + 1 ELSE bumps)
  /\ tainted' = tainted \cup {air.frame}
  /\ closed' = None
  /\ UNCHANGED <<reader, masked>>

\* The part is passed on, and the verifier reads what is written.
PassOn(r, w, skipped) ==
  LET quiet == IF calm # None /\ ~missed THEN calm
               ELSE IF r.first THEN air.frame ELSE None
      out  == Written(w, air, r.first, r.last)
      read == AllVerified(reader, out.packets)
      some == out.packets # <<>>
  IN /\ writer' = out.writer
     /\ reader' = read.pid
     /\ closed' = (IF read.closed = None THEN None
                   ELSE [cells |-> read.closed.cells, damaged |-> read.closed.damaged,
                         intact |-> quiet # None /\ quiet <= read.closed.cells[1].frame])
     /\ calm' = quiet
     /\ masked' = (masked \/ (some /\ reader.cc # None /\ skipped >= CcModulus - 1))
     /\ bumps' = (IF some THEN 0 ELSE skipped)

Receive ==
  /\ air # None
  /\ Broadcast
  /\ missed' = FALSE
  /\ LET s  == IF missed THEN "NotStarted" ELSE state
         q  == IF missed THEN Cleared ELSE proc
         fi == Indicator(air)
         w  == Notice(writer)
         skipped == IF missed /\ bumps < CcModulus THEN bumps + 1 ELSE bumps
     IN \E known \in BOOLEAN :
          LET r == Process(q, air, known)
          IN IF ~Accepts(s, fi) \/ ~r.passed
             THEN /\ state' = (IF Accepts(s, fi) THEN "NotStarted" ELSE s)
                  /\ proc' = (IF Accepts(s, fi) THEN r.proc ELSE q)
                  /\ writer' = w /\ bumps' = skipped
                  /\ closed' = None /\ calm' = None
                  /\ UNCHANGED <<reader, masked>>
             ELSE /\ state' = StateAfter(fi)
                  /\ proc' = r.proc
                  /\ PassOn(r, w, skipped)
  /\ UNCHANGED tainted

Next == Lose \/ Receive \/ ReceiveUndecryptable

Spec == Init /\ [][Next]_vars

-----------------------------------------------------------------------------
(* Properties.                                                             *)

\* The first n of some cells are the header of a frame and its parts, in order.
HoldFrame(cells, n) ==
  LET f == cells[1].frame
  IN /\ cells[1] = Header(FirstPart(f, 1)) /\ n >= 2 /\ cells[2] = FirstPart(f, 1)
     /\ \A i \in 2..(n - 1) : cells[i + 1] = Following(cells[i])
     /\ cells[n] = LastPart(f)

IsWholeFrame(cells) == HoldFrame(cells, Len(cells))

\* What is lost on the way is seen in the output: a PES packet that the
\* verifier finds whole holds one frame, and all of it, unless a part of a
\* frame in it could not be decrypted, or the counter skipped so many values between two
\* packets that it came round.
LossIsReported ==
  /\ closed # None /\ ~closed.damaged /\ ~masked
  /\ \A i \in DOMAIN closed.cells : closed.cells[i].frame \notin tainted
  => IsWholeFrame(closed.cells)

\* Nothing else is: a frame that arrived, followed without a loss by the
\* beginning of the next one, is read back whole and undamaged, whatever went
\* before it.
NothingElseIsReported ==
  closed # None /\ closed.intact /\ ~masked
    => ~closed.damaged /\ IsWholeFrame(closed.cells)

=============================================================================
