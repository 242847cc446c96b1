---------------------------- MODULE Descrambling ----------------------------
(***************************************************************************)
(* AcasHandler in its place: between a broadcast whose scrambling key      *)
(* changes every period, the demultiplexer thread that reads the broadcast *)
(* in order, and the tuner that changes the channel.                       *)
(*                                                                         *)
(* Period p of a station is scrambled under parity p % 2 with key number   *)
(* p.  The ECM of period p carries keys p and p + 1, each under its own    *)
(* parity; it is repeated all through period p.  The demultiplexer         *)
(* (MmtTlvDemuxer::processEcm and the decryption in demux) calls onEcm for *)
(* every repetition and decrypt for every scrambled packet.  CBonTuner     *)
(* makes both, and the clear() of a channel change, under its own mutex,   *)
(* so one call ends before the next begins.  The card may take any time to *)
(* answer, and decrypt gives up waiting after ten seconds.                 *)
(***************************************************************************)
EXTENDS AcasHandler

CONSTANTS
  Stations,
  MaxPeriod      \* bound: periods of one tuning

\* What every instance of this module gives its constants.
BroadcastAssumption ==
  /\ MaxPeriod \in Nat
  /\ Ecms = [station : Stations, period : 0..MaxPeriod]
  /\ Feeders = Callers

VARIABLES
  onAir,     \* the station tuned and its current period
  heard,     \* an ECM of this period has been received
  handed,    \* packets of this period given to decrypt: "none", "asked" if it has
             \* answered none of them yet, with a key or without, or "answered"
  gaveUp,    \* decrypt gave up waiting for every packet of the period before
  packet     \* where the last packet given to decrypt came from, or None

broadcast == <<onAir, heard, handed, gaveUp, packet>>
allVars   == <<vars, broadcast>>

ParityOf(p) == IF p % 2 = 0 THEN "EVEN" ELSE "ODD"

\* The number of the key an ECM carries under a parity.
KeyNumber(e, parity) ==
  IF ParityOf(e.period) = parity THEN e.period ELSE e.period + 1

TuneTo(s) ==
  /\ onAir' = [station |-> s, period |-> 0]
  /\ heard' = FALSE /\ handed' = "none" /\ gaveUp' = FALSE
  /\ packet' = None

StreamInit ==
  /\ Init
  /\ onAir \in [station : Stations, period : {0}]
  /\ heard = FALSE /\ handed = "none" /\ gaveUp = FALSE /\ packet = None

NobodyCalls == \A c \in Callers : pc[c] = "idle"

\* processEcm: the ECM on air is a new one for the handler, or is dropped.
ReceiveEcm(c) ==
  /\ NobodyCalls /\ running
  /\ \/ OnEcm(c, onAir)
     \/ IsRepeatedEcm(onAir) /\ UNCHANGED vars
  /\ heard' = TRUE
  /\ UNCHANGED <<onAir, handed, gaveUp, packet>>

\* Caller c's packet is answered, unless c waits (on).
Answered(c) == handed' = IF pc'[c] = "blocked" /\ handed # "answered" THEN "asked" ELSE "answered"

\* demux of a scrambled packet; without a usable key decrypt fails at once.
ReceivePacket(c) ==
  /\ NobodyCalls /\ running
  /\ \/ Decrypt(c, ParityOf(onAir.period))
     \/ /\ ~keyValid
        /\ ~ecmReady \/ WaitOver(generation)
        /\ UNCHANGED vars
  /\ Answered(c)
  /\ packet' = onAir
  /\ UNCHANGED <<onAir, heard, gaveUp>>

\* The reader reaches the next period.  Nothing is lost on the way: it has
\* seen an ECM and a packet of this one.
NextPeriod ==
  /\ NobodyCalls /\ running
  /\ heard /\ handed # "none"
  /\ onAir.period < MaxPeriod
  /\ onAir' = [onAir EXCEPT !.period = @ + 1]
  /\ heard' = FALSE /\ handed' = "none"
  /\ gaveUp' = (handed = "asked")
  /\ UNCHANGED <<vars, packet>>

\* CBonTuner::SetChannel and PurgeTsStream: clear(), then the new stream.
Retune(c) ==
  /\ NobodyCalls
  /\ Clear(c)
  /\ \E s \in Stations : TuneTo(s)

\* A decrypt that waits is woken: it waits on, or answers.
WakeReader(c) ==
  /\ WakeDecrypt(c)
  /\ Answered(c)
  /\ UNCHANGED <<onAir, heard, gaveUp, packet>>

\* The other steps inside a call and inside the worker, and the passing of time:
\* decrypt may give up (TimeoutDecrypt), however far the card has come.
Internal ==
  /\ \/ \E c \in Callers : NotifyOne(c) \/ NotifyAll(c) \/ FinishDecrypt(c)
     \/ WorkerStep
     \/ Environment
  /\ UNCHANGED broadcast

StreamNext ==
  \/ \E c \in Callers : ReceiveEcm(c) \/ ReceivePacket(c) \/ Retune(c) \/ WakeReader(c)
  \/ NextPeriod
  \/ Internal

StreamSpec == StreamInit /\ [][StreamNext]_allVars

-----------------------------------------------------------------------------
\* Every packet that is decrypted is decrypted with the key it was scrambled
\* with: the right station's, and of the right period.  A key kept too long,
\* or a parity served from an ECM of two periods ago, turns it to garbage.
\* The period is right for one exception, which is the code's: if decrypt gave
\* up waiting for every packet of the period before, lastKeyType is still the
\* parity of the period before that, so packets of this one, which has the same
\* parity, are served at once with whatever key is published (the test of
\* lastKeyType in getDecryptionKey, acasHandler.cpp:145-155), although it may
\* be two periods old.  One answer in a period is enough for the next.
RightKey ==
  \A c \in Callers :
    got[c] # None =>
      /\ got[c].msg.station = packet.station
      /\ ~gaveUp => KeyNumber(got[c].msg, ParityOf(packet.period)) = packet.period

=============================================================================
