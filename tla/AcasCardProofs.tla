--------------------------- MODULE AcasCardProofs ---------------------------
(***************************************************************************)
(* The card session: a proof that an EMM is only ever executed by the card *)
(* it is addressed to, whatever happens to card, reader and server between *)
(* two PC/SC calls.                                                        *)
(***************************************************************************)
EXTENDS AcasCard, Integers, TLAPS

-----------------------------------------------------------------------------
(* The inductive invariant: when the cached card ID can be relied on.      *)

\* A card that stays put is there, and so is one with an open handle.
CardThere == calm \/ handle = "good" => slot # None

\* The ID is that of the card behind a good handle, and no handle becomes good
\* again before it has been forgotten.
IdOfCard ==
  /\ handle = "none" => casModuleId = None
  /\ pc = "reconnect" => casModuleId = None
  /\ handle = "good" /\ casModuleId # None => slot = casModuleId

\* An EMM is put to the card after its address has been compared.
AddressCompared == pc = "emm" => casModuleId # None /\ casModuleId = op.to

SessionInv == CardThere /\ IdOfCard /\ AddressCompared

\* Initially nothing is open and no ID is known.
LEMMA SessionInit == Init => SessionInv
  BY DEF Init, SessionInv, CardThere, IdOfCard, AddressCompared

\* What happens to card, reader and server preserves the invariant.
LEMMA SessionDisturbance == SessionInv /\ Disturbance => SessionInv'
<1> SUFFICES ASSUME SessionInv, Disturbance PROVE SessionInv'
  OBVIOUS
<1> USE DEF SessionInv, CardThere, IdOfCard, AddressCompared, session, external
<1>1. CASE CardPulled
  BY <1>1 DEF CardPulled
<1>2. CASE CardReset
  BY <1>2 DEF CardReset
<1>3. CASE HandlesForgotten
  BY <1>3 DEF HandlesForgotten
<1>4. CASE CalmDown
  BY <1>4 DEF CalmDown
<1>5. ASSUME NEW k \in CardIds, CardInserted(k) PROVE SessionInv'
  BY <1>5, CardAssumption DEF CardInserted
<1> QED
  BY <1>1, <1>2, <1>3, <1>4, <1>5 DEF Disturbance

\* A call that begins with a reset session forgets the ID first.
LEMMA SessionCall ==
  ASSUME SessionInv, CallEcm \/ \E a \in Addresses : CallEmm(a)
  PROVE  SessionInv'
  BY
  DEF SessionInv, CardThere, IdOfCard, AddressCompared, session, external,
      CallEcm, CallEmm, Begin, Finish

\* Nothing that is said of the card has changed, and the ID is kept or forgotten.
IdKeptOrForgotten ==
  /\ UNCHANGED <<slot, calm, handle>>
  /\ casModuleId' \in {casModuleId, None}
  /\ pc' # "emm"
  /\ pc' = "reconnect" => casModuleId' = None

\* Such a step preserves the invariant.
LEMMA SessionQuiet == SessionInv /\ IdKeptOrForgotten => SessionInv'
  BY DEF SessionInv, CardThere, IdOfCard, AddressCompared, IdKeptOrForgotten

\* reconnect() and connect() need a card.
LEMMA OpenNeedsCard == SessionInv /\ TRUE \in MayOpen => slot # None
  BY DEF SessionInv, CardThere, MayOpen

\* Only a good handle has commands accepted.
LEMMA AcceptedByGood == "accepted" \in TransmitOutcome => handle = "good"
  BY DEF TransmitOutcome

\* Every PC/SC call preserves the invariant.
LEMMA SessionCallStep == SessionInv /\ SessionStep => SessionInv'
<1> SUFFICES ASSUME SessionInv, SessionStep PROVE SessionInv'
  OBVIOUS
<1>1. CASE Reconnect
  <2>1. CASE TRUE \in MayReconnect /\ handle' = "good" /\ GoOn("open") /\ UNCHANGED casModuleId
    <3>1. slot # None
      BY <2>1, OpenNeedsCard DEF MayReconnect
    <3> QED
      BY <1>1, <2>1, <3>1
      DEF Reconnect, GoOn, SessionInv, CardThere, IdOfCard, AddressCompared, external
  <2>2. CASE UNCHANGED <<handle, cardReset, casModuleId>>
    BY <1>1, <2>2, SessionQuiet
    DEF Reconnect, GoOn, Finish, IdKeptOrForgotten, external, SessionInv, IdOfCard
  <2> QED
    BY <1>1, <2>1, <2>2 DEF Reconnect
<1>2. CASE Open
  <2>1. pc = "open" /\ UNCHANGED <<slot, calm>>
    BY <1>2 DEF Open, external
  <2>2. CASE Finish("Failed") /\ UNCHANGED <<handle, session>>
    BY <2>1, <2>2, SessionQuiet DEF Finish, IdKeptOrForgotten, session
  <2>3. ASSUME NEW known, UseHandle(known) PROVE SessionInv'
    <3>1. CASE GoOn("emm") /\ casModuleId # None /\ ~IsForAnother(op.to)
      BY <2>1, <2>3, <3>1
      DEF UseHandle, GoOn, IsForAnother, SessionInv, CardThere, IdOfCard, AddressCompared
    <3>2. CASE GoOn("auth") \/ GoOn("settings") \/ Finish("NotAddressed")
      BY <2>1, <2>3, <3>2, SessionQuiet
      DEF UseHandle, GoOn, Finish, IdKeptOrForgotten
    <3> QED
      BY <2>3, <3>1, <3>2 DEF UseHandle
  <2>4. ASSUME NEW known, Connect(known) PROVE SessionInv'
    <3>1. handle = "none" /\ casModuleId = None
      BY <2>4 DEF Connect, SessionInv, IdOfCard
    <3>2. CASE TRUE \in MayOpen /\ handle' = "good" /\ casModuleId' = None
               /\ (GoOn("auth") \/ GoOn("settings"))
      BY <2>1, <3>1, <3>2, OpenNeedsCard
      DEF GoOn, SessionInv, CardThere, IdOfCard, AddressCompared
    <3>3. CASE Thrown /\ UNCHANGED handle
      BY <2>1, <3>3, SessionQuiet DEF Thrown, Finish, IdKeptOrForgotten
    <3> QED
      BY <2>4, <3>1, <3>2, <3>3 DEF Connect
  <2> QED
    BY <1>2, <2>2, <2>3, <2>4 DEF Open
<1>3. CASE Authenticate \/ TransmitEcm
  BY <1>3, SessionQuiet
  DEF Authenticate, TransmitEcm, GoOn, EcmFailed, Thrown, RetryAfterReset,
      Finish, IdKeptOrForgotten, external
<1>4. CASE ReadSettings
  <2>1. UNCHANGED <<slot, calm, handle>>
    BY <1>4 DEF ReadSettings, external
  <2>2. PICK outcome \in TransmitOutcome :
          IF outcome = "accepted"
          THEN /\ casModuleId' = slot
               /\ IF slot = op.to THEN GoOn("emm") ELSE Finish("NotAddressed")
          ELSE EmmFailed(outcome)
    BY <1>4 DEF ReadSettings
  <2>3. CASE outcome = "accepted"
    <3>1. handle = "good" /\ slot # None
      BY <2>3, AcceptedByGood DEF SessionInv, CardThere
    <3> QED
      BY <2>1, <2>2, <2>3, <3>1
      DEF GoOn, Finish, SessionInv, CardThere, IdOfCard, AddressCompared
  <2>4. CASE outcome # "accepted"
    BY <2>1, <2>2, <2>4, SessionQuiet
    DEF EmmFailed, Thrown, RetryAfterReset, Finish, IdKeptOrForgotten
  <2> QED
    BY <2>3, <2>4
<1>5. CASE TransmitEmm
  BY <1>5, SessionQuiet
  DEF TransmitEmm, EmmFailed, Thrown, RetryAfterReset, Finish,
      IdKeptOrForgotten, external
<1> QED
  BY <1>1, <1>2, <1>3, <1>4, <1>5 DEF SessionStep

\* The inductive invariant holds in every reachable state.
LEMMA SessionInvariant == Spec => []SessionInv
<1>1. SessionInv /\ [Next]_vars => SessionInv'
  <2> SUFFICES ASSUME SessionInv, [Next]_vars PROVE SessionInv'
    OBVIOUS
  <2>1. CASE UNCHANGED vars
    BY <2>1
    DEF vars, session, external, SessionInv, CardThere, IdOfCard, AddressCompared
  <2> QED
    BY <2>1, SessionCall, SessionCallStep, SessionDisturbance DEF Next
<1>2. QED
  BY <1>1, SessionInit, PTL DEF Spec

\* An EMM is executed by the card it is addressed to or not at all: an exchanged
\* card is noticed before its predecessor's ID is used.
THEOREM EmmReachesAddressee == Spec => []EmmReachesOnlyItsAddressee
<1>1. SessionInv => EmmReachesOnlyItsAddressee
  BY DEF SessionInv, IdOfCard, AddressCompared, EmmReachesOnlyItsAddressee
<1>2. QED
  BY <1>1, SessionInvariant, PTL

-----------------------------------------------------------------------------
(* Type correctness, with the bounds on what one call may repeat.          *)

\* A call is in progress exactly while there is a PC/SC call to make, and only EMMs
\* ask for the settings and for the EMM command.
CallInProgress ==
  /\ pc # "idle" => op \in Ops
  /\ pc = "idle" => op = None
  /\ pc \in {"settings", "emm"} => op.kind = "emm"

CardTypeInv == TypeOK /\ CallInProgress

\* Initially nothing is in progress.
LEMMA CardTypeInit == Init => CardTypeInv
<1> SUFFICES ASSUME Init PROVE CardTypeInv
  OBVIOUS
<1>1. CallInProgress
  BY DEF Init, CallInProgress
<1>2. calm \in BOOLEAN /\ cardReset \in BOOLEAN
  BY DEF Init
<1>3. TypeOK
  BY <1>2 DEF Init, TypeOK, Results, MaxRetries
<1> QED
  BY <1>1, <1>3 DEF CardTypeInv

\* The calls there are.
LEMMA OpsAre ==
  /\ [kind |-> "ecm"] \in Ops
  /\ \A a \in Addresses : [kind |-> "emm", to |-> a] \in Ops
  /\ \A o \in Ops : o.kind \in {"ecm", "emm"}
  BY DEF Ops

\* Every step keeps the session well typed.
LEMMA CardTypeStep == CardTypeInv /\ [Next]_vars => CardTypeInv'
<1> SUFFICES ASSUME CardTypeInv, [Next]_vars PROVE CardTypeInv'
  OBVIOUS
<1> USE OpsAre
    DEF CardTypeInv, CallInProgress, TypeOK, Results, MaxRetries, session, external
<1>1. CASE Disturbance
  <2>1. UNCHANGED <<reader, cardReset, casModuleId, op, pc, retries, reconnects, result>>
    BY <1>1
    DEF Disturbance, CardPulled, CardReset, HandlesForgotten, CalmDown, CardInserted
  <2>2. /\ slot' \in CardIds \cup {None} /\ calm' \in BOOLEAN
        /\ handle' \in {"none", "good", "reset", "gone", "stale"}
        /\ context' \in {"none", "good", "stale"}
    BY <1>1
    DEF Disturbance, CardPulled, CardReset, HandlesForgotten, CalmDown, CardInserted
  <2> QED
    BY <2>1, <2>2
<1>2. CASE CallEcm
  BY <1>2 DEF CallEcm, Begin
<1>3. ASSUME NEW a \in Addresses, CallEmm(a) PROVE CardTypeInv'
  BY <1>3 DEF CallEmm, Begin, Finish
<1>4. CASE Reconnect
  <2>1. CASE handle' = "good" /\ cardReset' = FALSE /\ GoOn("open") /\ UNCHANGED casModuleId
    BY <1>4, <2>1 DEF Reconnect, GoOn
  <2>2. CASE /\ reconnects + 1 < MaxRetries /\ reconnects' = reconnects + 1
             /\ UNCHANGED <<op, pc, retries, result, handle, cardReset, casModuleId>>
    BY <1>4, <2>2 DEF Reconnect
  <2>3. CASE Finish(Failure) /\ UNCHANGED <<handle, cardReset, casModuleId>>
    BY <1>4, <2>3 DEF Reconnect, Finish, Failure
  <2> QED
    BY <1>4, <2>1, <2>2, <2>3 DEF Reconnect
<1>5. CASE Open
  <2>1. PICK known \in Initialised :
          IF op.kind = "emm" /\ known = "none"
          THEN Finish("Failed") /\ UNCHANGED <<handle, session>>
          ELSE UseHandle(known) \/ Connect(known)
    BY <1>5 DEF Open
  <2>2. known \in {"none", "good", "stale"} /\ pc = "open" /\ UNCHANGED external
    BY <1>5 DEF Open, Initialised
  <2>3. CASE Finish("Failed") /\ UNCHANGED <<handle, session>>
    BY <2>2, <2>3 DEF Finish
  <2>4. CASE UseHandle(known)
    <3>1. \/ GoOn("auth")
          \/ op.kind = "emm" /\ (GoOn("settings") \/ GoOn("emm"))
          \/ Finish("NotAddressed")
      <4>1. op.kind = "ecm" \/ op.kind = "emm"
        BY <2>2
      <4>2. CASE op.kind = "ecm"
        BY <2>4, <4>2 DEF UseHandle
      <4>3. CASE op.kind = "emm"
        BY <2>4, <4>3 DEF UseHandle
      <4> QED
        BY <4>1, <4>2, <4>3
    <3>2. context' = known /\ UNCHANGED <<handle, cardReset, casModuleId>>
      BY <2>4 DEF UseHandle
    <3> QED
      BY <2>2, <3>1, <3>2 DEF GoOn, Finish
  <2>5. CASE Connect(known)
    <3>1. \/ GoOn("auth") \/ (GoOn("settings") /\ op.kind = "emm") \/ Thrown
      BY <2>2, <2>5 DEF Connect
    <3>2. /\ handle' \in {handle, "good"} /\ context' \in {"none", "good", "stale"}
          /\ cardReset' \in BOOLEAN /\ casModuleId' \in {casModuleId, None}
      BY <2>2, <2>5 DEF Connect, ContextAfterFailure, Thrown
    <3> QED
      BY <2>2, <3>1, <3>2 DEF GoOn, Thrown, Finish, Failure
  <2> QED
    BY <2>1, <2>3, <2>4, <2>5
<1>6. CASE Authenticate \/ TransmitEcm
  <2>1. PICK outcome \in TransmitOutcome :
          \/ (GoOn("ecm") \/ Finish("Keys")) /\ UNCHANGED <<cardReset, casModuleId>>
          \/ EcmFailed(outcome)
    BY <1>6 DEF Authenticate, TransmitEcm
  <2>2. pc \in {"auth", "ecm"} /\ UNCHANGED <<external, handle, context>>
    BY <1>6 DEF Authenticate, TransmitEcm
  <2>3. CASE EcmFailed(outcome)
    <3>1. CASE ResetsLeft /\ RetryAfterReset
      BY <2>2, <3>1 DEF ResetsLeft, RetryAfterReset, MaxAttempts
    <3>2. CASE Thrown
      BY <2>2, <3>2 DEF Thrown, Finish, Failure
    <3>3. CASE Finish("NoKeys") /\ UNCHANGED <<cardReset, casModuleId>>
      BY <2>2, <3>3 DEF Finish
    <3> QED
      BY <2>3, <3>1, <3>2, <3>3 DEF EcmFailed
  <2> QED
    BY <2>1, <2>2, <2>3 DEF GoOn, Finish
<1>7. CASE ReadSettings \/ TransmitEmm
  <2>1. /\ pc \in {"settings", "emm"} /\ op.kind = "emm"
        /\ UNCHANGED <<external, handle, context>>
    BY <1>7 DEF ReadSettings, TransmitEmm
  <2>2. PICK outcome \in TransmitOutcome :
          \/ /\ GoOn("emm") \/ Finish("NotAddressed") \/ Finish("Applied")
             /\ casModuleId' \in {casModuleId, slot} /\ UNCHANGED cardReset
          \/ EmmFailed(outcome)
    BY <1>7 DEF ReadSettings, TransmitEmm
  <2>3. CASE EmmFailed(outcome)
    <3>1. CASE ResetsLeft /\ RetryAfterReset
      BY <2>1, <3>1 DEF ResetsLeft, RetryAfterReset, MaxAttempts
    <3>2. CASE Thrown
      BY <2>1, <3>2 DEF Thrown, Finish, Failure
    <3>3. CASE Finish("Failed") /\ UNCHANGED <<cardReset, casModuleId>>
      BY <2>1, <3>3 DEF Finish
    <3> QED
      BY <2>3, <3>1, <3>2, <3>3 DEF EmmFailed
  <2> QED
    BY <2>1, <2>2, <2>3 DEF GoOn, Finish
<1>8. CASE UNCHANGED vars
  BY <1>8 DEF vars
<1> QED
  BY <1>1, <1>2, <1>3, <1>4, <1>5, <1>6, <1>7, <1>8 DEF Next, SessionStep

\* The session's state is well typed; in particular one call retries no more often
\* and reconnects no more often than its counters allow.
THEOREM CardTyped == Spec => []TypeOK
<1>1. CardTypeInv => TypeOK
  BY DEF CardTypeInv
<1>2. QED
  BY <1>1, CardTypeInit, CardTypeStep, PTL DEF Spec

=============================================================================
