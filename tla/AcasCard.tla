------------------------------ MODULE AcasCard ------------------------------
(***************************************************************************)
(* The ACAS card session of dantto4k (src/acasCard.cpp) over a PC/SC       *)
(* reader (src/smartCard.cpp): this machine's (LocalSmartCard) or, through *)
(* a CasProxyServer, another's (RemoteSmartCard).  One thread, the worker  *)
(* of AcasHandler, calls ecm() and emm(); between any two PC/SC calls the  *)
(* card may be pulled out, exchanged, or reset by somebody else, and the   *)
(* server may go away and come back.                                       *)
(*                                                                         *)
(* Every PC/SC call is one step, with the code around it up to the next.   *)
(***************************************************************************)
EXTENDS Naturals

CONSTANTS
  Readers,      \* of "local", "remote" and "named", a remote reader that is
                \* chosen by name (setSmartCardReaderName)
  CardIds,      \* the cards that may be inserted
  Addresses,    \* the addresses EMMs are sent to, inserted cards' or not
  None

ASSUME CardAssumption ==
  /\ Readers \subseteq {"local", "remote", "named"}
  /\ None \notin CardIds \cup Addresses

VARIABLES
  reader,       \* the smart card class and its configuration
  slot,         \* external: the card in the reader, or None
  handle,       \* external view of hCard: "none" (0), "good", "reset" by
                \* somebody else, "gone" (its card was pulled out), or
                \* "stale" (the server does not know it any more)
  calm,         \* external: card and reader stay as they are from now on
  context,      \* external view of hContext: "none" (0), "good" or "stale"
  cardReset,    \* the session must be reconnected before use
  casModuleId,  \* the card ID read from the card, or None
  op,           \* the call in progress, or None
  pc,           \* the PC/SC call it makes next
  retries,      \* ecm: retryCount; emm: attempt
  reconnects,   \* ecm: retryReconnectCount
  result        \* what the last finished call returned

external == <<reader, slot, calm>>
session  == <<context, cardReset, casModuleId>>
vars     == <<external, handle, session, op, pc, retries, reconnects, result>>

Ops      == [kind : {"ecm"}] \cup [kind : {"emm"}, to : Addresses]
Results  == {"none", "Keys", "NoKeys", "Applied", "NotAddressed", "Failed"}

MaxRetries    == 5   \* retryCount > 4, retryReconnectCount > 4
MaxAttempts   == 3   \* attempt < 3

TypeOK ==
  /\ reader \in Readers
  /\ slot \in CardIds \cup {None}
  /\ handle \in {"none", "good", "reset", "gone", "stale"}
  /\ context \in {"none", "good", "stale"}
  /\ calm \in BOOLEAN /\ cardReset \in BOOLEAN
  /\ casModuleId \in CardIds \cup {None}
  /\ op \in Ops \cup {None}
  /\ pc \in {"idle", "reconnect", "open", "auth", "ecm", "settings", "emm"}
  /\ retries \in 0..MaxRetries
  /\ reconnects \in 0..MaxRetries
  /\ result \in Results

Init ==
  /\ reader \in Readers
  /\ slot \in CardIds \cup {None}
  /\ handle = "none"
  /\ calm = FALSE
  /\ context = "none" /\ cardReset = FALSE
  /\ casModuleId = None
  /\ op = None /\ pc = "idle"
  /\ retries = 0 /\ reconnects = 0
  /\ result = "none"

-----------------------------------------------------------------------------
(* The PC/SC service, as the code sees it.                                 *)

CardPulled ==
  /\ ~calm /\ slot # None
  /\ slot' = None
  /\ handle' = IF handle \in {"none", "stale"} THEN handle ELSE "gone"
  /\ UNCHANGED <<reader, calm, session, op, pc, retries, reconnects, result>>

CardInserted(k) ==
  /\ ~calm /\ slot = None
  /\ slot' = k
  /\ UNCHANGED <<reader, calm, handle, session, op, pc, retries, reconnects, result>>

\* Another application resets the card.
CardReset ==
  /\ ~calm /\ handle = "good"
  /\ handle' = "reset"
  /\ UNCHANGED <<external, session, op, pc, retries, reconnects, result>>

\* The server has been restarted; handles it has given out mean nothing to it.
\* (One that keeps them while the client reconnects is a request that failed.)
HandlesForgotten ==
  /\ ~calm /\ reader # "local"
  /\ handle' = IF handle = "none" THEN "none" ELSE "stale"
  /\ context' = IF context = "none" THEN "none" ELSE "stale"
  /\ UNCHANGED <<external, cardReset, casModuleId, op, pc, retries, reconnects, result>>

\* From now on a card is in the reader, nobody disturbs it and it accepts
\* every command.
CalmDown ==
  /\ ~calm /\ slot # None
  /\ calm' = TRUE
  /\ UNCHANGED <<reader, slot, handle, session, op, pc, retries, reconnects, result>>

\* How transmit ends, its own retries included: an accepted command, a refusal
\* (status word or body), SCARD_W_RESET_CARD, another error, or the exception
\* for a short response.  RemoteSmartCard makes a reset of a request that
\* failed and of a handle that is not known.
TransmitOutcome ==
  CASE handle = "stale"         -> {"reset"}
    [] handle = "gone" /\ reader # "local" /\ ~calm -> {"error", "reset"}
    [] handle = "good" /\ calm  -> {"accepted"}
    [] handle = "good" /\ ~calm -> {"accepted", "refused", "reset", "error", "throw"}
    [] handle = "reset"         -> {"reset"}
    [] OTHER                    -> {"error"}

\* SCardReconnect and SCardConnect need a card; they may fail with one, too.
MayOpen == IF calm THEN {TRUE} ELSE IF slot = None THEN {FALSE} ELSE BOOLEAN

MayReconnect == IF handle \in {"none", "stale"} THEN {FALSE} ELSE MayOpen

-----------------------------------------------------------------------------
(* Mutated forms of definitions below, each with a mistake that the code   *)
(* could have been written with; they are no part of the model.            *)

OneResetMore == retries <= MaxRetries

RetryWithOldId ==
  /\ cardReset' = TRUE
  /\ retries' = retries + 1
  /\ pc' = "reconnect"
  /\ UNCHANGED <<casModuleId, op, reconnects, result>>

RetryUncounted ==
  /\ cardReset' = TRUE
  /\ casModuleId' = None
  /\ pc' = "reconnect"
  /\ UNCHANGED <<op, retries, reconnects, result>>

RetryWithoutReconnect ==
  /\ casModuleId' = None
  /\ retries' = retries + 1
  /\ pc' = "open"
  /\ UNCHANGED <<cardReset, op, reconnects, result>>

-----------------------------------------------------------------------------
(* Steps shared by ecm() and emm().                                        *)

Finish(r) ==
  /\ result' = r
  /\ op' = None /\ pc' = "idle"
  /\ retries' = 0 /\ reconnects' = 0

\* The call goes on to its next PC/SC call.
GoOn(call) ==
  /\ pc' = call
  /\ UNCHANGED <<op, retries, reconnects, result>>

Failure == IF op.kind = "ecm" THEN "NoKeys" ELSE "Failed"

\* catch (const std::runtime_error&).
Thrown ==
  /\ cardReset' = TRUE
  /\ casModuleId' = None
  /\ Finish(Failure)

\* With cardReset set the session first reconnects and forgets the card ID.
Begin(call) ==
  /\ op' = call
  /\ pc' = IF cardReset THEN "reconnect" ELSE "open"
  /\ casModuleId' = IF cardReset THEN None ELSE casModuleId
  /\ UNCHANGED <<context, cardReset, retries, reconnects, result>>

CallEcm ==
  /\ pc = "idle"
  /\ Begin([kind |-> "ecm"])
  /\ UNCHANGED <<external, handle>>

\* An EMM for somebody else is answered from the cached ID while the session
\* is believed to be intact.
IsForAnother(a) == casModuleId \notin {None, a}

CallEmm(a) ==
  /\ pc = "idle"
  /\ IF ~cardReset /\ context # "none" /\ handle # "none" /\ IsForAnother(a)
     THEN Finish("NotAddressed") /\ UNCHANGED session
     ELSE Begin([kind |-> "emm", to |-> a])
  /\ UNCHANGED <<external, handle>>

\* reconnect(): with no handle it fails without asking PC/SC, and with one
\* that is not known it fails, too.  ecm() tries
\* again until it has failed five times in this call; emm() gives up.
Reconnect ==
  /\ pc = "reconnect"
  /\ \/ /\ TRUE \in MayReconnect
        /\ handle' = "good"
        /\ cardReset' = FALSE
        /\ GoOn("open")
        /\ UNCHANGED casModuleId
     \/ /\ FALSE \in MayReconnect
        /\ IF op.kind = "ecm" /\ reconnects + 1 < MaxRetries
           THEN reconnects' = reconnects + 1 /\ UNCHANGED <<op, pc, retries, result>>
           ELSE Finish(Failure)
        /\ UNCHANGED <<handle, cardReset, casModuleId>>
  /\ UNCHANGED <<external, context>>

\* init() if there is no context.  Only emm() looks at its result.
Initialised ==
  IF context # "none" THEN {context} ELSE IF calm THEN {"good"} ELSE {"good", "none"}

\* The handle is still open.
UseHandle(known) ==
  /\ handle # "none"
  /\ context' = known
  /\ IF op.kind = "ecm"
     THEN GoOn("auth")
     ELSE CASE casModuleId = None  -> GoOn("settings")
            [] IsForAnother(op.to) -> Finish("NotAddressed")
            [] OTHER               -> GoOn("emm")
  /\ UNCHANGED <<handle, cardReset, casModuleId>>

\* What a failing connect() leaves of the context: without a name, a remote
\* reader has to be looked for first, and the context is dropped if that fails
\* for another reason than that there is none.
ContextAfterFailure(known) ==
  IF reader # "remote" THEN {known}
  ELSE IF known # "good" THEN {"none"} ELSE {known, "none"}

\* connect() opens a new handle; its failure is an exception.  Only emm()
\* forgets the card ID first.
Connect(known) ==
  /\ handle = "none"
  /\ \/ /\ known = "good" /\ TRUE \in MayOpen
        /\ handle' = "good"
        /\ context' = known
        /\ IF op.kind = "ecm"
           THEN GoOn("auth") /\ UNCHANGED casModuleId
           ELSE GoOn("settings") /\ casModuleId' = None
        /\ UNCHANGED cardReset
     \/ /\ known # "good" \/ FALSE \in MayOpen
        /\ context' \in ContextAfterFailure(known)
        /\ Thrown
        /\ UNCHANGED handle

Open ==
  /\ pc = "open"
  /\ \E known \in Initialised :
       IF op.kind = "emm" /\ known = "none"
       THEN Finish("Failed") /\ UNCHANGED <<handle, session>>
       ELSE UseHandle(known) \/ Connect(known)
  /\ UNCHANGED external

-----------------------------------------------------------------------------
(* ecm(): authenticate, then the ECM itself.                               *)

\* A reset by another application: reconnect and forget the card ID; only so
\* many times in one call.
ResetsLeft == IF op.kind = "ecm" THEN retries < MaxRetries ELSE retries + 1 < MaxAttempts

RetryAfterReset ==
  /\ cardReset' = TRUE
  /\ casModuleId' = None
  /\ retries' = retries + 1
  /\ pc' = "reconnect"
  /\ UNCHANGED <<op, reconnects, result>>

\* What ecm() does with a command that failed: only a reset is retried; any
\* other error ends the call and leaves the session as it is.
EcmFailed(outcome) ==
  CASE outcome = "throw" -> Thrown
    [] outcome = "reset" /\ ResetsLeft -> RetryAfterReset
    [] OTHER -> Finish("NoKeys") /\ UNCHANGED <<cardReset, casModuleId>>

Authenticate ==
  /\ pc = "auth"
  /\ \E outcome \in TransmitOutcome :
       IF outcome = "accepted"
       THEN GoOn("ecm") /\ UNCHANGED <<cardReset, casModuleId>>
       ELSE EcmFailed(outcome)
  /\ UNCHANGED <<external, handle, context>>

TransmitEcm ==
  /\ pc = "ecm"
  /\ \E outcome \in TransmitOutcome :
       IF outcome = "accepted"
       THEN Finish("Keys") /\ UNCHANGED <<cardReset, casModuleId>>
       ELSE EcmFailed(outcome)
  /\ UNCHANGED <<external, handle, context>>

-----------------------------------------------------------------------------
(* emm(): learn the card's ID, then the EMM if it is addressed to it.      *)

\* checkTransport: every transport error makes the session reconnect, but only
\* a reset is retried in this call.
EmmFailed(outcome) ==
  CASE outcome = "throw" -> Thrown
    [] outcome = "refused" -> Finish("Failed") /\ UNCHANGED <<cardReset, casModuleId>>
    [] outcome = "reset" /\ ResetsLeft -> RetryAfterReset
    [] OTHER -> Thrown

ReadSettings ==
  /\ pc = "settings"
  /\ \E outcome \in TransmitOutcome :
       IF outcome = "accepted"
       THEN /\ casModuleId' = slot
            /\ IF slot = op.to
               THEN GoOn("emm")
               ELSE Finish("NotAddressed")
            /\ UNCHANGED cardReset
       ELSE EmmFailed(outcome)
  /\ UNCHANGED <<external, handle, context>>

TransmitEmm ==
  /\ pc = "emm"
  /\ \E outcome \in TransmitOutcome :
       IF outcome = "accepted"
       THEN Finish("Applied") /\ UNCHANGED <<cardReset, casModuleId>>
       ELSE EmmFailed(outcome)
  /\ UNCHANGED <<external, handle, context>>

-----------------------------------------------------------------------------
SessionStep ==
  Reconnect \/ Open \/ Authenticate \/ TransmitEcm \/ ReadSettings \/ TransmitEmm

Disturbance ==
  CardPulled \/ CardReset \/ HandlesForgotten \/ CalmDown \/ \E k \in CardIds : CardInserted(k)

Next ==
  \/ CallEcm
  \/ \E a \in Addresses : CallEmm(a)
  \/ SessionStep
  \/ Disturbance

Spec == Init /\ [][Next]_vars

\* PC/SC calls return, and ECMs keep coming; AcasHandler puts them to the card
\* before EMMs, so EMMs cannot keep them out.
FairSpec == Spec /\ WF_vars(SessionStep) /\ SF_vars(CallEcm)

-----------------------------------------------------------------------------
\* An EMM is only ever executed by the card it is addressed to, whichever card
\* was in the reader when its ID was read ("Never send an EMM until the ID has
\* been read again from the currently connected card", acasCard.cpp:186-187).
EmmReachesOnlyItsAddressee == pc = "emm" /\ handle = "good" => slot = op.to

\* Every call returns: resets and failing reconnects cannot keep it busy.
CallReturns == op # None ~> op = None

\* After a reset by another application, a lost card that ecm() or emm() noticed
\* as such, or requests to the server that failed, the next ECMs succeed as soon
\* as the card and the server stay put.
Recoverable ==
  /\ ~(cardReset /\ handle = "none")
  /\ ~(~cardReset /\ handle = "gone")
  /\ "stale" \notin {handle, context}
RecoversFromReset == calm /\ Recoverable /\ op = None ~> result = "Keys"

\* With a working card in the reader to stay, retried ECMs succeed in the end
\* ("Allow an identical ECM to retry after a card failure",
\* acasHandler.cpp:220).
RetriedEcmSucceeds == calm ~> result = "Keys"

=============================================================================
