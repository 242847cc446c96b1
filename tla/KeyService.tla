----------------------------- MODULE KeyService -----------------------------
(***************************************************************************)
(* What a CAS handler promises the demultiplexer (src/casHandler.h),       *)
(* without queues, locks or cards: keys come and go on the tuned channel;  *)
(* whoever asks for one is always answered, and only ever with a key of    *)
(* the channel that was tuned when it asked.  AcasHandler implements this. *)
(***************************************************************************)
EXTENDS Naturals

CONSTANTS Callers, Ecms, None

VARIABLES
  channel,     \* number of the tuned channel
  published,   \* the key in force, or None
  asked,       \* per caller: the channel it is asking a key for, or None
  answer       \* per caller: the key it was given and is using, or None

vars == <<channel, published, asked, answer>>

Key == [gen : Nat, msg : Ecms]

TypeOK ==
  /\ channel \in Nat
  /\ published \in Key \cup {None}
  /\ asked \in [Callers -> Nat \cup {None}]
  /\ answer \in [Callers -> Key \cup {None}]

Init ==
  /\ channel = 0
  /\ published = None
  /\ asked = [c \in Callers |-> None]
  /\ answer = [c \in Callers |-> None]

Free(c) == asked[c] = None /\ answer[c] = None

\* A new channel: its predecessor's key is gone.
Tune ==
  /\ channel' = channel + 1
  /\ published' = None
  /\ UNCHANGED <<asked, answer>>

\* A key for the tuned channel, from one of its ECMs.
Publish(e) ==
  /\ published' = [gen |-> channel, msg |-> e]
  /\ UNCHANGED <<channel, asked, answer>>

\* The newest ECM was rejected.
Withdraw ==
  /\ published' = None
  /\ UNCHANGED <<channel, asked, answer>>

Ask(c) ==
  /\ Free(c)
  /\ asked' = [asked EXCEPT ![c] = channel]
  /\ UNCHANGED <<channel, published, answer>>

AnswerAtOnce(c) ==
  /\ Free(c)
  /\ published # None
  /\ answer' = [answer EXCEPT ![c] = published]
  /\ UNCHANGED <<channel, published, asked>>

Answer(c) ==
  /\ asked[c] = channel
  /\ published # None
  /\ answer' = [answer EXCEPT ![c] = published]
  /\ asked' = [asked EXCEPT ![c] = None]
  /\ UNCHANGED <<channel, published>>

Refuse(c) ==
  /\ asked[c] # None
  /\ asked' = [asked EXCEPT ![c] = None]
  /\ UNCHANGED <<channel, published, answer>>

\* The caller is done with the packet.
Use(c) ==
  /\ answer[c] # None
  /\ answer' = [answer EXCEPT ![c] = None]
  /\ UNCHANGED <<channel, published, asked>>

Next ==
  \/ Tune
  \/ \E e \in Ecms : Publish(e)
  \/ Withdraw
  \/ \E c \in Callers :
       Ask(c) \/ AnswerAtOnce(c) \/ Answer(c) \/ Refuse(c) \/ Use(c)

\* What may happen, and that every question is answered.
SafeSpec == Init /\ [][Next]_vars

Spec ==
  /\ SafeSpec
  /\ \A c \in Callers : WF_vars(Answer(c) \/ Refuse(c))

=============================================================================
