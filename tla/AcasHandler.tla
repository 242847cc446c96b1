---------------------------- MODULE AcasHandler ----------------------------
(***************************************************************************)
(* The CAS handler of dantto4k (src/acasHandler.cpp, src/acasHandler.h).   *)
(*                                                                         *)
(* The threads that feed the demultiplexer hand it the ECMs and EMMs they  *)
(* find and ask it for the key of every scrambled packet; changing the     *)
(* channel cancels everything.  One worker thread does all smart-card I/O, *)
(* outside the lock.  Callers and worker share queueMutex and the          *)
(* condition variable queueCv.                                             *)
(*                                                                         *)
(* A critical section of queueMutex is one step.  What the code does after *)
(* unlocking -- notify_one, notify_all, card I/O, using the key it copied  *)
(* -- is a step of its own, so that everything the code lets happen in     *)
(* between can happen.                                                     *)
(***************************************************************************)
EXTENDS Naturals, Sequences, FiniteSets

CONSTANTS
  Callers,          \* threads that call the handler
  Feeders,          \* those of them that demultiplex: onEcm, onEmm, decrypt
  Worker,           \* the handler's own thread
  Ecms,             \* ECM sections, told apart by their bytes
  Emms,             \* well-formed EMMs; {} is enableEmm = false
  CardIds,          \* 6-byte card IDs
  AddressOf,        \* the card an EMM is addressed to: its first 6 bytes
  None,             \* an empty optional, an empty vector
  MaxGeneration,    \* bound: channel changes in a behaviour
  MaxPendingEcms,   \* bound: the code's ECM queue is unbounded
  MaxPendingEmms,   \* maxPendingEmms, 64 in the code
  MaxRecentEmms     \* capacity of recentEmms, 128 in the code

Parities   == {"EVEN", "ODD"}
EcmTask    == [gen : Nat, msg : Ecms]
EmmTask    == [gen : Nat, msg : Emms]
Request    == [type : Parities, gen : Nat]

ASSUME HandlerAssumption ==
  /\ Feeders \subseteq Callers
  /\ Worker \notin Callers
  /\ None \notin Ecms \cup Emms \cup CardIds
  /\ None \notin EcmTask \cup EmmTask \cup Request \cup Nat
  /\ AddressOf \in [Emms -> CardIds]
  /\ IsFiniteSet(Emms)
  /\ MaxGeneration \in Nat
  /\ MaxPendingEcms \in Nat \ {0}
  /\ MaxPendingEmms \in Nat \ {0}
  /\ MaxRecentEmms \in Nat \ {0}

VARIABLES
  queue,         \* ECM tasks in arrival order
  emmQueue,      \* EMM tasks in arrival order
  activeEmm,     \* the EMM task the worker has at the card, or None
  emmTarget,     \* card ID learnt from the card, or None
  recentEmms,    \* per EMM: no entry, a "live" one or an "expired" one
  lastEcm,       \* the newest ECM accepted since the last failure or clear
  failedEcm,     \* the ECM rejected less than kEcmRetryInterval ago, or None
  ecmReady,      \* an ECM has been accepted and has not failed
  keyValid,      \* `key' may be used
  workerBusy,    \* the worker has an ECM at the card
  lastKeyType,   \* parity of the last key returned
  key,           \* the published key: the task it came from, or None
  running,       \* FALSE once the destructor has begun
  generation,    \* number of clear() calls
  casModuleId,   \* AcasCard's cached card ID, owned by the worker
  current,       \* the worker's local copy of its task
  request,       \* per caller: parity and generation of its last key request
  got,           \* per caller: the key getDecryptionKey returned, or None
  pc             \* per thread: where it is

ecmVars    == <<queue, lastEcm, failedEcm, ecmReady, keyValid, workerBusy, key>>
emmVars    == <<emmQueue, activeEmm, emmTarget, recentEmms, casModuleId>>
callVars   == <<request, got, lastKeyType>>
vars       == <<ecmVars, emmVars, callVars, running, generation, current, pc>>

Threads    == Callers \cup {Worker}
EmmResults == {"Applied", "NotAddressed", "Failed"}

CallerPc   == {"idle", "notifyOne", "notifyAll", "blocked", "eval", "decrypt"}
WorkerPc   == {"blocked", "eval", "ecm", "emm", "notifyAll", "done"}

EcmTypeOK ==
  /\ queue \in Seq(EcmTask)
  /\ lastEcm \in Ecms \cup {None}
  /\ failedEcm \in Ecms \cup {None}
  /\ ecmReady \in BOOLEAN
  /\ keyValid \in BOOLEAN
  /\ workerBusy \in BOOLEAN
  /\ key \in EcmTask \cup {None}

EmmTypeOK ==
  /\ emmQueue \in Seq(EmmTask) /\ Len(emmQueue) <= MaxPendingEmms
  /\ activeEmm \in EmmTask \cup {None}
  /\ emmTarget \in CardIds \cup {None}
  /\ recentEmms \in [Emms -> {"none", "live", "expired"}]
  /\ casModuleId \in CardIds \cup {None}

CallTypeOK ==
  /\ request \in [Callers -> Request \cup {None}]
  /\ got \in [Callers -> EcmTask \cup {None}]
  /\ lastKeyType \in Parities \cup {"UNSCRAMBLED"}

PcTypeOK ==
  /\ pc \in [Threads -> CallerPc \cup WorkerPc]
  /\ \A c \in Callers : pc[c] \in CallerPc
  /\ pc[Worker] \in WorkerPc

TypeOK ==
  /\ EcmTypeOK /\ EmmTypeOK /\ CallTypeOK /\ PcTypeOK
  /\ running \in BOOLEAN
  /\ generation \in Nat
  /\ current \in EcmTask \cup EmmTask \cup {None}

Init ==
  /\ queue = <<>> /\ emmQueue = <<>>
  /\ activeEmm = None /\ emmTarget = None
  /\ recentEmms = [m \in Emms |-> "none"]
  /\ lastEcm = None /\ failedEcm = None
  /\ ecmReady = FALSE /\ keyValid = FALSE /\ workerBusy = FALSE
  /\ lastKeyType = "UNSCRAMBLED"
  /\ key = None
  /\ running = TRUE
  /\ generation = 0
  /\ casModuleId = None
  /\ current = None
  /\ request = [c \in Callers |-> None]
  /\ got = [c \in Callers |-> None]
  /\ pc = [t \in Threads |-> IF t = Worker THEN "eval" ELSE "idle"]

-----------------------------------------------------------------------------
(* Mutated forms of definitions below, each with a mistake that the code   *)
(* could have been written with.  Nothing here is part of the model: each  *)
(* stands in for its original when the properties are put to the test.     *)

ThenNobodyNotified(t) ==
  pc' = [pc EXCEPT ![t] = IF t = Worker THEN "eval" ELSE "idle"]

AcceptedOnly(e) == lastEcm = e /\ ecmReady

WaitingOrDoneOnly(m) ==
  \/ \E i \in DOMAIN emmQueue : emmQueue[i].msg = m
  \/ recentEmms[m] = "live"

ForgetEcmTasksOnly == queue' = <<>> /\ UNCHANGED emmQueue

ForgetReadinessOnly == ecmReady' = FALSE /\ UNCHANGED <<keyValid, key>>

WaitForEmptyQueue(gen) == generation # gen \/ queue = <<>>

AnyKeyWanted(c) == keyValid

KeepKeyOnReject(ok) ==
  /\ keyValid' = (keyValid \/ ok)
  /\ IF ok
     THEN key' = current /\ failedEcm' = None /\ UNCHANGED <<ecmReady, lastEcm>>
     ELSE /\ ecmReady' = FALSE /\ lastEcm' = None
          /\ failedEcm' = current.msg /\ UNCHANGED key

OneOverTheLimit == Len(emmQueue) > MaxPendingEmms

NoNewerEcm == queue = <<>>
OfThisChannel == generation = current.gen

-----------------------------------------------------------------------------
(* The condition variable queueCv.  A thread blocked in it is "blocked"; a *)
(* notified one is "eval": it must take the lock and evaluate its          *)
(* predicate before it goes on.                                            *)

Goto(t, label) == pc' = [pc EXCEPT ![t] = label]

\* A critical section that ends in a notification, to be sent after unlocking.
ThenNotifyOne(c) == Goto(c, "notifyOne")
ThenNotifyAll(t) == Goto(t, "notifyAll")

\* A caller between two calls may begin one.
Ready(c) == running /\ pc[c] = "idle"

\* notify_one after unlocking: any one blocked thread may be the one woken.
NotifyOne(c) ==
  /\ pc[c] = "notifyOne"
  /\ \/ \E t \in Threads :
          /\ pc[t] = "blocked"
          /\ pc' = [pc EXCEPT ![c] = "idle", ![t] = "eval"]
     \/ /\ \A t \in Threads : pc[t] # "blocked"
        /\ Goto(c, "idle")
  /\ UNCHANGED <<ecmVars, emmVars, callVars, running, generation, current>>

\* notify_all after unlocking; the worker then begins its loop again.
NotifyAll(t) ==
  /\ pc[t] = "notifyAll"
  /\ pc' = [u \in Threads |->
              CASE u = t -> IF t = Worker THEN "eval" ELSE "idle"
                [] u # t /\ pc[u] = "blocked" -> "eval"
                [] OTHER -> pc[u]]
  /\ UNCHANGED <<ecmVars, emmVars, callVars, running, generation, current>>

\* The C++ library lets a wait return without a notification.
SpuriousWakeup(t) ==
  /\ pc[t] = "blocked"
  /\ Goto(t, "eval")
  /\ UNCHANGED <<ecmVars, emmVars, callVars, running, generation, current>>

-----------------------------------------------------------------------------
(* What the callers do.  A call that returns without changing anything (a  *)
(* repeated ECM, an EMM for another card, a key request with no ECM) is a  *)
(* stuttering step and has no action.                                      *)

\* A repetition of the accepted ECM, or of the one just rejected, is dropped.
IsRepeatedEcm(e) == (lastEcm = e /\ ecmReady) \/ failedEcm = e

OnEcm(c, e) ==
  /\ Ready(c)
  /\ ~IsRepeatedEcm(e)
  /\ Len(queue) < MaxPendingEcms
  /\ lastEcm' = e
  /\ queue' = Append(queue, [gen |-> generation, msg |-> e])
  /\ ecmReady' = TRUE
  /\ ThenNotifyOne(c)
  /\ UNCHANGED <<failedEcm, keyValid, workerBusy, key, emmVars, callVars,
                 running, generation, current>>

\* Expired entries are erased by the next onEmm, before anything is compared.
Unexpired == [m \in Emms |-> IF recentEmms[m] = "expired" THEN "none"
                                                          ELSE recentEmms[m]]

IsRepeatedEmm(m) ==
  \/ activeEmm = [gen |-> generation, msg |-> m]
  \/ \E i \in DOMAIN emmQueue : emmQueue[i].msg = m
  \/ Unexpired[m] = "live"

\* The limit of emmQueue: what does not fit is dropped until its next repetition.
EmmQueueFull == Len(emmQueue) >= MaxPendingEmms

OnEmm(c, m) ==
  /\ Ready(c)
  /\ emmTarget \in {None, AddressOf[m]}
  /\ recentEmms' = Unexpired
  /\ IF IsRepeatedEmm(m) \/ EmmQueueFull
     THEN UNCHANGED <<emmQueue, pc>>
     ELSE /\ emmQueue' = Append(emmQueue, [gen |-> generation, msg |-> m])
          /\ ThenNotifyOne(c)
  /\ UNCHANGED <<activeEmm, emmTarget, casModuleId, ecmVars, callVars,
                 running, generation, current>>

ForgetTasks == queue' = <<>> /\ emmQueue' = <<>>

ForgetKey == ecmReady' = FALSE /\ keyValid' = FALSE /\ key' = None

\* clear(): a channel change.  The worker's task is left to finish alone.
Clear(c) ==
  /\ Ready(c)
  /\ generation < MaxGeneration
  /\ generation' = generation + 1
  /\ ForgetTasks
  /\ emmTarget' = None
  /\ recentEmms' = [m \in Emms |-> "none"]
  /\ ForgetKey
  /\ failedEcm' = None /\ lastEcm' = None
  /\ lastKeyType' = "UNSCRAMBLED"
  /\ ThenNotifyAll(c)
  /\ UNCHANGED <<activeEmm, casModuleId, workerBusy, request, got, running,
                 current>>

\* The predicate getDecryptionKey waits for: cancelled, or no ECM unanswered.
WaitOver(gen) == generation # gen \/ (~workerBusy /\ queue = <<>>)

\* getDecryptionKey returns the published key and remembers its parity.
ReturnKey(c, type) ==
  /\ got' = [got EXCEPT ![c] = key]
  /\ lastKeyType' = type
  /\ Goto(c, "decrypt")

\* decrypt() of a packet scrambled under parity `type'.  The key in use is
\* returned at once; a missing key or a parity switch waits for the card.
Decrypt(c, type) ==
  /\ Ready(c)
  /\ ecmReady
  /\ request' = [request EXCEPT ![c] = [type |-> type, gen |-> generation]]
  /\ \/ /\ keyValid
        /\ lastKeyType = type \/ WaitOver(generation)
        /\ ReturnKey(c, type)
     \/ /\ ~keyValid \/ lastKeyType # type
        /\ ~WaitOver(generation)
        /\ Goto(c, "blocked")
        /\ UNCHANGED <<got, lastKeyType>>
  /\ UNCHANGED <<ecmVars, emmVars, running, generation, current>>

\* What getDecryptionKey checks after its wait.
KeyStillWanted(c) == generation = request[c].gen /\ keyValid

\* A notified decrypt re-evaluates its predicate.
WakeDecrypt(c) ==
  /\ c \in Callers /\ pc[c] = "eval"
  /\ IF ~WaitOver(request[c].gen)
     THEN Goto(c, "blocked") /\ UNCHANGED <<got, lastKeyType>>
     ELSE IF KeyStillWanted(c)
          THEN ReturnKey(c, request[c].type)
          ELSE Goto(c, "idle") /\ UNCHANGED <<got, lastKeyType>>
  /\ UNCHANGED <<request, ecmVars, emmVars, running, generation, current>>

\* Ten seconds have passed and the predicate is still false: no key.  (If it
\* holds by then, the wait ends like a spurious wakeup.)
TimeoutDecrypt(c) ==
  /\ pc[c] = "blocked"
  /\ ~WaitOver(request[c].gen)
  /\ Goto(c, "idle")
  /\ UNCHANGED <<ecmVars, emmVars, callVars, running, generation, current>>

\* decrypt() runs AES over the payload with its copy of the key, and returns.
FinishDecrypt(c) ==
  /\ pc[c] = "decrypt"
  /\ got' = [got EXCEPT ![c] = None]
  /\ Goto(c, "idle")
  /\ UNCHANGED <<request, lastKeyType, ecmVars, emmVars, running, generation,
                 current>>

\* The destructor; no call may be in progress or begin any more.
Destroy(c) ==
  /\ running
  /\ \A d \in Callers : pc[d] = "idle"
  /\ running' = FALSE
  /\ ThenNotifyOne(c)
  /\ UNCHANGED <<ecmVars, emmVars, callVars, generation, current>>

-----------------------------------------------------------------------------
(* The worker.                                                             *)

WorkerBlocks ==
  /\ pc[Worker] = "eval"
  /\ queue = <<>> /\ emmQueue = <<>> /\ running
  /\ Goto(Worker, "blocked")
  /\ UNCHANGED <<ecmVars, emmVars, callVars, running, generation, current>>

WorkerExits ==
  /\ pc[Worker] = "eval"
  /\ ~running
  /\ Goto(Worker, "done")
  /\ UNCHANGED <<ecmVars, emmVars, callVars, running, generation, current>>

TakeEcm ==
  /\ pc[Worker] = "eval"
  /\ running
  /\ queue # <<>>
  /\ current' = Head(queue)
  /\ queue' = Tail(queue)
  /\ workerBusy' = TRUE
  /\ Goto(Worker, "ecm")
  /\ UNCHANGED <<lastEcm, failedEcm, ecmReady, keyValid, key, emmVars,
                 callVars, running, generation>>

TakeEmm ==
  /\ pc[Worker] = "eval"
  /\ running
  /\ queue = <<>>
  /\ emmQueue # <<>>
  /\ current' = Head(emmQueue)
  /\ activeEmm' = Head(emmQueue)
  /\ emmQueue' = Tail(emmQueue)
  /\ Goto(Worker, "emm")
  /\ UNCHANGED <<emmTarget, recentEmms, casModuleId, ecmVars, callVars,
                 running, generation>>

\* What AcasCard::ecm may leave in casModuleId: it only ever resets it.
EcmCardId(id) == id \in {casModuleId, None}

\* What a card answer does to the published key.
PublishOrReject(ok) ==
  /\ keyValid' = ok
  /\ IF ok
     THEN /\ key' = current
          /\ failedEcm' = None
          /\ UNCHANGED <<ecmReady, lastEcm>>
     ELSE /\ ecmReady' = FALSE
          /\ lastEcm' = None
          /\ failedEcm' = current.msg
          /\ UNCHANGED key

\* The result of an ECM counts only if no channel change and no newer ECM
\* has overtaken it.
StillCurrent == generation = current.gen /\ queue = <<>>

FinishEcm(ok, id) ==
  /\ pc[Worker] = "ecm"
  /\ EcmCardId(id)
  /\ casModuleId' = id
  /\ emmTarget' = id
  /\ IF StillCurrent
     THEN PublishOrReject(ok)
     ELSE UNCHANGED <<keyValid, key, failedEcm, ecmReady, lastEcm>>
  /\ workerBusy' = FALSE
  /\ ThenNotifyAll(Worker)
  /\ UNCHANGED <<queue, emmQueue, activeEmm, recentEmms, callVars, running,
                 generation, current>>

\* What AcasCard::emm may answer, and the card ID it then holds.
EmmAnswer(m, result, id) ==
  CASE result = "Applied"      -> id = AddressOf[m]
    [] result = "NotAddressed" -> id \in CardIds \ {AddressOf[m]}
    [] OTHER                   -> id \in CardIds \cup {None}

\* Remember m; with the deque full an older entry goes (the front one in the
\* code: which one is left open here).
Remember(m) ==
  LET kept == {n \in Emms : recentEmms[n] # "none"} IN
  IF Cardinality(kept) >= MaxRecentEmms
  THEN \E n \in kept : recentEmms' = [recentEmms EXCEPT ![n] = "none", ![m] = "live"]
  ELSE recentEmms' = [recentEmms EXCEPT ![m] = "live"]

FinishEmm(result, id) ==
  /\ pc[Worker] = "emm"
  /\ EmmAnswer(current.msg, result, id)
  /\ casModuleId' = id
  /\ emmTarget' = id
  /\ activeEmm' = None
  /\ IF generation = current.gen
     THEN /\ Remember(current.msg)
          /\ failedEcm' = IF result = "Applied" THEN None ELSE failedEcm
     ELSE UNCHANGED <<recentEmms, failedEcm>>
  /\ ThenNotifyAll(Worker)
  /\ UNCHANGED <<queue, lastEcm, ecmReady, keyValid, workerBusy, key, emmQueue,
                 callVars, running, generation, current>>

-----------------------------------------------------------------------------
(* Time.  failedEcm is only ever compared while its interval is open, so   *)
(* the end of the interval forgets it.                                     *)

RetryIntervalElapses ==
  /\ failedEcm # None
  /\ failedEcm' = None
  /\ UNCHANGED <<queue, lastEcm, ecmReady, keyValid, workerBusy, key, emmVars,
                 callVars, running, generation, current, pc>>

RecentEmmExpires(m) ==
  /\ recentEmms[m] = "live"
  /\ recentEmms' = [recentEmms EXCEPT ![m] = "expired"]
  /\ UNCHANGED <<emmQueue, activeEmm, emmTarget, casModuleId, ecmVars,
                 callVars, running, generation, current, pc>>

-----------------------------------------------------------------------------
CallerStep(c) ==
  NotifyOne(c) \/ NotifyAll(c) \/ WakeDecrypt(c) \/ FinishDecrypt(c)

WorkerStep ==
  \/ WorkerBlocks \/ WorkerExits \/ TakeEcm \/ TakeEmm \/ NotifyAll(Worker)
  \/ \E id \in CardIds \cup {None} :
       \/ \E ok \in BOOLEAN : FinishEcm(ok, id)
       \/ \E result \in EmmResults : FinishEmm(result, id)

CallerBegins(c) ==
  \/ /\ c \in Feeders
     /\ \/ \E e \in Ecms : OnEcm(c, e)
        \/ \E m \in Emms : OnEmm(c, m)
        \/ \E type \in Parities : Decrypt(c, type)
  \/ Clear(c)
  \/ Destroy(c)

Environment ==
  \/ \E c \in Callers : TimeoutDecrypt(c)
  \/ \E t \in Threads : SpuriousWakeup(t)
  \/ RetryIntervalElapses
  \/ \E m \in Emms : RecentEmmExpires(m)

\* After the destructor has joined the worker nothing happens any more.
Terminated ==
  /\ pc[Worker] = "done"
  /\ \A c \in Callers : pc[c] = "idle"
  /\ UNCHANGED vars

Next ==
  \/ \E c \in Callers : CallerStep(c) \/ CallerBegins(c)
  \/ WorkerStep
  \/ Environment
  \/ Terminated

Spec == Init /\ [][Next]_vars

\* Threads are scheduled and the card answers every command.  Nothing is
\* assumed about callers making calls, about timeouts or spurious wakeups.
Fairness == WF_vars(WorkerStep) /\ \A c \in Callers : WF_vars(CallerStep(c))

FairSpec == Spec /\ Fairness

-----------------------------------------------------------------------------
(* Safety.                                                                 *)

\* A key is only ever usable on the channel whose ECM it came from: a card
\* answer that arrives after clear() must not publish the old channel's key
\* ("cancellation cannot race a worker publishing", acasHandler.h:44-45).
KeyOfThisChannel == keyValid => key # None /\ key.gen = generation

\* A decrypt that returns a key returns one of the channel it was called on,
\* even if the channel changed, and the new one's key came, while it waited.
ReturnedKeyOfCallersChannel ==
  \A c \in Callers : got[c] # None => got[c].gen = request[c].gen

\* The newest accepted ECM stays remembered until it is answered: the failure
\* of an ECM that a newer one has overtaken must not forget the newer one.
NewestEcmRemembered ==
  /\ queue # <<>> => ecmReady /\ lastEcm = queue[Len(queue)].msg
  /\ queue = <<>> /\ workerBusy /\ current.gen = generation
       => ecmReady /\ lastEcm = current.msg

\* With no ECM unanswered, a usable key comes from the newest accepted ECM;
\* once that ECM was rejected, the previous key is not usable any more.
KeyOfNewestEcm ==
  keyValid /\ queue = <<>> /\ ~workerBusy => key.msg = lastEcm

\* The ECMs of this channel that the card has still to answer.
UnansweredEcms ==
  {queue[i].msg : i \in DOMAIN queue}
    \cup {t.msg : t \in {u \in {current} : workerBusy /\ u.gen = generation}}

\* An ECM the card has rejected is not put to it again while its retry
\* interval is open (kEcmRetryInterval, acasHandler.h:28-30).
RejectedEcmNotRetried == failedEcm \notin UnansweredEcms

\* An EMM is in one place at a time: once in the queue, or at the card, or
\* among the recent ones -- the answer to its first transmission included.
EachEmmOnce ==
  \A m \in Emms :
    LET queued == {i \in DOMAIN emmQueue : emmQueue[i].msg = m}
        active == activeEmm = [gen |-> generation, msg |-> m]
    IN  /\ Cardinality(queued) <= 1
        /\ active => queued = {}
        /\ active \/ queued # {} => recentEmms[m] = "none"

-----------------------------------------------------------------------------
(* What a step may never do.                                               *)

\* The worker takes only tasks of the current channel to the card: cancelled
\* ECMs and EMMs never reach it.
CancelledTaskNeverSent ==
  [][pc[Worker] = "eval" /\ pc'[Worker] \in {"ecm", "emm"}
       => current'.gen = generation]_vars

\* Across a parity switch a packet is decrypted with the newest ECM's key or
\* not at all, however many ECMs were accepted while it waited.
ParitySwitchUsesNewestEcm ==
  [][\A c \in Callers :
       pc[c] # "decrypt" /\ pc'[c] = "decrypt" /\ lastKeyType' # lastKeyType
         => got'[c].msg = lastEcm]_vars

-----------------------------------------------------------------------------
(* Liveness, under Fairness.                                               *)

\* getDecryptionKey returns without the help of its ten-second timeout: every
\* change that can end the wait is followed by a notification.
DecryptReturns ==
  \A c \in Callers : pc[c] \in {"blocked", "eval"} ~> pc[c] \in {"idle", "decrypt"}

\* The destructor's join ends, whatever the worker was doing.
DestructorJoins == ~running ~> pc[Worker] = "done"

-----------------------------------------------------------------------------
(* Refinement: seen from outside, the handler is a KeyService.             *)

Service ==
  INSTANCE KeyService WITH
    channel   <- generation,
    published <- IF keyValid THEN key ELSE None,
    asked     <- [c \in Callers |-> IF pc[c] \in {"blocked", "eval"}
                                     THEN request[c].gen ELSE None],
    answer    <- got

\* Every step of the handler is a step of the service or invisible to it, and
\* every question is answered (checked under FairSpec).
ImplementsKeyService == Service!Spec

=============================================================================
