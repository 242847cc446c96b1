------------------------- MODULE AcasHandlerProofs -------------------------
(***************************************************************************)
(* Proofs about AcasHandler, for every set of threads, ECMs and EMMs and   *)
(* every bound: its types; its keys; its worker's tasks, of which a        *)
(* cancelled one never reaches the card, an EMM is in one place at a time  *)
(* and a rejected ECM is not put to the card again; that what callers see  *)
(* of the handler is a KeyService; and, between a broadcast whose keys     *)
(* change and a tuner that changes the channel, that every packet is       *)
(* decrypted with the key it was scrambled with.                           *)
(***************************************************************************)
EXTENDS Descrambling, FiniteSetTheorems, SequenceTheorems, TLAPS

\* The task in the worker's hands is of the kind the worker is busy with.
CurrentTyped ==
  /\ pc[Worker] = "ecm" => current \in EcmTask
  /\ pc[Worker] = "emm" => current \in EmmTask

\* A thread that waits for a key has asked for one.
RequestKnown ==
  \A c \in Callers : pc[c] \in {"blocked", "eval"} => request[c] # None

TypeInv == TypeOK /\ CurrentTyped /\ RequestKnown

USE DEF Threads

\* One thread has moved to one of the labels; the others are where they were.
Moves(t, labels) ==
  /\ pc' \in [Threads -> CallerPc \cup WorkerPc]
  /\ pc'[t] \in labels
  /\ \A u \in Threads \ {t} : pc'[u] = pc[u]

\* The initial state is well typed.
LEMMA TypeInit == Init => TypeInv
<1> SUFFICES ASSUME Init PROVE TypeInv
  OBVIOUS
<1> USE HandlerAssumption DEF Init, CallerPc, WorkerPc
<1>1. /\ pc \in [Threads -> CallerPc \cup WorkerPc]
      /\ \A c \in Callers : pc[c] = "idle"
      /\ pc[Worker] = "eval"
  OBVIOUS
<1>2. /\ queue \in Seq(EcmTask)
      /\ emmQueue \in Seq(EmmTask) /\ Len(emmQueue) <= MaxPendingEmms
  OBVIOUS
<1>3. TypeOK
  BY <1>1, <1>2 DEF TypeOK, EcmTypeOK, EmmTypeOK, CallTypeOK, PcTypeOK
<1>4. QED
  BY <1>1, <1>3 DEF TypeInv, CurrentTyped, RequestKnown

\* Every step keeps the state well typed.
LEMMA TypeStep == TypeInv /\ [Next]_vars => TypeInv'
<1> SUFFICES ASSUME TypeInv, [Next]_vars PROVE TypeInv'
  OBVIOUS
<1> USE HandlerAssumption DEF TypeInv, CallerPc, WorkerPc
<1>1. ASSUME NEW c \in Callers, NotifyOne(c) PROVE TypeInv'
  <2>1. /\ pc' \in [Threads -> CallerPc \cup WorkerPc]
        /\ \A u \in Threads : \/ pc'[u] = pc[u]
                              \/ pc'[u] = "eval" /\ pc[u] = "blocked"
                              \/ u = c /\ pc'[u] = "idle"
    <3>1. CASE Goto(c, "idle")
      BY <1>1, <3>1 DEF Goto, TypeOK, PcTypeOK
    <3>2. ASSUME NEW t \in Threads, pc[t] = "blocked",
                 pc' = [pc EXCEPT ![c] = "idle", ![t] = "eval"]
          PROVE  /\ pc' \in [Threads -> CallerPc \cup WorkerPc]
                 /\ \A u \in Threads :
                      \/ pc'[u] = pc[u]
                      \/ pc'[u] = "eval" /\ pc[u] = "blocked"
                      \/ u = c /\ pc'[u] = "idle"
      BY <1>1, <3>2 DEF TypeOK, PcTypeOK
    <3> QED
      BY <1>1, <3>1, <3>2 DEF NotifyOne
  <2>2. EcmTypeOK' /\ EmmTypeOK' /\ CallTypeOK'
    BY <1>1
    DEF NotifyOne, TypeOK, EcmTypeOK, ecmVars, EmmTypeOK, emmVars,
        CallTypeOK, callVars
  <2>3. running' \in BOOLEAN /\ generation' \in Nat
    BY <1>1 DEF NotifyOne, TypeOK
  <2>4. current' \in EcmTask \cup EmmTask \cup {None}
    BY <1>1 DEF NotifyOne, TypeOK
  <2>5. PcTypeOK'
    BY <2>1 DEF Moves, TypeOK, PcTypeOK
  <2>6. CurrentTyped'
    BY <1>1, <2>1 DEF NotifyOne, Moves, TypeOK, PcTypeOK, CurrentTyped
  <2>7. RequestKnown'
    BY <1>1, <2>1 DEF NotifyOne, Moves, RequestKnown, callVars
  <2> QED
    BY <2>2, <2>3, <2>4, <2>5, <2>6, <2>7 DEF TypeInv, TypeOK
<1>2. ASSUME NEW t \in Threads, NotifyAll(t) PROVE TypeInv'
  <2>1. /\ pc' \in [Threads -> CallerPc \cup WorkerPc]
        /\ \A u \in Threads : \/ pc'[u] = pc[u]
                              \/ pc'[u] = "eval" /\ pc[u] = "blocked"
                              \/ u \in Callers /\ pc'[u] = "idle"
                              \/ u = Worker /\ pc'[u] = "eval"
    <3>1. pc' = [u \in Threads |->
                   IF u = t THEN IF t = Worker THEN "eval" ELSE "idle"
                   ELSE IF pc[u] = "blocked" THEN "eval" ELSE pc[u]]
      BY <1>2 DEF NotifyAll
    <3> QED
      BY <1>2, <3>1 DEF TypeOK, PcTypeOK
  <2>2. EcmTypeOK' /\ EmmTypeOK' /\ CallTypeOK'
    BY <1>2
    DEF NotifyAll, TypeOK, EcmTypeOK, ecmVars, EmmTypeOK, emmVars,
        CallTypeOK, callVars
  <2>3. running' \in BOOLEAN /\ generation' \in Nat
    BY <1>2 DEF NotifyAll, TypeOK
  <2>4. current' \in EcmTask \cup EmmTask \cup {None}
    BY <1>2 DEF NotifyAll, TypeOK
  <2>5. PcTypeOK'
    BY <2>1 DEF Moves, TypeOK, PcTypeOK
  <2>6. CurrentTyped'
    BY <1>2, <2>1 DEF NotifyAll, Moves, TypeOK, PcTypeOK, CurrentTyped
  <2>7. RequestKnown'
    BY <1>2, <2>1 DEF NotifyAll, Moves, RequestKnown, callVars
  <2> QED
    BY <2>2, <2>3, <2>4, <2>5, <2>6, <2>7 DEF TypeInv, TypeOK
<1>3. ASSUME NEW t \in Threads, SpuriousWakeup(t) PROVE TypeInv'
  <2>1. Moves(t, {"eval"})
    BY <1>3 DEF SpuriousWakeup, Goto, Moves, TypeOK, PcTypeOK
  <2>2. EcmTypeOK' /\ EmmTypeOK' /\ CallTypeOK'
    BY <1>3
    DEF SpuriousWakeup, TypeOK, EcmTypeOK, ecmVars, EmmTypeOK, emmVars,
        CallTypeOK, callVars
  <2>3. running' \in BOOLEAN /\ generation' \in Nat
    BY <1>3 DEF SpuriousWakeup, TypeOK
  <2>4. current' \in EcmTask \cup EmmTask \cup {None}
    BY <1>3 DEF SpuriousWakeup, TypeOK
  <2>5. PcTypeOK'
    BY <2>1 DEF Moves, TypeOK, PcTypeOK
  <2>6. CurrentTyped'
    BY <1>3, <2>1 DEF SpuriousWakeup, Moves, TypeOK, PcTypeOK, CurrentTyped
  <2>7. RequestKnown'
    BY <1>3, <2>1 DEF SpuriousWakeup, Moves, RequestKnown, callVars
  <2> QED
    BY <2>2, <2>3, <2>4, <2>5, <2>6, <2>7 DEF TypeInv, TypeOK
<1>4. ASSUME NEW c \in Callers, NEW e \in Ecms, OnEcm(c, e) PROVE TypeInv'
  <2>1. Moves(c, {"notifyOne"})
    BY <1>4 DEF OnEcm, ThenNotifyOne, Ready, Goto, Moves, TypeOK, PcTypeOK
  <2>2. EcmTypeOK'
    BY <1>4 DEF OnEcm, ThenNotifyOne, Ready, TypeOK, EcmTypeOK, EcmTask
  <2>3. EmmTypeOK' /\ CallTypeOK'
    BY <1>4
    DEF OnEcm, ThenNotifyOne, Ready, TypeOK, EmmTypeOK, emmVars, CallTypeOK,
        callVars
  <2>4. running' \in BOOLEAN /\ generation' \in Nat
    BY <1>4 DEF OnEcm, ThenNotifyOne, Ready, TypeOK
  <2>5. current' \in EcmTask \cup EmmTask \cup {None}
    BY <1>4 DEF OnEcm, ThenNotifyOne, Ready, TypeOK
  <2>6. PcTypeOK'
    BY <2>1 DEF Moves, TypeOK, PcTypeOK
  <2>7. CurrentTyped'
    BY <1>4, <2>1
    DEF OnEcm, ThenNotifyOne, Ready, Moves, TypeOK, PcTypeOK, CurrentTyped
  <2>8. RequestKnown'
    BY <1>4, <2>1
    DEF OnEcm, ThenNotifyOne, Ready, Moves, RequestKnown, callVars
  <2> QED
    BY <2>2, <2>3, <2>4, <2>5, <2>6, <2>7, <2>8 DEF TypeInv, TypeOK
<1>5. ASSUME NEW c \in Callers, NEW m \in Emms, OnEmm(c, m) PROVE TypeInv'
  <2>1. Moves(c, {"idle", "notifyOne"})
    BY <1>5 DEF OnEmm, ThenNotifyOne, Ready, Goto, Moves, TypeOK, PcTypeOK
  <2>2. EmmTypeOK'
    <3>1. recentEmms' \in [Emms -> {"none", "live", "expired"}]
      BY <1>5 DEF OnEmm, ThenNotifyOne, TypeOK, EmmTypeOK, Unexpired
    <3>2. emmQueue' \in Seq(EmmTask) /\ Len(emmQueue') <= MaxPendingEmms
      <4>1. [gen |-> generation, msg |-> m] \in EmmTask
        BY <1>5 DEF TypeOK, EmmTask
      <4>2. \/ emmQueue' = emmQueue
            \/ /\ ~EmmQueueFull
               /\ emmQueue' = Append(emmQueue, [gen |-> generation, msg |-> m])
        BY <1>5 DEF OnEmm
      <4>3. emmQueue \in Seq(EmmTask) /\ Len(emmQueue) <= MaxPendingEmms
        BY DEF TypeOK, EmmTypeOK
      <4>4. Len(emmQueue) \in Nat /\ MaxPendingEmms \in Nat
        BY <4>3, HandlerAssumption
      <4> HIDE DEF TypeInv
      <4> QED
        BY <4>1, <4>2, <4>3, <4>4, AppendProperties DEF EmmQueueFull
    <3> QED
      BY <1>5, <3>1, <3>2 DEF OnEmm, ThenNotifyOne, TypeOK, EmmTypeOK
  <2>3. EcmTypeOK' /\ CallTypeOK'
    BY <1>5
    DEF OnEmm, ThenNotifyOne, Ready, TypeOK, EcmTypeOK, ecmVars, CallTypeOK,
        callVars
  <2>4. running' \in BOOLEAN /\ generation' \in Nat
    BY <1>5 DEF OnEmm, ThenNotifyOne, Ready, TypeOK
  <2>5. current' \in EcmTask \cup EmmTask \cup {None}
    BY <1>5 DEF OnEmm, ThenNotifyOne, Ready, TypeOK
  <2>6. PcTypeOK'
    BY <2>1 DEF Moves, TypeOK, PcTypeOK
  <2>7. CurrentTyped'
    BY <1>5, <2>1
    DEF OnEmm, ThenNotifyOne, Ready, Moves, TypeOK, PcTypeOK, CurrentTyped
  <2>8. RequestKnown'
    BY <1>5, <2>1
    DEF OnEmm, ThenNotifyOne, Ready, Moves, RequestKnown, callVars
  <2> QED
    BY <2>2, <2>3, <2>4, <2>5, <2>6, <2>7, <2>8 DEF TypeInv, TypeOK
<1>6. ASSUME NEW c \in Callers, Clear(c) PROVE TypeInv'
  <2>1. Moves(c, {"notifyAll"})
    BY <1>6
    DEF Clear, ThenNotifyAll, ForgetTasks, ForgetKey, Ready, Goto, Moves,
        TypeOK, PcTypeOK
  <2>2. EcmTypeOK'
    <3>1. queue' \in Seq(EcmTask)
      BY <1>6, EmptySeq DEF Clear, ThenNotifyAll, ForgetTasks, ForgetKey
    <3> QED
      BY <1>6, <3>1
      DEF Clear, ThenNotifyAll, ForgetTasks, ForgetKey, TypeOK, EcmTypeOK
  <2>3. EmmTypeOK'
    BY <1>6, HandlerAssumption
    DEF Clear, ThenNotifyAll, ForgetTasks, ForgetKey, Ready, TypeOK,
        EmmTypeOK
  <2>4. CallTypeOK'
    BY <1>6
    DEF Clear, ThenNotifyAll, ForgetTasks, ForgetKey, Ready, TypeOK,
        CallTypeOK
  <2>5. running' \in BOOLEAN /\ generation' \in Nat
    BY <1>6 DEF Clear, ThenNotifyAll, ForgetTasks, ForgetKey, Ready, TypeOK
  <2>6. current' \in EcmTask \cup EmmTask \cup {None}
    BY <1>6 DEF Clear, ThenNotifyAll, ForgetTasks, ForgetKey, Ready, TypeOK
  <2>7. PcTypeOK'
    BY <2>1 DEF Moves, TypeOK, PcTypeOK
  <2>8. CurrentTyped'
    BY <1>6, <2>1
    DEF Clear, ThenNotifyAll, ForgetTasks, ForgetKey, Ready, Moves, TypeOK,
        PcTypeOK, CurrentTyped
  <2>9. RequestKnown'
    BY <1>6, <2>1
    DEF Clear, ThenNotifyAll, ForgetTasks, ForgetKey, Ready, Moves,
        RequestKnown, callVars
  <2> QED
    BY <2>2, <2>3, <2>4, <2>5, <2>6, <2>7, <2>8, <2>9 DEF TypeInv, TypeOK
<1>7. ASSUME NEW c \in Callers, NEW type \in Parities,
             Decrypt(c, type)
      PROVE  TypeInv'
  <2>1. Moves(c, {"blocked", "decrypt"})
    BY <1>7 DEF Decrypt, Ready, ReturnKey, Goto, Moves, TypeOK, PcTypeOK
  <2>2. CallTypeOK'
    BY <1>7
    DEF Decrypt, Ready, ReturnKey, TypeOK, CallTypeOK, EcmTypeOK, Request
  <2>3. EcmTypeOK' /\ EmmTypeOK'
    BY <1>7
    DEF Decrypt, Ready, ReturnKey, TypeOK, EcmTypeOK, ecmVars, EmmTypeOK,
        emmVars
  <2>4. running' \in BOOLEAN /\ generation' \in Nat
    BY <1>7 DEF Decrypt, Ready, ReturnKey, TypeOK
  <2>5. current' \in EcmTask \cup EmmTask \cup {None}
    BY <1>7 DEF Decrypt, Ready, ReturnKey, TypeOK
  <2>6. PcTypeOK'
    BY <2>1 DEF Moves, TypeOK, PcTypeOK
  <2>7. CurrentTyped'
    BY <1>7, <2>1
    DEF Decrypt, Ready, ReturnKey, Moves, TypeOK, PcTypeOK, CurrentTyped
  <2>8. request'[c] # None /\ \A d \in Callers \ {c} : request'[d] = request[d]
    BY <1>7 DEF Decrypt, Request, TypeOK, CallTypeOK
  <2>9. RequestKnown'
    BY <2>1, <2>8 DEF Moves, RequestKnown
  <2> QED
    BY <2>2, <2>3, <2>4, <2>5, <2>6, <2>7, <2>8, <2>9 DEF TypeInv, TypeOK
<1>8. ASSUME NEW c \in Callers, WakeDecrypt(c) PROVE TypeInv'
  <2>1. Moves(c, {"idle", "blocked", "decrypt"})
    BY <1>8
    DEF WakeDecrypt, KeyStillWanted, ReturnKey, Goto, Moves, TypeOK, PcTypeOK
  <2>2. CallTypeOK'
    BY <1>8
    DEF WakeDecrypt, KeyStillWanted, ReturnKey, TypeOK, CallTypeOK,
        EcmTypeOK, RequestKnown, Request
  <2>3. EcmTypeOK' /\ EmmTypeOK'
    BY <1>8
    DEF WakeDecrypt, KeyStillWanted, ReturnKey, TypeOK, EcmTypeOK, ecmVars,
        EmmTypeOK, emmVars
  <2>4. running' \in BOOLEAN /\ generation' \in Nat
    BY <1>8 DEF WakeDecrypt, KeyStillWanted, ReturnKey, TypeOK
  <2>5. current' \in EcmTask \cup EmmTask \cup {None}
    BY <1>8 DEF WakeDecrypt, KeyStillWanted, ReturnKey, TypeOK
  <2>6. PcTypeOK'
    BY <2>1 DEF Moves, TypeOK, PcTypeOK
  <2>7. CurrentTyped'
    BY <1>8, <2>1
    DEF WakeDecrypt, KeyStillWanted, ReturnKey, Moves, TypeOK, PcTypeOK,
        CurrentTyped
  <2>8. RequestKnown'
    BY <1>8, <2>1
    DEF WakeDecrypt, KeyStillWanted, ReturnKey, Moves, RequestKnown
  <2> QED
    BY <2>2, <2>3, <2>4, <2>5, <2>6, <2>7, <2>8 DEF TypeInv, TypeOK
<1>9. ASSUME NEW c \in Callers, TimeoutDecrypt(c) PROVE TypeInv'
  <2>1. Moves(c, {"idle"})
    BY <1>9 DEF TimeoutDecrypt, Goto, Moves, TypeOK, PcTypeOK
  <2>2. EcmTypeOK' /\ EmmTypeOK' /\ CallTypeOK'
    BY <1>9
    DEF TimeoutDecrypt, TypeOK, EcmTypeOK, ecmVars, EmmTypeOK, emmVars,
        CallTypeOK, callVars
  <2>3. running' \in BOOLEAN /\ generation' \in Nat
    BY <1>9 DEF TimeoutDecrypt, TypeOK
  <2>4. current' \in EcmTask \cup EmmTask \cup {None}
    BY <1>9 DEF TimeoutDecrypt, TypeOK
  <2>5. PcTypeOK'
    BY <2>1 DEF Moves, TypeOK, PcTypeOK
  <2>6. CurrentTyped'
    BY <1>9, <2>1 DEF TimeoutDecrypt, Moves, TypeOK, PcTypeOK, CurrentTyped
  <2>7. RequestKnown'
    BY <1>9, <2>1 DEF TimeoutDecrypt, Moves, RequestKnown, callVars
  <2> QED
    BY <2>2, <2>3, <2>4, <2>5, <2>6, <2>7 DEF TypeInv, TypeOK
<1>10. ASSUME NEW c \in Callers, FinishDecrypt(c) PROVE TypeInv'
  <2>1. Moves(c, {"idle"})
    BY <1>10 DEF FinishDecrypt, Goto, Moves, TypeOK, PcTypeOK
  <2>2. CallTypeOK'
    BY <1>10 DEF FinishDecrypt, TypeOK, CallTypeOK
  <2>3. EcmTypeOK' /\ EmmTypeOK'
    BY <1>10 DEF FinishDecrypt, TypeOK, EcmTypeOK, ecmVars, EmmTypeOK, emmVars
  <2>4. running' \in BOOLEAN /\ generation' \in Nat
    BY <1>10 DEF FinishDecrypt, TypeOK
  <2>5. current' \in EcmTask \cup EmmTask \cup {None}
    BY <1>10 DEF FinishDecrypt, TypeOK
  <2>6. PcTypeOK'
    BY <2>1 DEF Moves, TypeOK, PcTypeOK
  <2>7. CurrentTyped'
    BY <1>10, <2>1 DEF FinishDecrypt, Moves, TypeOK, PcTypeOK, CurrentTyped
  <2>8. RequestKnown'
    BY <1>10, <2>1 DEF FinishDecrypt, Moves, RequestKnown, callVars
  <2> QED
    BY <2>2, <2>3, <2>4, <2>5, <2>6, <2>7, <2>8 DEF TypeInv, TypeOK
<1>11. ASSUME NEW c \in Callers, Destroy(c) PROVE TypeInv'
  <2>1. Moves(c, {"notifyOne"})
    BY <1>11 DEF Destroy, ThenNotifyOne, Goto, Moves, TypeOK, PcTypeOK
  <2>2. EcmTypeOK' /\ EmmTypeOK' /\ CallTypeOK'
    BY <1>11
    DEF Destroy, ThenNotifyOne, TypeOK, EcmTypeOK, ecmVars, EmmTypeOK,
        emmVars, CallTypeOK, callVars
  <2>3. running' \in BOOLEAN /\ generation' \in Nat
    BY <1>11 DEF Destroy, ThenNotifyOne, TypeOK
  <2>4. current' \in EcmTask \cup EmmTask \cup {None}
    BY <1>11 DEF Destroy, ThenNotifyOne, TypeOK
  <2>5. PcTypeOK'
    BY <2>1 DEF Moves, TypeOK, PcTypeOK
  <2>6. CurrentTyped'
    BY <1>11, <2>1
    DEF Destroy, ThenNotifyOne, Moves, TypeOK, PcTypeOK, CurrentTyped
  <2>7. RequestKnown'
    BY <1>11, <2>1 DEF Destroy, ThenNotifyOne, Moves, RequestKnown, callVars
  <2> QED
    BY <2>2, <2>3, <2>4, <2>5, <2>6, <2>7 DEF TypeInv, TypeOK
<1>12. CASE WorkerBlocks \/ WorkerExits
  <2>1. Moves(Worker, {"blocked", "done"})
    BY <1>12 DEF WorkerBlocks, WorkerExits, Goto, Moves, TypeOK, PcTypeOK
  <2>2. EcmTypeOK' /\ EmmTypeOK' /\ CallTypeOK'
    BY <1>12
    DEF WorkerBlocks, WorkerExits, TypeOK, EcmTypeOK, ecmVars, EmmTypeOK,
        emmVars, CallTypeOK, callVars
  <2>3. running' \in BOOLEAN /\ generation' \in Nat
    BY <1>12 DEF WorkerBlocks, WorkerExits, TypeOK
  <2>4. current' \in EcmTask \cup EmmTask \cup {None}
    BY <1>12 DEF WorkerBlocks, WorkerExits, TypeOK
  <2>5. PcTypeOK'
    BY <2>1 DEF Moves, TypeOK, PcTypeOK
  <2>6. CurrentTyped'
    BY <1>12, <2>1
    DEF WorkerBlocks, WorkerExits, Moves, TypeOK, PcTypeOK, CurrentTyped
  <2>7. RequestKnown'
    BY <1>12, <2>1
    DEF WorkerBlocks, WorkerExits, Moves, RequestKnown, callVars
  <2> QED
    BY <2>2, <2>3, <2>4, <2>5, <2>6, <2>7 DEF TypeInv, TypeOK
<1>13. CASE TakeEcm
  <2>1. Moves(Worker, {"ecm"})
    BY <1>13 DEF TakeEcm, Goto, Moves, TypeOK, PcTypeOK
  <2>2. EcmTypeOK'
    BY <1>13, HeadTailProperties DEF TakeEcm, TypeOK, EcmTypeOK
  <2>3. EmmTypeOK' /\ CallTypeOK'
    BY <1>13 DEF TakeEcm, TypeOK, EmmTypeOK, emmVars, CallTypeOK, callVars
  <2>4. running' \in BOOLEAN /\ generation' \in Nat
    BY <1>13 DEF TakeEcm, TypeOK
  <2>5. current' \in EcmTask
    BY <1>13, HeadTailProperties DEF TakeEcm, TypeOK, EcmTypeOK
  <2>6. PcTypeOK'
    BY <2>1 DEF Moves, TypeOK, PcTypeOK
  <2>7. CurrentTyped'
    BY <1>13, <2>1, <2>5 DEF TakeEcm, Moves, TypeOK, PcTypeOK, CurrentTyped
  <2>8. RequestKnown'
    BY <1>13, <2>1 DEF TakeEcm, Moves, RequestKnown, callVars
  <2> QED
    BY <2>2, <2>3, <2>4, <2>5, <2>6, <2>7, <2>8 DEF TypeInv, TypeOK
<1>14. CASE TakeEmm
  <2>1. Moves(Worker, {"emm"})
    BY <1>14 DEF TakeEmm, Goto, Moves, TypeOK, PcTypeOK
  <2>2. EmmTypeOK'
    <3>1. emmQueue' \in Seq(EmmTask) /\ Len(emmQueue') <= MaxPendingEmms
      BY <1>14, HeadTailProperties, HandlerAssumption DEF TakeEmm, TypeOK, EmmTypeOK
    <3> QED
      BY <1>14, <3>1, HeadTailProperties DEF TakeEmm, TypeOK, EmmTypeOK
  <2>3. EcmTypeOK' /\ CallTypeOK'
    BY <1>14 DEF TakeEmm, TypeOK, EcmTypeOK, ecmVars, CallTypeOK, callVars
  <2>4. running' \in BOOLEAN /\ generation' \in Nat
    BY <1>14 DEF TakeEmm, TypeOK
  <2>5. current' \in EmmTask
    BY <1>14, HeadTailProperties DEF TakeEmm, TypeOK, EmmTypeOK
  <2>6. PcTypeOK'
    BY <2>1 DEF Moves, TypeOK, PcTypeOK
  <2>7. CurrentTyped'
    BY <1>14, <2>1, <2>5 DEF TakeEmm, Moves, TypeOK, PcTypeOK, CurrentTyped
  <2>8. RequestKnown'
    BY <1>14, <2>1 DEF TakeEmm, Moves, RequestKnown, callVars
  <2> QED
    BY <2>2, <2>3, <2>4, <2>5, <2>6, <2>7, <2>8 DEF TypeInv, TypeOK
<1>15. ASSUME NEW ok \in BOOLEAN,
              NEW id \in CardIds \cup {None},
              FinishEcm(ok, id)
       PROVE  TypeInv'
  <2>1. Moves(Worker, {"notifyAll"})
    BY <1>15
    DEF FinishEcm, ThenNotifyAll, StillCurrent, Goto, Moves, TypeOK, PcTypeOK
  <2>2. EcmTypeOK'
    BY <1>15
    DEF FinishEcm, ThenNotifyAll, StillCurrent, TypeOK, EcmTypeOK,
        PublishOrReject, CurrentTyped, EcmTask
  <2>3. EmmTypeOK'
    BY <1>15 DEF FinishEcm, ThenNotifyAll, StillCurrent, TypeOK, EmmTypeOK
  <2>4. CallTypeOK'
    BY <1>15
    DEF FinishEcm, ThenNotifyAll, StillCurrent, TypeOK, CallTypeOK, callVars
  <2>5. running' \in BOOLEAN /\ generation' \in Nat
    BY <1>15 DEF FinishEcm, ThenNotifyAll, StillCurrent, TypeOK
  <2>6. current' \in EcmTask \cup EmmTask \cup {None}
    BY <1>15 DEF FinishEcm, ThenNotifyAll, StillCurrent, TypeOK
  <2>7. PcTypeOK'
    BY <2>1 DEF Moves, TypeOK, PcTypeOK
  <2>8. CurrentTyped'
    BY <1>15, <2>1
    DEF FinishEcm, ThenNotifyAll, StillCurrent, Moves, TypeOK, PcTypeOK,
        CurrentTyped
  <2>9. RequestKnown'
    BY <1>15, <2>1
    DEF FinishEcm, ThenNotifyAll, StillCurrent, Moves, RequestKnown, callVars
  <2> QED
    BY <2>2, <2>3, <2>4, <2>5, <2>6, <2>7, <2>8, <2>9 DEF TypeInv, TypeOK
<1>16. ASSUME NEW result \in EmmResults,
              NEW id \in CardIds \cup {None},
              FinishEmm(result, id)
       PROVE  TypeInv'
  <2>1. Moves(Worker, {"notifyAll"})
    BY <1>16 DEF FinishEmm, ThenNotifyAll, Goto, Moves, TypeOK, PcTypeOK
  <2>2. EcmTypeOK'
    BY <1>16 DEF FinishEmm, ThenNotifyAll, TypeOK, EcmTypeOK
  <2>3. EmmTypeOK'
    BY <1>16 DEF FinishEmm, ThenNotifyAll, TypeOK, EmmTypeOK, Remember
  <2>4. CallTypeOK'
    BY <1>16 DEF FinishEmm, ThenNotifyAll, TypeOK, CallTypeOK, callVars
  <2>5. running' \in BOOLEAN /\ generation' \in Nat
    BY <1>16 DEF FinishEmm, ThenNotifyAll, TypeOK
  <2>6. current' \in EcmTask \cup EmmTask \cup {None}
    BY <1>16 DEF FinishEmm, ThenNotifyAll, TypeOK
  <2>7. PcTypeOK'
    BY <2>1 DEF Moves, TypeOK, PcTypeOK
  <2>8. CurrentTyped'
    BY <1>16, <2>1
    DEF FinishEmm, ThenNotifyAll, Moves, TypeOK, PcTypeOK, CurrentTyped
  <2>9. RequestKnown'
    BY <1>16, <2>1 DEF FinishEmm, ThenNotifyAll, Moves, RequestKnown, callVars
  <2> QED
    BY <2>2, <2>3, <2>4, <2>5, <2>6, <2>7, <2>8, <2>9 DEF TypeInv, TypeOK
<1>17. CASE RetryIntervalElapses
  <2>1. pc' = pc
    BY <1>17 DEF RetryIntervalElapses
  <2>2. EcmTypeOK'
    BY <1>17 DEF RetryIntervalElapses, TypeOK, EcmTypeOK
  <2>3. EmmTypeOK' /\ CallTypeOK'
    BY <1>17
    DEF RetryIntervalElapses, TypeOK, EmmTypeOK, emmVars, CallTypeOK,
        callVars
  <2>4. running' \in BOOLEAN /\ generation' \in Nat
    BY <1>17 DEF RetryIntervalElapses, TypeOK
  <2>5. current' \in EcmTask \cup EmmTask \cup {None}
    BY <1>17 DEF RetryIntervalElapses, TypeOK
  <2>6. PcTypeOK'
    BY <2>1 DEF Moves, TypeOK, PcTypeOK
  <2>7. CurrentTyped'
    BY <1>17, <2>1
    DEF RetryIntervalElapses, Moves, TypeOK, PcTypeOK, CurrentTyped
  <2>8. RequestKnown'
    BY <1>17, <2>1 DEF RetryIntervalElapses, Moves, RequestKnown, callVars
  <2> QED
    BY <2>2, <2>3, <2>4, <2>5, <2>6, <2>7, <2>8 DEF TypeInv, TypeOK
<1>18. ASSUME NEW m \in Emms, RecentEmmExpires(m) PROVE TypeInv'
  <2>1. pc' = pc
    BY <1>18 DEF RecentEmmExpires
  <2>2. EmmTypeOK'
    BY <1>18 DEF RecentEmmExpires, TypeOK, EmmTypeOK
  <2>3. EcmTypeOK' /\ CallTypeOK'
    BY <1>18
    DEF RecentEmmExpires, TypeOK, EcmTypeOK, ecmVars, CallTypeOK, callVars
  <2>4. running' \in BOOLEAN /\ generation' \in Nat
    BY <1>18 DEF RecentEmmExpires, TypeOK
  <2>5. current' \in EcmTask \cup EmmTask \cup {None}
    BY <1>18 DEF RecentEmmExpires, TypeOK
  <2>6. PcTypeOK'
    BY <2>1 DEF Moves, TypeOK, PcTypeOK
  <2>7. CurrentTyped'
    BY <1>18, <2>1 DEF RecentEmmExpires, Moves, TypeOK, PcTypeOK, CurrentTyped
  <2>8. RequestKnown'
    BY <1>18, <2>1 DEF RecentEmmExpires, Moves, RequestKnown, callVars
  <2> QED
    BY <2>2, <2>3, <2>4, <2>5, <2>6, <2>7, <2>8 DEF TypeInv, TypeOK
<1>19. CASE UNCHANGED vars
  <2>1. pc' = pc
    BY <1>19 DEF vars
  <2>2. EcmTypeOK' /\ EmmTypeOK' /\ CallTypeOK'
    BY <1>19
    DEF vars, TypeOK, EcmTypeOK, ecmVars, EmmTypeOK, emmVars, CallTypeOK,
        callVars
  <2>3. running' \in BOOLEAN /\ generation' \in Nat
    BY <1>19 DEF vars, TypeOK
  <2>4. current' \in EcmTask \cup EmmTask \cup {None}
    BY <1>19 DEF vars, TypeOK
  <2>5. PcTypeOK'
    BY <2>1 DEF Moves, TypeOK, PcTypeOK
  <2>6. CurrentTyped'
    BY <1>19, <2>1 DEF vars, Moves, TypeOK, PcTypeOK, CurrentTyped
  <2>7. RequestKnown'
    BY <1>19, <2>1 DEF vars, Moves, RequestKnown, callVars
  <2> QED
    BY <2>2, <2>3, <2>4, <2>5, <2>6, <2>7 DEF TypeInv, TypeOK
<1>20. QED
  BY <1>1, <1>2, <1>3, <1>4, <1>5, <1>6, <1>7, <1>8, <1>9, <1>10, <1>11,
     <1>12, <1>13, <1>14, <1>15, <1>16, <1>17, <1>18, <1>19
  DEF Next, CallerStep, CallerBegins, WorkerStep, Environment, Terminated

\* Type correctness of the handler's state, in every behaviour.
THEOREM TypeCorrect == Spec => []TypeOK
<1>1. TypeInv => TypeOK
  BY DEF TypeInv
<1>2. Spec => []TypeInv
  BY TypeInit, TypeStep, PTL DEF Spec
<1>3. QED
  BY <1>1, <1>2, PTL

-----------------------------------------------------------------------------
(* The published key belongs to the tuned channel and to its newest ECM,   *)
(* whatever clear() and onEcm() do while a card answer is on its way.      *)
(* The inductive invariant: KeyOfNewestEcm alone is not inductive: that an*)
(* answer counts only for the newest ECM has to be known of the answer     *)
(* still on its way, so the invariant also says what is remembered of the  *)
(* ECMs in the queue and at the card, and that an ECM of an earlier channel*)
(* at the card excludes a usable key.                                      *)

EcmQueueOfThisChannel == \A i \in DOMAIN queue : queue[i].gen = generation

BusyWithEcm == workerBusy <=> pc[Worker] = "ecm"

StaleEcmNoKey ==
  workerBusy => /\ current.gen <= generation
                /\ current.gen # generation => ~keyValid

EcmInv ==
  /\ EcmQueueOfThisChannel
  /\ BusyWithEcm
  /\ StaleEcmNoKey
  /\ KeyOfThisChannel
  /\ NewestEcmRemembered
  /\ KeyOfNewestEcm

\* Nothing that EcmInv speaks of has changed.
EcmQuiet ==
  /\ UNCHANGED <<queue, lastEcm, ecmReady, keyValid, workerBusy, key,
                 generation, current>>
  /\ (pc'[Worker] = "ecm") <=> (pc[Worker] = "ecm")

\* A quiet step preserves the invariant.
LEMMA EcmQuietStep == EcmInv /\ EcmQuiet => EcmInv'
  BY
  DEF EcmQuiet, EcmInv, EcmQueueOfThisChannel, BusyWithEcm, StaleEcmNoKey,
      KeyOfThisChannel, NewestEcmRemembered, KeyOfNewestEcm

\* Initially no ECM is known, and no key.
LEMMA EcmInit == Init => EcmInv
<1> SUFFICES ASSUME Init PROVE EcmInv
  OBVIOUS
<1>1. pc[Worker] = "eval" /\ queue = <<>> /\ ~workerBusy /\ ~keyValid
  BY DEF Init, Threads
<1> QED
  BY <1>1
  DEF EcmInv, EcmQueueOfThisChannel, BusyWithEcm, StaleEcmNoKey,
      KeyOfThisChannel, NewestEcmRemembered, KeyOfNewestEcm

\* onEcm appends the newest ECM and remembers it.
LEMMA EcmOnEcm ==
  ASSUME TypeInv, EcmInv, NEW c \in Callers, NEW e \in Ecms, OnEcm(c, e)
  PROVE  EcmInv'
<1> DEFINE task == [gen |-> generation, msg |-> e]
<1>1. /\ queue \in Seq(EcmTask) /\ task \in EcmTask
      /\ queue' = Append(queue, task) /\ lastEcm' = e /\ ecmReady'
      /\ UNCHANGED <<keyValid, workerBusy, key, generation, current>>
  BY DEF OnEcm, ThenNotifyOne, TypeInv, TypeOK, EcmTypeOK, EcmTask
<1>2. pc'[Worker] = pc[Worker]
  BY HandlerAssumption
  DEF OnEcm, ThenNotifyOne, Goto, TypeInv, TypeOK, PcTypeOK
<1>3. /\ queue' # <<>> /\ Len(queue') = Len(queue) + 1
      /\ DOMAIN queue' = 1 .. Len(queue) + 1
      /\ \A i \in 1 .. Len(queue) : queue'[i] = queue[i]
      /\ queue'[Len(queue) + 1] = task
      /\ DOMAIN queue = 1 .. Len(queue) /\ Len(queue) \in Nat
  BY <1>1, AppendProperties, LenProperties
<1>4. EcmQueueOfThisChannel'
  BY <1>1, <1>3 DEF EcmInv, EcmQueueOfThisChannel
<1>5. NewestEcmRemembered'
  BY <1>1, <1>3 DEF NewestEcmRemembered
<1> QED
  BY <1>1, <1>2, <1>3, <1>4, <1>5
  DEF EcmInv, BusyWithEcm, StaleEcmNoKey, KeyOfThisChannel, KeyOfNewestEcm

\* clear() leaves nothing of the old channel but the task at the card.
LEMMA EcmClear ==
  ASSUME TypeInv, EcmInv, NEW c \in Callers, Clear(c)
  PROVE  EcmInv'
<1>1. /\ queue' = <<>> /\ ~keyValid' /\ generation' = generation + 1
      /\ UNCHANGED <<workerBusy, current>>
  BY DEF Clear, ThenNotifyAll, ForgetTasks, ForgetKey
<1>2. pc'[Worker] = pc[Worker]
  BY HandlerAssumption
  DEF Clear, ThenNotifyAll, ForgetTasks, ForgetKey, Goto, TypeInv, TypeOK,
      PcTypeOK
<1>3. generation \in Nat /\ (workerBusy => current.gen \in Nat)
  BY DEF TypeInv, TypeOK, CurrentTyped, EcmInv, BusyWithEcm, EcmTask
<1>4. workerBusy => current.gen <= generation
  BY DEF EcmInv, StaleEcmNoKey
<1>5. workerBusy' => current'.gen < generation'
  BY <1>1, <1>3, <1>4
<1>6. EcmQueueOfThisChannel'
  BY <1>1 DEF EcmQueueOfThisChannel
<1>7. StaleEcmNoKey'
  BY <1>1, <1>3, <1>4 DEF StaleEcmNoKey
<1>8. NewestEcmRemembered'
  BY <1>1, <1>3, <1>5 DEF NewestEcmRemembered
<1> QED
  BY <1>1, <1>2, <1>6, <1>7, <1>8
  DEF EcmInv, BusyWithEcm, KeyOfThisChannel, KeyOfNewestEcm

\* The worker takes the oldest ECM; the newest is still in the queue, or it
\* is the one taken.
LEMMA EcmTakeEcm ==
  ASSUME TypeInv, EcmInv, TakeEcm
  PROVE  EcmInv'
<1>1. /\ queue \in Seq(EcmTask) /\ queue # <<>>
      /\ current' = Head(queue) /\ queue' = Tail(queue) /\ workerBusy'
      /\ UNCHANGED <<lastEcm, ecmReady, keyValid, key, generation>>
  BY DEF TakeEcm, TypeInv, TypeOK, EcmTypeOK
<1>2. pc'[Worker] = "ecm"
  BY HandlerAssumption DEF TakeEcm, Goto, TypeInv, TypeOK, PcTypeOK, Threads
<1>3. /\ queue' \in Seq(EcmTask) /\ Len(queue) \in Nat \ {0}
      /\ Len(queue') = Len(queue) - 1
      /\ \A i \in 1 .. Len(queue') : queue'[i] = queue[i + 1]
      /\ DOMAIN queue' = 1 .. Len(queue') /\ DOMAIN queue = 1 .. Len(queue)
      /\ current' = queue[1]
  BY <1>1, HeadTailProperties, LenProperties, EmptySeq
<1>4. EcmQueueOfThisChannel' /\ current'.gen = generation'
  BY <1>1, <1>3 DEF EcmInv, EcmQueueOfThisChannel
<1>5. ecmReady' /\ lastEcm' = queue[Len(queue)].msg
  BY <1>1 DEF EcmInv, NewestEcmRemembered
<1>6. NewestEcmRemembered'
  <2>1. CASE queue' = <<>>
    BY <2>1, <1>3, <1>5 DEF NewestEcmRemembered
  <2>2. CASE queue' # <<>>
    <3>1. Len(queue') \in Nat \ {0}
      BY <2>2, <1>3, EmptySeq
    <3>2. queue'[Len(queue')] = queue[Len(queue)]
      BY <3>1, <1>3
    <3> QED
      BY <2>2, <3>2, <1>5 DEF NewestEcmRemembered
  <2> QED
    BY <2>1, <2>2
<1>7. StaleEcmNoKey'
  BY <1>4, <1>1 DEF StaleEcmNoKey, TypeInv, TypeOK
<1> QED
  BY <1>1, <1>2, <1>4, <1>6, <1>7
  DEF EcmInv, BusyWithEcm, KeyOfThisChannel, KeyOfNewestEcm

\* A card answer publishes the newest ECM's key, or withdraws the key, or is
\* ignored because a channel change or a newer ECM has overtaken it.
LEMMA EcmFinishEcm ==
  ASSUME TypeInv, EcmInv, NEW ok \in BOOLEAN, NEW id \in CardIds \cup {None},
         FinishEcm(ok, id)
  PROVE  EcmInv'
<1>1. /\ current \in EcmTask /\ None \notin EcmTask
      /\ workerBusy /\ ~workerBusy'
      /\ UNCHANGED <<queue, generation, current>>
  BY HandlerAssumption
  DEF FinishEcm, ThenNotifyAll, StillCurrent, TypeInv, CurrentTyped, EcmInv,
      BusyWithEcm
<1>2. pc'[Worker] = "notifyAll"
  BY HandlerAssumption
  DEF FinishEcm, ThenNotifyAll, StillCurrent, Goto, TypeInv, TypeOK,
      PcTypeOK, Threads
<1>3. EcmQueueOfThisChannel' /\ BusyWithEcm' /\ StaleEcmNoKey'
  BY <1>1, <1>2 DEF EcmInv, EcmQueueOfThisChannel, BusyWithEcm, StaleEcmNoKey
<1>4. CASE generation = current.gen /\ queue = <<>>
  <2>1. PublishOrReject(ok) /\ lastEcm = current.msg
    BY <1>1, <1>4
    DEF FinishEcm, ThenNotifyAll, StillCurrent, EcmInv, NewestEcmRemembered
  <2>2. KeyOfThisChannel' /\ KeyOfNewestEcm'
    BY <2>1, <1>1, <1>4 DEF PublishOrReject, KeyOfThisChannel, KeyOfNewestEcm
  <2> QED
    BY <1>1, <1>3, <1>4, <2>2 DEF EcmInv, NewestEcmRemembered
<1>5. CASE ~(generation = current.gen /\ queue = <<>>)
  <2>1. UNCHANGED <<keyValid, key, ecmReady, lastEcm>>
    BY <1>5 DEF FinishEcm, ThenNotifyAll, StillCurrent
  <2>2. queue # <<>> \/ ~keyValid
    BY <1>1, <1>5 DEF EcmInv, StaleEcmNoKey
  <2> QED
    BY <1>1, <1>3, <2>1, <2>2
    DEF EcmInv, KeyOfThisChannel, KeyOfNewestEcm, NewestEcmRemembered
<1> QED
  BY <1>4, <1>5

\* Every step preserves EcmInv.
LEMMA EcmStep == TypeInv /\ EcmInv /\ [Next]_vars => EcmInv'
<1> SUFFICES ASSUME TypeInv, EcmInv, [Next]_vars PROVE EcmInv'
  OBVIOUS
<1> USE HandlerAssumption DEF TypeInv, TypeOK, PcTypeOK, Threads
<1>1. ASSUME NEW c \in Callers, NotifyOne(c) PROVE EcmInv'
  <2>1. pc'[Worker] = pc[Worker]
          \/ (pc[Worker] = "blocked" /\ pc'[Worker] = "eval")
    BY <1>1 DEF NotifyOne, Goto
  <2> QED
    BY <1>1, <2>1, EcmQuietStep DEF NotifyOne, EcmQuiet, ecmVars
<1>2. ASSUME NEW t \in Threads, NotifyAll(t) PROVE EcmInv'
  <2>1. (pc'[Worker] = "ecm") <=> (pc[Worker] = "ecm")
    BY <1>2 DEF NotifyAll
  <2> QED
    BY <1>2, <2>1, EcmQuietStep DEF NotifyAll, EcmQuiet, ecmVars
<1>3. ASSUME NEW t \in Threads, SpuriousWakeup(t) PROVE EcmInv'
  BY <1>3, EcmQuietStep DEF SpuriousWakeup, Goto, EcmQuiet, ecmVars
<1>4. ASSUME NEW c \in Callers, NEW m \in Emms, OnEmm(c, m) PROVE EcmInv'
  <2>1. pc'[Worker] = pc[Worker]
    BY <1>4 DEF OnEmm, ThenNotifyOne, Goto
  <2> QED
    BY <1>4, <2>1, EcmQuietStep DEF OnEmm, ThenNotifyOne, EcmQuiet, ecmVars
<1>5. ASSUME NEW c \in Callers, NEW type \in Parities, Decrypt(c, type)
      PROVE EcmInv'
  <2>1. pc'[Worker] = pc[Worker]
    BY <1>5 DEF Decrypt, ReturnKey, Goto
  <2> QED
    BY <1>5, <2>1, EcmQuietStep DEF Decrypt, EcmQuiet, ecmVars
<1>6. ASSUME NEW c \in Callers, WakeDecrypt(c) PROVE EcmInv'
  <2>1. pc'[Worker] = pc[Worker]
    BY <1>6 DEF WakeDecrypt, KeyStillWanted, ReturnKey, Goto
  <2> QED
    BY <1>6, <2>1, EcmQuietStep
    DEF WakeDecrypt, KeyStillWanted, EcmQuiet, ecmVars
<1>7. ASSUME NEW c \in Callers, TimeoutDecrypt(c) PROVE EcmInv'
  BY <1>7, EcmQuietStep DEF TimeoutDecrypt, Goto, EcmQuiet, ecmVars
<1>8. ASSUME NEW c \in Callers, FinishDecrypt(c) PROVE EcmInv'
  BY <1>8, EcmQuietStep DEF FinishDecrypt, Goto, EcmQuiet, ecmVars
<1>9. ASSUME NEW c \in Callers, Destroy(c) PROVE EcmInv'
  BY <1>9, EcmQuietStep DEF Destroy, ThenNotifyOne, Goto, EcmQuiet, ecmVars
<1>10. CASE WorkerBlocks \/ WorkerExits
  BY <1>10, EcmQuietStep
  DEF WorkerBlocks, WorkerExits, Goto, EcmQuiet, ecmVars
<1>11. CASE TakeEmm
  <2>1. ~workerBusy /\ pc'[Worker] = "emm"
    BY <1>11 DEF TakeEmm, Goto, EcmInv, BusyWithEcm
  <2>2. UNCHANGED <<queue, lastEcm, ecmReady, keyValid, workerBusy, key,
                    generation>>
    BY <1>11 DEF TakeEmm, ecmVars
  <2> QED
    BY <2>1, <2>2
    DEF EcmInv, EcmQueueOfThisChannel, BusyWithEcm, StaleEcmNoKey,
        KeyOfThisChannel, NewestEcmRemembered, KeyOfNewestEcm
<1>12. ASSUME NEW result \in EmmResults, NEW id \in CardIds \cup {None},
              FinishEmm(result, id)
       PROVE EcmInv'
  <2>1. pc[Worker] = "emm" /\ pc'[Worker] = "notifyAll"
    BY <1>12 DEF FinishEmm, ThenNotifyAll, Goto
  <2> QED
    BY <1>12, <2>1, EcmQuietStep DEF FinishEmm, ThenNotifyAll, EcmQuiet
<1>13. CASE RetryIntervalElapses
  BY <1>13, EcmQuietStep DEF RetryIntervalElapses, EcmQuiet
<1>14. ASSUME NEW m \in Emms, RecentEmmExpires(m) PROVE EcmInv'
  BY <1>14, EcmQuietStep DEF RecentEmmExpires, EcmQuiet, ecmVars
<1>15. CASE UNCHANGED vars
  BY <1>15, EcmQuietStep DEF vars, EcmQuiet, ecmVars
<1>16. QED
  BY <1>1, <1>2, <1>3, <1>4, <1>5, <1>6, <1>7, <1>8, <1>9, <1>10, <1>11,
     <1>12, <1>13, <1>14, <1>15, EcmOnEcm, EcmClear, EcmTakeEcm, EcmFinishEcm
  DEF Next, CallerStep, CallerBegins, WorkerStep, Environment, Terminated

-----------------------------------------------------------------------------
(* The key a caller has been given.                                        *)

\* A caller holds a key only while it decrypts with it.
KeyHeldWhileDecrypting == \A c \in Callers : pc[c] # "decrypt" => got[c] = None

CallInv == KeyHeldWhileDecrypting /\ ReturnedKeyOfCallersChannel

\* Nobody has been given a key or has stopped decrypting with it.
CallQuiet ==
  /\ UNCHANGED <<request, got>>
  /\ \A c \in Callers : pc'[c] = "decrypt" <=> pc[c] = "decrypt"

\* A quiet step preserves the invariant.
LEMMA CallQuietStep == CallInv /\ CallQuiet => CallInv'
  BY
  DEF CallQuiet, CallInv, KeyHeldWhileDecrypting, ReturnedKeyOfCallersChannel

\* Every step preserves CallInv: getDecryptionKey returns a key only if the
\* generation is still the one it read when it was called.
LEMMA CallStep == TypeInv /\ EcmInv /\ CallInv /\ [Next]_vars => CallInv'
<1> SUFFICES ASSUME TypeInv, EcmInv, CallInv, [Next]_vars PROVE CallInv'
  OBVIOUS
<1> USE HandlerAssumption DEF TypeInv, TypeOK, PcTypeOK, Threads
<1>1. ASSUME NEW c \in Callers, NotifyOne(c) PROVE CallInv'
  <2>1. \A d \in Callers : pc'[d] = "decrypt" <=> pc[d] = "decrypt"
    <3>1. CASE Goto(c, "idle")
      BY <1>1, <3>1 DEF NotifyOne, Goto
    <3>2. ASSUME NEW t \in Threads, pc[t] = "blocked",
                 pc' = [pc EXCEPT ![c] = "idle", ![t] = "eval"]
          PROVE  \A d \in Callers : pc'[d] = "decrypt" <=> pc[d] = "decrypt"
      BY <1>1, <3>2 DEF NotifyOne
    <3> QED
      BY <1>1, <3>1, <3>2 DEF NotifyOne
  <2> QED
    BY <1>1, <2>1, CallQuietStep DEF NotifyOne, CallQuiet, callVars
<1>2. ASSUME NEW t \in Threads, NotifyAll(t) PROVE CallInv'
  <2>1. \A d \in Callers : pc'[d] = "decrypt" <=> pc[d] = "decrypt"
    BY <1>2 DEF NotifyAll
  <2> QED
    BY <1>2, <2>1, CallQuietStep DEF NotifyAll, CallQuiet, callVars
<1>3. ASSUME NEW t \in Threads, SpuriousWakeup(t) PROVE CallInv'
  BY <1>3, CallQuietStep DEF SpuriousWakeup, Goto, CallQuiet, callVars
<1>4. ASSUME NEW c \in Callers, NEW e \in Ecms, OnEcm(c, e) PROVE CallInv'
  BY <1>4, CallQuietStep
  DEF OnEcm, ThenNotifyOne, Ready, Goto, CallQuiet, callVars
<1>5. ASSUME NEW c \in Callers, NEW m \in Emms, OnEmm(c, m) PROVE CallInv'
  <2>1. \A d \in Callers : pc'[d] = "decrypt" <=> pc[d] = "decrypt"
    BY <1>5 DEF OnEmm, ThenNotifyOne, Ready, Goto
  <2> QED
    BY <1>5, <2>1, CallQuietStep DEF OnEmm, ThenNotifyOne, CallQuiet, callVars
<1>6. ASSUME NEW c \in Callers, Clear(c) PROVE CallInv'
  BY <1>6, CallQuietStep
  DEF Clear, ThenNotifyAll, ForgetTasks, ForgetKey, Ready, Goto, CallQuiet
<1>7. ASSUME NEW c \in Callers, NEW type \in Parities, Decrypt(c, type)
      PROVE CallInv'
  <2>1. /\ pc[c] = "idle" /\ got[c] = None
        /\ request' = [request EXCEPT ![c] = [type |-> type, gen |-> generation]]
    BY <1>7 DEF Decrypt, Ready, CallInv, KeyHeldWhileDecrypting
  <2>2. CASE keyValid /\ ReturnKey(c, type)
    BY <1>7, <2>1, <2>2
    DEF ReturnKey, Goto, CallTypeOK, EcmInv, KeyOfThisChannel, CallInv,
        KeyHeldWhileDecrypting, ReturnedKeyOfCallersChannel
  <2>3. CASE Goto(c, "blocked") /\ UNCHANGED got
    BY <1>7, <2>1, <2>3
    DEF Goto, CallTypeOK, CallInv, KeyHeldWhileDecrypting,
        ReturnedKeyOfCallersChannel
  <2> QED
    BY <1>7, <2>2, <2>3 DEF Decrypt
<1>8. ASSUME NEW c \in Callers, WakeDecrypt(c) PROVE CallInv'
  <2>1. pc[c] = "eval" /\ got[c] = None /\ request' = request
    BY <1>8 DEF WakeDecrypt, KeyStillWanted, CallInv, KeyHeldWhileDecrypting
  <2>2. CASE /\ generation = request[c].gen /\ keyValid
             /\ ReturnKey(c, request[c].type)
    BY <1>8, <2>1, <2>2
    DEF ReturnKey, Goto, CallTypeOK, EcmInv, KeyOfThisChannel, CallInv,
        KeyHeldWhileDecrypting, ReturnedKeyOfCallersChannel
  <2>3. CASE (Goto(c, "blocked") \/ Goto(c, "idle")) /\ UNCHANGED got
    BY <1>8, <2>1, <2>3, CallQuietStep DEF Goto, CallQuiet
  <2> QED
    BY <1>8, <2>2, <2>3 DEF WakeDecrypt, KeyStillWanted
<1>9. ASSUME NEW c \in Callers, TimeoutDecrypt(c) PROVE CallInv'
  BY <1>9, CallQuietStep DEF TimeoutDecrypt, Goto, CallQuiet, callVars
<1>10. ASSUME NEW c \in Callers, FinishDecrypt(c) PROVE CallInv'
  BY <1>10
  DEF FinishDecrypt, Goto, CallTypeOK, CallInv, KeyHeldWhileDecrypting,
      ReturnedKeyOfCallersChannel
<1>11. ASSUME NEW c \in Callers, Destroy(c) PROVE CallInv'
  BY <1>11, CallQuietStep
  DEF Destroy, ThenNotifyOne, Goto, CallQuiet, callVars
<1>12. CASE WorkerBlocks \/ WorkerExits \/ TakeEcm \/ TakeEmm
  BY <1>12, CallQuietStep
  DEF WorkerBlocks, WorkerExits, TakeEcm, TakeEmm, Goto, CallQuiet, callVars
<1>13. ASSUME NEW ok \in BOOLEAN, NEW id \in CardIds \cup {None},
              FinishEcm(ok, id)
       PROVE CallInv'
  BY <1>13, CallQuietStep
  DEF FinishEcm, ThenNotifyAll, StillCurrent, Goto, CallQuiet, callVars
<1>14. ASSUME NEW result \in EmmResults, NEW id \in CardIds \cup {None},
              FinishEmm(result, id)
       PROVE CallInv'
  BY <1>14, CallQuietStep
  DEF FinishEmm, ThenNotifyAll, Goto, CallQuiet, callVars
<1>15. CASE RetryIntervalElapses \/ \E m \in Emms : RecentEmmExpires(m)
  BY <1>15, CallQuietStep
  DEF RetryIntervalElapses, RecentEmmExpires, CallQuiet, callVars
<1>16. CASE UNCHANGED vars
  BY <1>16, CallQuietStep DEF vars, CallQuiet, callVars
<1>17. QED
  BY <1>1, <1>2, <1>3, <1>4, <1>5, <1>6, <1>7, <1>8, <1>9, <1>10, <1>11,
     <1>12, <1>13, <1>14, <1>15, <1>16
  DEF Next, CallerStep, CallerBegins, WorkerStep, Environment, Terminated

-----------------------------------------------------------------------------
KeyInv == TypeInv /\ EcmInv /\ CallInv

\* The inductive invariant holds in every reachable state.
LEMMA KeyInvariant == Spec => []KeyInv
<1>1. Init => CallInv
  BY DEF Init, CallInv, KeyHeldWhileDecrypting, ReturnedKeyOfCallersChannel
<1>2. Init => KeyInv
  BY <1>1, TypeInit, EcmInit DEF KeyInv
<1>3. KeyInv /\ [Next]_vars => KeyInv'
  BY TypeStep, EcmStep, CallStep DEF KeyInv
<1>4. QED
  BY <1>2, <1>3, PTL DEF Spec

\* A usable key always comes from an ECM of the tuned channel: no answer that
\* arrives after clear() can publish the old channel's key.
THEOREM KeyNeverOutlivesChannel == Spec => []KeyOfThisChannel
<1>1. KeyInv => KeyOfThisChannel
  BY DEF KeyInv, EcmInv
<1>2. QED
  BY <1>1, KeyInvariant, PTL

\* decrypt() returns keys of the channel it was called on only, however long
\* it waited and whatever was tuned in between.
THEOREM ReturnedKeyCorrect == Spec => []ReturnedKeyOfCallersChannel
<1>1. KeyInv => ReturnedKeyOfCallersChannel
  BY DEF KeyInv, CallInv
<1>2. QED
  BY <1>1, KeyInvariant, PTL

\* The newest ECM is remembered until it is answered, and with none
\* unanswered a usable key is the newest ECM's.
THEOREM NewestEcmDecides == Spec => [](NewestEcmRemembered /\ KeyOfNewestEcm)
<1>1. KeyInv => NewestEcmRemembered /\ KeyOfNewestEcm
  BY DEF KeyInv, EcmInv
<1>2. QED
  BY <1>1, KeyInvariant, PTL

\* Across a parity switch a packet is decrypted with the newest ECM's key.
THEOREM ParitySwitchCorrect == Spec => ParitySwitchUsesNewestEcm
<1> DEFINE Switch ==
      \A c \in Callers :
        pc[c] # "decrypt" /\ pc'[c] = "decrypt" /\ lastKeyType' # lastKeyType
          => got'[c].msg = lastEcm
<1>1. KeyInv /\ [Next]_vars => [Switch]_vars
  <2> SUFFICES ASSUME KeyInv, Next, NEW c \in Callers,
                      pc[c] # "decrypt", pc'[c] = "decrypt",
                      lastKeyType' # lastKeyType
               PROVE  got'[c].msg = lastEcm
    BY DEF vars
  <2> USE DEF KeyInv, TypeInv, TypeOK, PcTypeOK, CallTypeOK, Threads
  <2>1. PICK d \in Callers :
          \/ \E type \in Parities : Decrypt(d, type)
          \/ WakeDecrypt(d)
          \/ Clear(d)
    <3> USE DEF callVars
    <3>1. \/ \E d \in Callers :
               \/ \E type \in Parities : Decrypt(d, type)
               \/ WakeDecrypt(d) \/ Clear(d)
          \/ UNCHANGED lastKeyType
      BY HandlerAssumption
      DEF Next, CallerStep, CallerBegins, WorkerStep, Environment,
          Terminated, NotifyOne, NotifyAll, SpuriousWakeup, OnEcm,
          ThenNotifyOne, OnEmm, TimeoutDecrypt, FinishDecrypt, Destroy,
          WorkerBlocks, WorkerExits, TakeEcm, TakeEmm, FinishEcm,
          ThenNotifyAll, StillCurrent, FinishEmm, RetryIntervalElapses,
          RecentEmmExpires, vars
    <3> QED
      BY <3>1
  <2>2. CASE Clear(d)
    BY <2>1, <2>2 DEF Clear, ThenNotifyAll, ForgetTasks, ForgetKey, Goto
  <2>3. ASSUME NEW type \in Parities, Decrypt(d, type)
        PROVE got'[c].msg = lastEcm
    <3>1. c = d /\ keyValid /\ WaitOver(generation) /\ got'[c] = key
      BY <2>3 DEF Decrypt, ReturnKey, Goto
    <3> QED
      BY <3>1 DEF WaitOver, EcmInv, KeyOfNewestEcm
  <2>4. CASE WakeDecrypt(d)
    <3>1. /\ c = d /\ keyValid /\ WaitOver(generation) /\ got'[c] = key
      BY <2>4 DEF WakeDecrypt, KeyStillWanted, ReturnKey, Goto
    <3> QED
      BY <3>1 DEF WaitOver, EcmInv, KeyOfNewestEcm
  <2> QED
    BY <2>1, <2>2, <2>3, <2>4
<1>2. QED
  BY <1>1, KeyInvariant, PTL DEF Spec, ParitySwitchUsesNewestEcm

-----------------------------------------------------------------------------
(* EMMs.  EachEmmOnce is not inductive: what FinishEmm remembers is the    *)
(* worker's copy of the task, and what TakeEmm takes to the card counts as *)
(* being there only if it is of the tuned channel.                         *)

EmmQueueOfThisChannel == \A i \in DOMAIN emmQueue : emmQueue[i].gen = generation

\* The worker's copy is the task that onEmm compares with.
ActiveIsCurrent ==
  /\ pc[Worker] = "emm" => activeEmm = current
  /\ pc[Worker] # "emm" => activeEmm = None

Queued(m) == {i \in DOMAIN emmQueue : emmQueue[i].msg = m}
Active(m) == activeEmm = [gen |-> generation, msg |-> m]

QueuedOnce ==
  \A i, j \in DOMAIN emmQueue : emmQueue[i].msg = emmQueue[j].msg => i = j

InOnePlace ==
  \A m \in Emms :
    /\ Active(m) => Queued(m) = {}
    /\ Active(m) \/ Queued(m) # {} => recentEmms[m] = "none"

EmmInv == EmmQueueOfThisChannel /\ ActiveIsCurrent /\ QueuedOnce /\ InOnePlace

\* Nothing that EmmInv speaks of has changed.
EmmQuiet ==
  /\ UNCHANGED <<emmQueue, activeEmm, recentEmms, generation>>
  /\ (pc'[Worker] = "emm") <=> (pc[Worker] = "emm")
  /\ pc[Worker] = "emm" => UNCHANGED current

\* A quiet step preserves the invariant.
LEMMA EmmQuietStep == EmmInv /\ EmmQuiet => EmmInv'
  BY
  DEF EmmQuiet, EmmInv, EmmQueueOfThisChannel, ActiveIsCurrent, QueuedOnce,
      InOnePlace, Queued, Active

\* Initially there is no EMM anywhere.
LEMMA EmmInit == Init => EmmInv
<1> SUFFICES ASSUME Init PROVE EmmInv
  OBVIOUS
<1>1. pc[Worker] = "eval" /\ emmQueue = <<>> /\ activeEmm = None
  BY DEF Init, Threads
<1>2. \A m \in Emms : recentEmms[m] = "none"
  BY DEF Init
<1>3. InOnePlace
  BY <1>1, <1>2, HandlerAssumption DEF Init, InOnePlace, Queued, Active, EmmTask
<1> QED
  BY <1>1, <1>3
  DEF EmmInv, EmmQueueOfThisChannel, ActiveIsCurrent, QueuedOnce

\* onEmm appends an EMM that is nowhere yet; the expired entries go.
LEMMA EmmOnEmm ==
  ASSUME TypeInv, EmmInv, NEW c \in Callers, NEW m \in Emms, OnEmm(c, m)
  PROVE  EmmInv'
<1> DEFINE task == [gen |-> generation, msg |-> m]
<1>1. /\ emmQueue \in Seq(EmmTask) /\ task \in EmmTask
      /\ recentEmms \in [Emms -> {"none", "live", "expired"}]
      /\ recentEmms' = Unexpired
      /\ UNCHANGED <<activeEmm, generation, current>>
  <2>1. task \in EmmTask
    BY DEF TypeInv, TypeOK, EmmTask
  <2>2. /\ emmQueue \in Seq(EmmTask)
        /\ recentEmms \in [Emms -> {"none", "live", "expired"}]
    BY DEF TypeInv, TypeOK, EmmTypeOK
  <2>3. recentEmms' = Unexpired /\ UNCHANGED <<activeEmm, generation, current>>
    BY DEF OnEmm
  <2> QED
    BY <2>1, <2>2, <2>3
<1>2. pc'[Worker] = pc[Worker]
  BY HandlerAssumption
  DEF OnEmm, ThenNotifyOne, Goto, TypeInv, TypeOK, PcTypeOK, Threads
<1>3. \A n \in Emms : recentEmms[n] = "none" => recentEmms'[n] = "none"
  BY <1>1 DEF Unexpired
<1>4. CASE emmQueue' = emmQueue
  BY <1>1, <1>2, <1>3, <1>4
  DEF EmmInv, EmmQueueOfThisChannel, ActiveIsCurrent, QueuedOnce,
      InOnePlace, Queued, Active
<1>5. CASE ~IsRepeatedEmm(m) /\ emmQueue' = Append(emmQueue, task)
  <2>1. /\ DOMAIN emmQueue' = 1 .. Len(emmQueue) + 1
        /\ \A i \in 1 .. Len(emmQueue) : emmQueue'[i] = emmQueue[i]
        /\ emmQueue'[Len(emmQueue) + 1] = task
        /\ DOMAIN emmQueue = 1 .. Len(emmQueue) /\ Len(emmQueue) \in Nat
    BY <1>1, <1>5, AppendProperties, LenProperties
  <2>2. /\ \A i \in DOMAIN emmQueue : emmQueue[i].msg # m
        /\ ~Active(m)
        /\ recentEmms'[m] = "none"
    BY <1>1, <1>5 DEF IsRepeatedEmm, Unexpired, Active
  <2>3. EmmQueueOfThisChannel'
    BY <1>1, <2>1 DEF EmmInv, EmmQueueOfThisChannel
  <2>4. QueuedOnce'
    BY <2>1, <2>2 DEF EmmInv, QueuedOnce
  <2>5. InOnePlace'
    <3> SUFFICES ASSUME NEW n \in Emms
                 PROVE  /\ Active(n)' => Queued(n)' = {}
                        /\ Active(n)' \/ Queued(n)' # {} => recentEmms'[n] = "none"
      BY DEF InOnePlace
    <3>1. Active(n)' <=> Active(n)
      BY <1>1 DEF Active
    <3>2. CASE n = m
      BY <3>1, <3>2, <2>2
    <3>3. CASE n # m
      <4>1. Queued(n)' = {} <=> Queued(n) = {}
        BY <2>1, <3>3 DEF Queued
      <4> QED
        BY <3>1, <4>1, <1>3 DEF EmmInv, InOnePlace
    <3> QED
      BY <3>2, <3>3
  <2> QED
    BY <1>1, <1>2, <2>3, <2>4, <2>5 DEF EmmInv, ActiveIsCurrent
<1> QED
  BY <1>4, <1>5 DEF OnEmm

\* The worker takes the oldest EMM from the queue to the card.
LEMMA EmmTakeEmm ==
  ASSUME TypeInv, EmmInv, TakeEmm
  PROVE  EmmInv'
<1>1. /\ emmQueue \in Seq(EmmTask) /\ emmQueue # <<>>
      /\ current' = Head(emmQueue) /\ activeEmm' = Head(emmQueue)
      /\ emmQueue' = Tail(emmQueue)
      /\ UNCHANGED <<recentEmms, generation>>
  BY DEF TakeEmm, TypeInv, TypeOK, EmmTypeOK, ecmVars
<1>2. pc'[Worker] = "emm"
  BY HandlerAssumption DEF TakeEmm, Goto, TypeInv, TypeOK, PcTypeOK, Threads
<1>3. /\ Len(emmQueue) \in Nat \ {0} /\ Len(emmQueue') = Len(emmQueue) - 1
      /\ \A i \in 1 .. Len(emmQueue') : emmQueue'[i] = emmQueue[i + 1]
      /\ DOMAIN emmQueue' = 1 .. Len(emmQueue')
      /\ DOMAIN emmQueue = 1 .. Len(emmQueue)
      /\ activeEmm' = emmQueue[1]
  BY <1>1, HeadTailProperties, LenProperties, EmptySeq
<1>4. EmmQueueOfThisChannel'
  BY <1>1, <1>3 DEF EmmInv, EmmQueueOfThisChannel
<1>5. QueuedOnce'
  <2> SUFFICES ASSUME NEW i \in DOMAIN emmQueue', NEW j \in DOMAIN emmQueue',
                      emmQueue'[i].msg = emmQueue'[j].msg
               PROVE  i = j
    BY DEF QueuedOnce
  <2>1. i + 1 \in DOMAIN emmQueue /\ j + 1 \in DOMAIN emmQueue
    BY <1>3
  <2>2. i + 1 = j + 1
    BY <2>1, <1>3 DEF EmmInv, QueuedOnce
  <2> QED
    BY <2>2, <1>3
<1>6. InOnePlace'
  <2> SUFFICES ASSUME NEW m \in Emms
               PROVE  /\ Active(m)' => Queued(m)' = {}
                      /\ Active(m)' \/ Queued(m)' # {} => recentEmms'[m] = "none"
    BY DEF InOnePlace
  <2>1. Active(m)' => emmQueue[1].msg = m
    BY <1>3 DEF Active
  <2>2. emmQueue[1].msg = m => Queued(m)' = {}
    BY <1>3 DEF EmmInv, QueuedOnce, Queued
  <2>3. Active(m)' \/ Queued(m)' # {} => Queued(m) # {}
    BY <2>1, <1>3 DEF Queued
  <2> QED
    BY <2>1, <2>2, <2>3, <1>1 DEF EmmInv, InOnePlace
<1> QED
  BY <1>1, <1>2, <1>4, <1>5, <1>6 DEF EmmInv, ActiveIsCurrent

\* A finished EMM is remembered, unless the channel has changed since.
LEMMA EmmFinishEmm ==
  ASSUME TypeInv, EmmInv, NEW result \in EmmResults,
         NEW id \in CardIds \cup {None}, FinishEmm(result, id)
  PROVE  EmmInv'
<1>1. /\ current \in EmmTask /\ activeEmm = current
      /\ recentEmms \in [Emms -> {"none", "live", "expired"}]
      /\ activeEmm' = None
      /\ UNCHANGED <<emmQueue, generation, current>>
  BY DEF FinishEmm, TypeInv, TypeOK, EmmTypeOK, CurrentTyped, EmmInv,
     ActiveIsCurrent
<1>2. pc'[Worker] = "notifyAll"
  BY HandlerAssumption
  DEF FinishEmm, ThenNotifyAll, Goto, TypeInv, TypeOK, PcTypeOK, Threads
<1>3. \A m \in Emms : ~Active(m)'
  <2> SUFFICES ASSUME NEW m \in Emms, Active(m)' PROVE FALSE
    OBVIOUS
  <2>1. [gen |-> generation, msg |-> m] \in EmmTask
    BY DEF TypeInv, TypeOK, EmmTask
  <2> QED
    BY <1>1, <2>1, HandlerAssumption DEF Active
<1>4. \A m \in Emms : Queued(m)' = Queued(m)
  BY <1>1 DEF Queued
<1>5. ASSUME NEW m \in Emms, Queued(m) # {} PROVE recentEmms'[m] = "none"
  <2>1. recentEmms[m] = "none"
    BY <1>5 DEF EmmInv, InOnePlace
  <2>2. CASE generation = current.gen
    <3>1. Active(current.msg) /\ current.msg \in Emms
      BY <1>1, <2>2 DEF Active, EmmTask
    <3>2. current.msg # m
      BY <3>1, <1>5 DEF EmmInv, InOnePlace
    <3> QED
      BY <1>1, <2>1, <2>2, <3>2 DEF FinishEmm, Remember
  <2>3. CASE generation # current.gen
    BY <2>1, <2>3 DEF FinishEmm
  <2> QED
    BY <2>2, <2>3
<1> QED
  BY <1>1, <1>2, <1>3, <1>4, <1>5
  DEF EmmInv, EmmQueueOfThisChannel, ActiveIsCurrent, QueuedOnce, InOnePlace

\* clear() empties the queue and forgets the recent EMMs; the one at the card
\* is of an earlier channel from then on.
LEMMA EmmClear ==
  ASSUME TypeInv, EmmInv, NEW c \in Callers, Clear(c)
  PROVE  EmmInv'
<1>1. /\ emmQueue' = <<>> /\ recentEmms' = [m \in Emms |-> "none"]
      /\ UNCHANGED <<activeEmm, current>>
  BY DEF Clear, ForgetTasks
<1>2. pc'[Worker] = pc[Worker]
  BY HandlerAssumption
  DEF Clear, ThenNotifyAll, Goto, TypeInv, TypeOK, PcTypeOK
<1>3. \A m \in Emms : Queued(m)' = {} /\ recentEmms'[m] = "none"
  BY <1>1 DEF Queued
<1> QED
  BY <1>1, <1>2, <1>3
  DEF EmmInv, EmmQueueOfThisChannel, ActiveIsCurrent, QueuedOnce, InOnePlace

\* Every step preserves EmmInv.
LEMMA EmmStep == TypeInv /\ EmmInv /\ [Next]_vars => EmmInv'
<1> SUFFICES ASSUME TypeInv, EmmInv, [Next]_vars PROVE EmmInv'
  OBVIOUS
<1> USE HandlerAssumption DEF TypeInv, TypeOK, PcTypeOK, Threads
<1>1. ASSUME NEW c \in Callers, NotifyOne(c) PROVE EmmInv'
  <2>1. pc'[Worker] = pc[Worker]
          \/ (pc[Worker] = "blocked" /\ pc'[Worker] = "eval")
    BY <1>1 DEF NotifyOne, Goto
  <2> QED
    BY <1>1, <2>1, EmmQuietStep DEF NotifyOne, EmmQuiet, emmVars
<1>2. ASSUME NEW t \in Threads, NotifyAll(t) PROVE EmmInv'
  <2>1. (pc'[Worker] = "emm") <=> (pc[Worker] = "emm")
    BY <1>2 DEF NotifyAll
  <2> QED
    BY <1>2, <2>1, EmmQuietStep DEF NotifyAll, EmmQuiet, emmVars
<1>3. ASSUME NEW t \in Threads, SpuriousWakeup(t) PROVE EmmInv'
  BY <1>3, EmmQuietStep DEF SpuriousWakeup, Goto, EmmQuiet, emmVars
<1>4. ASSUME NEW c \in Callers, NEW e \in Ecms, OnEcm(c, e) PROVE EmmInv'
  BY <1>4, EmmQuietStep DEF OnEcm, ThenNotifyOne, Goto, EmmQuiet, emmVars
<1>5. ASSUME NEW c \in Callers, NEW type \in Parities, Decrypt(c, type)
      PROVE EmmInv'
  <2>1. pc'[Worker] = pc[Worker]
    BY <1>5 DEF Decrypt, ReturnKey, Goto
  <2> QED
    BY <1>5, <2>1, EmmQuietStep DEF Decrypt, EmmQuiet, emmVars
<1>6. ASSUME NEW c \in Callers, WakeDecrypt(c) PROVE EmmInv'
  <2>1. pc'[Worker] = pc[Worker]
    BY <1>6 DEF WakeDecrypt, KeyStillWanted, ReturnKey, Goto
  <2> QED
    BY <1>6, <2>1, EmmQuietStep DEF WakeDecrypt, EmmQuiet, emmVars
<1>7. ASSUME NEW c \in Callers, TimeoutDecrypt(c) PROVE EmmInv'
  BY <1>7, EmmQuietStep DEF TimeoutDecrypt, Goto, EmmQuiet, emmVars
<1>8. ASSUME NEW c \in Callers, FinishDecrypt(c) PROVE EmmInv'
  BY <1>8, EmmQuietStep DEF FinishDecrypt, Goto, EmmQuiet, emmVars
<1>9. ASSUME NEW c \in Callers, Destroy(c) PROVE EmmInv'
  BY <1>9, EmmQuietStep DEF Destroy, ThenNotifyOne, Goto, EmmQuiet, emmVars
<1>10. CASE WorkerBlocks \/ WorkerExits \/ TakeEcm
  BY <1>10, EmmQuietStep
  DEF WorkerBlocks, WorkerExits, TakeEcm, Goto, EmmQuiet, emmVars
<1>11. ASSUME NEW ok \in BOOLEAN, NEW id \in CardIds \cup {None},
              FinishEcm(ok, id)
       PROVE EmmInv'
  <2>1. pc[Worker] = "ecm" /\ pc'[Worker] = "notifyAll"
    BY <1>11 DEF FinishEcm, ThenNotifyAll, Goto
  <2>2. UNCHANGED <<emmQueue, activeEmm, recentEmms, generation>>
    BY <1>11 DEF FinishEcm
  <2> QED
    BY <2>1, <2>2, EmmQuietStep DEF EmmQuiet
<1>12. CASE RetryIntervalElapses
  BY <1>12, EmmQuietStep DEF RetryIntervalElapses, EmmQuiet, emmVars
<1>13. ASSUME NEW m \in Emms, RecentEmmExpires(m) PROVE EmmInv'
  <2>1. /\ recentEmms[m] = "live"
        /\ \A n \in Emms \ {m} : recentEmms'[n] = recentEmms[n]
        /\ UNCHANGED <<emmQueue, activeEmm, generation, current, pc>>
    BY <1>13 DEF RecentEmmExpires, EmmTypeOK
  <2> QED
    BY <2>1
    DEF EmmInv, EmmQueueOfThisChannel, ActiveIsCurrent, QueuedOnce,
        InOnePlace, Queued, Active
<1>14. CASE UNCHANGED vars
  BY <1>14, EmmQuietStep DEF vars, EmmQuiet, emmVars
<1>15. QED
  BY <1>1, <1>2, <1>3, <1>4, <1>5, <1>6, <1>7, <1>8, <1>9, <1>10, <1>11,
     <1>12, <1>13, <1>14, EmmOnEmm, EmmClear, EmmTakeEmm, EmmFinishEmm
  DEF Next, CallerStep, CallerBegins, WorkerStep, Environment, Terminated

-----------------------------------------------------------------------------
TaskInv == KeyInv /\ EmmInv

\* The inductive invariant of both kinds of tasks holds in every reachable state.
LEMMA TaskInvariant == Spec => []TaskInv
<1>1. Init => EmmInv
  BY EmmInit
<1>2. TypeInv /\ EmmInv /\ [Next]_vars => EmmInv'
  BY EmmStep
<1>3. KeyInv => TypeInv
  BY DEF KeyInv
<1>4. QED
  BY <1>1, <1>2, <1>3, KeyInvariant, PTL DEF Spec, TaskInv

\* An EMM is in one place at a time, the card and the deque of the recent ones
\* included, whichever channel its answer comes back on.
THEOREM EmmInOnePlace == Spec => []EachEmmOnce
<1>1. TaskInv => EachEmmOnce
  <2> SUFFICES ASSUME TaskInv, NEW m \in Emms
               PROVE  /\ Cardinality(Queued(m)) <= 1
                      /\ Active(m) => Queued(m) = {}
                      /\ Active(m) \/ Queued(m) # {} => recentEmms[m] = "none"
    BY DEF EachEmmOnce, Queued, Active
  <2>1. CASE Queued(m) = {}
    BY <2>1, FS_EmptySet DEF TaskInv, EmmInv, InOnePlace
  <2>2. CASE Queued(m) # {}
    <3>1. PICK i : i \in Queued(m)
      BY <2>2
    <3>2. Queued(m) = {i}
      BY <3>1 DEF Queued, TaskInv, EmmInv, QueuedOnce
    <3>3. Cardinality(Queued(m)) = 1
      BY <3>2, FS_Singleton
    <3> QED
      BY <3>3, <2>2 DEF TaskInv, EmmInv, InOnePlace
  <2> QED
    BY <2>1, <2>2
<1>2. QED
  BY <1>1, TaskInvariant, PTL

\* The worker takes only tasks of the tuned channel to the card, of either kind:
\* clear() leaves none of an earlier one in the queues.
THEOREM CancelledTasksStay == Spec => CancelledTaskNeverSent
<1> DEFINE Sent ==
      pc[Worker] = "eval" /\ pc'[Worker] \in {"ecm", "emm"}
        => current'.gen = generation
<1>1. TaskInv /\ [Next]_vars => [Sent]_vars
  <2> SUFFICES ASSUME TaskInv, Next,
                      pc[Worker] = "eval", pc'[Worker] \in {"ecm", "emm"}
               PROVE  current'.gen = generation
    BY DEF vars
  <2> USE HandlerAssumption
          DEF TaskInv, KeyInv, TypeInv, TypeOK, PcTypeOK, Threads
  <2>1. TakeEcm \/ TakeEmm
    <3>1. ASSUME NEW c \in Callers, CallerStep(c) \/ CallerBegins(c)
          PROVE  pc'[Worker] = "eval"
      <4>1. ASSUME NotifyOne(c) PROVE pc'[Worker] = "eval"
        BY <4>1 DEF NotifyOne, Goto
      <4>2. ASSUME NotifyAll(c) PROVE pc'[Worker] = "eval"
        BY <4>2 DEF NotifyAll
      <4>3. ASSUME WakeDecrypt(c) \/ FinishDecrypt(c)
            PROVE  pc'[Worker] = "eval"
        BY <4>3 DEF WakeDecrypt, ReturnKey, FinishDecrypt, Goto
      <4>4. ASSUME NEW e \in Ecms, OnEcm(c, e) PROVE pc'[Worker] = "eval"
        BY <4>4 DEF OnEcm, ThenNotifyOne, Goto
      <4>5. ASSUME NEW m \in Emms, OnEmm(c, m) PROVE pc'[Worker] = "eval"
        BY <4>5 DEF OnEmm, ThenNotifyOne, Goto
      <4>6. ASSUME NEW type \in Parities, Decrypt(c, type)
            PROVE  pc'[Worker] = "eval"
        BY <4>6 DEF Decrypt, ReturnKey, Goto
      <4>7. ASSUME Clear(c) \/ Destroy(c) PROVE pc'[Worker] = "eval"
        BY <4>7 DEF Clear, Destroy, ThenNotifyAll, ThenNotifyOne, Goto
      <4> QED
        BY <3>1, <4>1, <4>2, <4>3, <4>4, <4>5, <4>6, <4>7
        DEF CallerStep, CallerBegins
    <3>2. ASSUME Environment \/ Terminated PROVE pc'[Worker] = "eval"
      <4>1. ASSUME NEW c \in Callers, TimeoutDecrypt(c)
            PROVE  pc'[Worker] = "eval"
        BY <4>1 DEF TimeoutDecrypt, Goto
      <4>2. ASSUME NEW t \in Threads, SpuriousWakeup(t)
            PROVE  pc'[Worker] = "eval"
        BY <4>2 DEF SpuriousWakeup, Goto
      <4> QED
        BY <3>2, <4>1, <4>2
        DEF Environment, Terminated, RetryIntervalElapses, RecentEmmExpires,
            vars
    <3>3. ASSUME WorkerStep PROVE TakeEcm \/ TakeEmm
      <4>1. ~WorkerBlocks /\ ~WorkerExits
        BY DEF WorkerBlocks, WorkerExits, Goto
      <4>2. ~NotifyAll(Worker)
        BY DEF NotifyAll
      <4> QED
        BY <3>3, <4>1, <4>2 DEF WorkerStep, FinishEcm, FinishEmm
    <3> QED
      BY <3>1, <3>2, <3>3 DEF Next
  <2>2. CASE TakeEcm
    <3>1. queue \in Seq(EcmTask) /\ queue # <<>> /\ current' = Head(queue)
      BY <2>2 DEF TakeEcm, EcmTypeOK
    <3>2. current' = queue[1] /\ 1 \in DOMAIN queue
      BY <3>1, HeadTailProperties, LenProperties, EmptySeq
    <3> QED
      BY <3>2 DEF EcmInv, EcmQueueOfThisChannel
  <2>3. CASE TakeEmm
    <3>1. /\ emmQueue \in Seq(EmmTask) /\ emmQueue # <<>>
          /\ current' = Head(emmQueue)
      BY <2>3 DEF TakeEmm, EmmTypeOK
    <3>2. current' = emmQueue[1] /\ 1 \in DOMAIN emmQueue
      BY <3>1, HeadTailProperties, LenProperties, EmptySeq
    <3> QED
      BY <3>2 DEF EmmInv, EmmQueueOfThisChannel
  <2> QED
    BY <2>1, <2>2, <2>3
<1>2. QED
  BY <1>1, TaskInvariant, PTL DEF Spec, CancelledTaskNeverSent

-----------------------------------------------------------------------------
(* The rejected ECM.  RejectedEcmNotRetried is inductive with TypeInv and  *)
(* EcmInv: the step that records a rejection is the one that finds nothing *)
(* else unanswered.                                                        *)

\* None of the ECMs unanswered is the rejected one.
NotRetried ==
  /\ \A i \in DOMAIN queue : queue[i].msg # failedEcm
  /\ workerBusy /\ current.gen = generation => current.msg # failedEcm

\* Nothing that NotRetried speaks of has changed, but that the rejected ECM may
\* have been forgotten.
RetryQuiet ==
  /\ UNCHANGED <<queue, workerBusy, generation>>
  /\ failedEcm' \in {None, failedEcm}
  /\ workerBusy => UNCHANGED current

\* A quiet step preserves NotRetried.
LEMMA RetryQuietStep ==
  TypeInv /\ EcmInv /\ NotRetried /\ RetryQuiet => NotRetried'
<1> SUFFICES ASSUME TypeInv, EcmInv, NotRetried, RetryQuiet PROVE NotRetried'
  OBVIOUS
<1>1. \A i \in DOMAIN queue : queue[i].msg \in Ecms
  <2>1. queue \in Seq(EcmTask)
    BY DEF TypeInv, TypeOK, EcmTypeOK
  <2>2. \A i \in DOMAIN queue : queue[i] \in EcmTask
    BY <2>1, ElementOfSeq, LenProperties
  <2> QED
    BY <2>2 DEF EcmTask
<1>2. workerBusy => current.msg \in Ecms
  BY DEF TypeInv, CurrentTyped, EcmInv, BusyWithEcm, EcmTask
<1> QED
  BY <1>1, <1>2, HandlerAssumption DEF NotRetried, RetryQuiet

\* Every step preserves NotRetried.
LEMMA RetryStep == TypeInv /\ EcmInv /\ NotRetried /\ [Next]_vars => NotRetried'
<1> SUFFICES ASSUME TypeInv, EcmInv, NotRetried, [Next]_vars PROVE NotRetried'
  OBVIOUS
<1>1. ASSUME NEW c \in Callers, NEW e \in Ecms, OnEcm(c, e) PROVE NotRetried'
  <2> DEFINE task == [gen |-> generation, msg |-> e]
  <2>1. queue \in Seq(EcmTask) /\ task \in EcmTask
    BY DEF TypeInv, TypeOK, EcmTypeOK, EcmTask
  <2>2. /\ queue' = Append(queue, task) /\ failedEcm # e
        /\ UNCHANGED <<failedEcm, workerBusy, generation, current>>
    BY <1>1 DEF OnEcm, IsRepeatedEcm
  <2>3. /\ DOMAIN queue' = 1 .. Len(queue) + 1
        /\ \A i \in 1 .. Len(queue) : queue'[i] = queue[i]
        /\ queue'[Len(queue) + 1] = task
        /\ DOMAIN queue = 1 .. Len(queue) /\ Len(queue) \in Nat
    BY <2>1, <2>2, AppendProperties, LenProperties
  <2>4. ASSUME NEW i \in DOMAIN queue' PROVE queue'[i].msg # failedEcm'
    <3>1. CASE i \in DOMAIN queue
      BY <3>1, <2>2, <2>3 DEF NotRetried
    <3>2. CASE i = Len(queue) + 1
      BY <3>2, <2>2, <2>3
    <3> QED
      BY <3>1, <3>2, <2>3
  <2> QED
    BY <2>2, <2>4 DEF NotRetried
<1>2. ASSUME NEW c \in Callers, Clear(c) PROVE NotRetried'
  <2>1. queue' = <<>> /\ failedEcm' = None /\ UNCHANGED <<workerBusy, current>>
    BY <1>2 DEF Clear, ForgetTasks
  <2>2. workerBusy => current.msg \in Ecms
    BY DEF TypeInv, CurrentTyped, EcmInv, BusyWithEcm, EcmTask
  <2> QED
    BY <2>1, <2>2, HandlerAssumption DEF NotRetried
<1>3. CASE TakeEcm
  <2>1. /\ queue \in Seq(EcmTask) /\ queue # <<>>
        /\ current' = Head(queue) /\ queue' = Tail(queue)
        /\ UNCHANGED <<failedEcm, generation>>
    BY <1>3 DEF TakeEcm, TypeInv, TypeOK, EcmTypeOK
  <2>2. /\ Len(queue) \in Nat \ {0} /\ Len(queue') = Len(queue) - 1
        /\ \A i \in 1 .. Len(queue') : queue'[i] = queue[i + 1]
        /\ DOMAIN queue' = 1 .. Len(queue') /\ DOMAIN queue = 1 .. Len(queue)
        /\ current' = queue[1]
    BY <2>1, HeadTailProperties, LenProperties, EmptySeq
  <2>3. 1 \in DOMAIN queue /\ \A i \in DOMAIN queue' : i + 1 \in DOMAIN queue
    BY <2>2
  <2> QED
    BY <2>1, <2>2, <2>3 DEF NotRetried
<1>4. ASSUME NEW ok \in BOOLEAN, NEW id \in CardIds \cup {None},
             FinishEcm(ok, id)
      PROVE  NotRetried'
  <2>1. ~workerBusy' /\ UNCHANGED <<queue, generation, current>>
    BY <1>4 DEF FinishEcm
  <2>2. CASE StillCurrent
    BY <2>1, <2>2 DEF StillCurrent, NotRetried
  <2>3. CASE ~StillCurrent
    BY <1>4, <2>1, <2>3 DEF FinishEcm, NotRetried
  <2> QED
    BY <2>2, <2>3
<1>5. CASE TakeEmm
  <2>1. ~workerBusy
    BY <1>5 DEF TakeEmm, EcmInv, BusyWithEcm
  <2> QED
    BY <1>5, <2>1, RetryQuietStep DEF TakeEmm, RetryQuiet, ecmVars
<1>6. ASSUME NEW result \in EmmResults, NEW id \in CardIds \cup {None},
             FinishEmm(result, id)
      PROVE  NotRetried'
  BY <1>6, RetryQuietStep DEF FinishEmm, RetryQuiet
<1>7. CASE RetryIntervalElapses
  BY <1>7, RetryQuietStep DEF RetryIntervalElapses, RetryQuiet
<1>8. ASSUME NEW c \in Callers,
             \/ CallerStep(c) \/ TimeoutDecrypt(c) \/ Destroy(c)
             \/ \E m \in Emms : OnEmm(c, m)
             \/ \E type \in Parities : Decrypt(c, type)
      PROVE  NotRetried'
  BY <1>8, RetryQuietStep
  DEF CallerStep, NotifyOne, NotifyAll, WakeDecrypt, FinishDecrypt,
      TimeoutDecrypt, Destroy, OnEmm, Decrypt, RetryQuiet, ecmVars
<1>9. ASSUME \/ WorkerBlocks \/ WorkerExits \/ NotifyAll(Worker)
             \/ \E t \in Threads : SpuriousWakeup(t)
             \/ \E m \in Emms : RecentEmmExpires(m)
             \/ UNCHANGED vars
      PROVE  NotRetried'
  BY <1>9, RetryQuietStep
  DEF WorkerBlocks, WorkerExits, NotifyAll, SpuriousWakeup, RecentEmmExpires,
      vars, RetryQuiet, ecmVars
<1>10. QED
  BY <1>1, <1>2, <1>3, <1>4, <1>5, <1>6, <1>7, <1>8, <1>9
  DEF Next, CallerBegins, WorkerStep, Environment, Terminated

\* The ECM that the card has rejected is not put to it again before its retry
\* interval is over, however many threads hand it over meanwhile.
THEOREM RejectedEcmStays == Spec => []RejectedEcmNotRetried
<1>1. Init => NotRetried
  BY DEF Init, NotRetried
<1>2. KeyInv /\ NotRetried /\ [Next]_vars => NotRetried'
  BY RetryStep DEF KeyInv
<1>3. NotRetried => RejectedEcmNotRetried
  BY DEF NotRetried, RejectedEcmNotRetried, UnansweredEcms
<1>4. QED
  BY <1>1, <1>2, <1>3, KeyInvariant, PTL DEF Spec

-----------------------------------------------------------------------------
(* Refinement: every step of the handler is a step of KeyService, or one   *)
(* that its callers do not see.                                            *)

Waiting(c) == pc[c] \in {"blocked", "eval"}

\* What the service's variables stand for.
asked     == [c \in Callers |-> IF Waiting(c) THEN request[c].gen ELSE None]
published == IF keyValid THEN key ELSE None

\* A step that leaves the key, the questions and the answers alone.
Unseen ==
  /\ UNCHANGED <<generation, keyValid, key, request, got>>
  /\ \A c \in Callers : Waiting(c)' <=> Waiting(c)

\* The service does not see it.
LEMMA UnseenStutters == Unseen => UNCHANGED Service!vars
<1> SUFFICES ASSUME Unseen PROVE UNCHANGED Service!vars
  OBVIOUS
<1>1. asked' = asked
  BY DEF Unseen, asked
<1> QED
  BY <1>1 DEF Unseen, asked, Waiting, Service!vars

\* One caller's question is changed to v, and no other's.
LEMMA AskedBy ==
  ASSUME NEW c \in Callers, NEW v,
         \A d \in Callers \ {c} :
           (Waiting(d)' <=> Waiting(d)) /\ request'[d] = request[d],
         v = IF Waiting(c)' THEN request'[c].gen ELSE None
  PROVE  asked' = [asked EXCEPT ![c] = v]
  BY DEF asked

\* The initial state of the handler is one of the service.
LEMMA ServiceInit == Init => Service!Init
<1> SUFFICES ASSUME Init PROVE Service!Init
  OBVIOUS
<1>1. \A c \in Callers : pc[c] = "idle"
  BY HandlerAssumption DEF Init, Threads
<1> QED
  BY <1>1 DEF Init, Service!Init

\* Every step of the handler is one of the service, or not seen by it.
LEMMA ServiceStep == KeyInv /\ [Next]_vars => [Service!Next]_(Service!vars)
<1> SUFFICES ASSUME KeyInv, [Next]_vars
             PROVE  Service!Next \/ UNCHANGED Service!vars
  OBVIOUS
<1> USE HandlerAssumption DEF KeyInv, TypeInv, TypeOK, PcTypeOK, Threads
<1>1. ASSUME NEW c \in Callers, Clear(c) PROVE Service!Next
  <2>1. /\ generation' = generation + 1 /\ ~keyValid'
        /\ UNCHANGED <<request, got>>
    BY <1>1 DEF Clear, ForgetKey
  <2>2. \A d \in Callers : Waiting(d)' <=> Waiting(d)
    BY <1>1 DEF Clear, Ready, ThenNotifyAll, Goto, Waiting
  <2>3. asked' = asked
    BY <2>1, <2>2 DEF asked
  <2>4. Service!Tune
    BY <2>1, <2>3 DEF Service!Tune, asked, Waiting
  <2> QED
    BY <2>4 DEF Service!Next
<1>2. ASSUME NEW c \in Callers, NEW type \in Parities, Decrypt(c, type)
      PROVE  Service!Next
  <2>1. /\ pc[c] = "idle" /\ got[c] = None
        /\ request' = [request EXCEPT ![c] = [type |-> type, gen |-> generation]]
        /\ UNCHANGED <<generation, keyValid, key>>
    BY <1>2 DEF Decrypt, Ready, CallInv, KeyHeldWhileDecrypting, ecmVars
  <2>2. CASE keyValid /\ ReturnKey(c, type)
    <3>1. /\ got' = [got EXCEPT ![c] = key] /\ key # None
          /\ \A d \in Callers : Waiting(d)' <=> Waiting(d)
      BY <2>1, <2>2 DEF ReturnKey, Goto, Waiting, EcmInv, KeyOfThisChannel
    <3>2. asked' = asked
      BY <2>1, <3>1 DEF asked, Waiting, CallTypeOK
    <3>3. Service!AnswerAtOnce(c)
      BY <2>1, <2>2, <3>1, <3>2 DEF Service!AnswerAtOnce, Service!Free, asked, Waiting
    <3> QED
      BY <3>3 DEF Service!Next
  <2>3. CASE Goto(c, "blocked") /\ UNCHANGED got
    <3>1. /\ Waiting(c)' /\ ~Waiting(c)
          /\ \A d \in Callers \ {c} :
               (Waiting(d)' <=> Waiting(d)) /\ request'[d] = request[d]
      BY <2>1, <2>3 DEF Goto, Waiting, CallTypeOK
    <3>2. request'[c].gen = generation
      BY <2>1 DEF CallTypeOK
    <3>3. asked' = [asked EXCEPT ![c] = generation]
      BY <3>1, <3>2, AskedBy
    <3>4. Service!Ask(c)
      BY <2>1, <2>3, <3>1, <3>3 DEF Service!Ask, Service!Free, asked, Waiting
    <3> QED
      BY <3>4 DEF Service!Next
  <2> QED
    BY <1>2, <2>2, <2>3 DEF Decrypt
<1>3. ASSUME NEW c \in Callers, WakeDecrypt(c)
      PROVE  Service!Next \/ UNCHANGED Service!vars
  <2>1. /\ pc[c] = "eval" /\ request[c] # None /\ request[c] \in Request
        /\ UNCHANGED <<generation, keyValid, key, request>>
    BY <1>3 DEF WakeDecrypt, ecmVars, RequestKnown, CallTypeOK
  <2>2. CASE Goto(c, "blocked") /\ UNCHANGED got
    BY <2>1, <2>2, UnseenStutters DEF Goto, Unseen, Waiting
  <2>3. CASE KeyStillWanted(c) /\ ReturnKey(c, request[c].type)
    <3>1. /\ got' = [got EXCEPT ![c] = key] /\ key # None
          /\ keyValid /\ request[c].gen = generation
          /\ ~Waiting(c)' /\ Waiting(c)
          /\ \A d \in Callers \ {c} : Waiting(d)' <=> Waiting(d)
      BY <2>1, <2>3
      DEF KeyStillWanted, ReturnKey, Goto, Waiting, EcmInv, KeyOfThisChannel
    <3>2. asked' = [asked EXCEPT ![c] = None]
      BY <2>1, <3>1, AskedBy
    <3>3. Service!Answer(c)
      BY <2>1, <3>1, <3>2 DEF Service!Answer, asked, Waiting
    <3> QED
      BY <3>3 DEF Service!Next
  <2>4. CASE Goto(c, "idle") /\ UNCHANGED got
    <3>1. /\ ~Waiting(c)' /\ Waiting(c)
          /\ \A d \in Callers \ {c} : Waiting(d)' <=> Waiting(d)
      BY <2>1, <2>4 DEF Goto, Waiting
    <3>2. asked' = [asked EXCEPT ![c] = None]
      BY <2>1, <3>1, AskedBy
    <3>3. request[c].gen # None
      BY <2>1, HandlerAssumption DEF Request
    <3>4. Service!Refuse(c)
      BY <2>1, <2>4, <3>1, <3>2, <3>3 DEF Service!Refuse, asked, Waiting
    <3> QED
      BY <3>4 DEF Service!Next
  <2> QED
    BY <1>3, <2>2, <2>3, <2>4 DEF WakeDecrypt
<1>4. ASSUME NEW c \in Callers, FinishDecrypt(c)
      PROVE  Service!Next \/ UNCHANGED Service!vars
  <2>1. /\ got' = [got EXCEPT ![c] = None]
        /\ UNCHANGED <<generation, keyValid, key, request>>
        /\ \A d \in Callers : Waiting(d)' <=> Waiting(d)
    BY <1>4 DEF FinishDecrypt, Goto, Waiting, ecmVars
  <2>2. CASE got[c] = None
    BY <2>1, <2>2, UnseenStutters DEF Unseen, CallTypeOK
  <2>3. CASE got[c] # None
    <3>1. asked' = asked
      BY <2>1 DEF asked
    <3>2. Service!Use(c)
      BY <2>1, <2>3, <3>1 DEF Service!Use, asked, Waiting
    <3> QED
      BY <3>2 DEF Service!Next
  <2> QED
    BY <2>2, <2>3
<1>5. ASSUME NEW ok \in BOOLEAN, NEW id \in CardIds \cup {None},
             FinishEcm(ok, id)
      PROVE  Service!Next \/ UNCHANGED Service!vars
  <2>1. /\ current \in EcmTask
        /\ UNCHANGED <<generation, request, got>>
        /\ \A d \in Callers : Waiting(d)' <=> Waiting(d)
    BY <1>5
    DEF FinishEcm, ThenNotifyAll, Goto, Waiting, callVars, CurrentTyped
  <2>2. asked' = asked
    BY <2>1 DEF asked
  <2>3. CASE StillCurrent /\ ok
    <3>1. /\ keyValid' /\ key' = current /\ current.gen = generation
      BY <1>5, <2>3 DEF FinishEcm, StillCurrent, PublishOrReject
    <3>2. current = [gen |-> generation, msg |-> current.msg] /\ current.msg \in Ecms
      BY <2>1, <3>1 DEF EcmTask
    <3>3. Service!Publish(current.msg)
      BY <2>1, <2>2, <3>1, <3>2 DEF Service!Publish, asked, Waiting
    <3> QED
      BY <3>2, <3>3 DEF Service!Next
  <2>4. CASE StillCurrent /\ ~ok
    <3>1. ~keyValid'
      BY <1>5, <2>4 DEF FinishEcm, PublishOrReject
    <3>2. Service!Withdraw
      BY <2>1, <2>2, <3>1 DEF Service!Withdraw, asked, Waiting
    <3> QED
      BY <3>2 DEF Service!Next
  <2>5. CASE ~StillCurrent
    <3>1. UNCHANGED <<keyValid, key>>
      BY <1>5, <2>5 DEF FinishEcm
    <3> QED
      BY <2>1, <3>1, UnseenStutters DEF Unseen
  <2> QED
    BY <2>3, <2>4, <2>5
<1>6. ASSUME NEW c \in Callers, NotifyOne(c) PROVE UNCHANGED Service!vars
  <2>1. \A d \in Callers : Waiting(d)' <=> Waiting(d)
    <3>1. CASE Goto(c, "idle")
      BY <1>6, <3>1 DEF NotifyOne, Goto, Waiting
    <3>2. ASSUME NEW t \in Threads, pc[t] = "blocked",
                 pc' = [pc EXCEPT ![c] = "idle", ![t] = "eval"]
          PROVE  \A d \in Callers : Waiting(d)' <=> Waiting(d)
      BY <1>6, <3>2 DEF NotifyOne, Waiting
    <3> QED
      BY <1>6, <3>1, <3>2 DEF NotifyOne
  <2> QED
    BY <1>6, <2>1, UnseenStutters DEF NotifyOne, Unseen, ecmVars, callVars
<1>7. ASSUME NEW t \in Threads, NotifyAll(t) PROVE UNCHANGED Service!vars
  <2>1. \A d \in Callers : Waiting(d)' <=> Waiting(d)
    BY <1>7 DEF NotifyAll, Waiting
  <2> QED
    BY <1>7, <2>1, UnseenStutters DEF NotifyAll, Unseen, ecmVars, callVars
<1>8. ASSUME NEW t \in Threads, SpuriousWakeup(t) PROVE UNCHANGED Service!vars
  BY <1>8, UnseenStutters
  DEF SpuriousWakeup, Goto, Waiting, Unseen, ecmVars, callVars
<1>9. ASSUME NEW c \in Callers, NEW e \in Ecms, OnEcm(c, e)
      PROVE  UNCHANGED Service!vars
  BY <1>9, UnseenStutters
  DEF OnEcm, Ready, ThenNotifyOne, Goto, Waiting, Unseen, callVars
<1>10. ASSUME NEW c \in Callers, NEW m \in Emms, OnEmm(c, m)
       PROVE  UNCHANGED Service!vars
  <2>1. \A d \in Callers : Waiting(d)' <=> Waiting(d)
    BY <1>10 DEF OnEmm, Ready, ThenNotifyOne, Goto, Waiting
  <2> QED
    BY <1>10, <2>1, UnseenStutters DEF OnEmm, Unseen, ecmVars, callVars
<1>11. ASSUME NEW c \in Callers, TimeoutDecrypt(c) PROVE Service!Next
  <2>1. /\ pc[c] = "blocked" /\ request[c] \in Request
        /\ UNCHANGED <<generation, keyValid, key, request, got>>
    BY <1>11
    DEF TimeoutDecrypt, ecmVars, callVars, RequestKnown, CallTypeOK
  <2>2. /\ ~Waiting(c)' /\ Waiting(c)
        /\ \A d \in Callers \ {c} : Waiting(d)' <=> Waiting(d)
    BY <1>11, <2>1 DEF TimeoutDecrypt, Goto, Waiting
  <2>3. asked' = [asked EXCEPT ![c] = None]
    BY <2>1, <2>2, AskedBy
  <2>4. request[c].gen # None
    BY <2>1 DEF Request
  <2>5. Service!Refuse(c)
    BY <2>1, <2>2, <2>3, <2>4 DEF Service!Refuse, asked, Waiting
  <2> QED
    BY <2>5 DEF Service!Next
<1>12. ASSUME NEW c \in Callers, Destroy(c) PROVE UNCHANGED Service!vars
  BY <1>12, UnseenStutters
  DEF Destroy, ThenNotifyOne, Goto, Waiting, Unseen, ecmVars, callVars
<1>13. CASE WorkerBlocks \/ WorkerExits \/ TakeEcm \/ TakeEmm
  BY <1>13, UnseenStutters
  DEF WorkerBlocks, WorkerExits, TakeEcm, TakeEmm, Goto, Waiting, Unseen,
      ecmVars, callVars
<1>14. ASSUME NEW result \in EmmResults, NEW id \in CardIds \cup {None},
              FinishEmm(result, id)
       PROVE  UNCHANGED Service!vars
  BY <1>14, UnseenStutters
  DEF FinishEmm, ThenNotifyAll, Goto, Waiting, Unseen, callVars
<1>15. CASE RetryIntervalElapses \/ \E m \in Emms : RecentEmmExpires(m)
  BY <1>15, UnseenStutters
  DEF RetryIntervalElapses, RecentEmmExpires, Waiting, Unseen, ecmVars,
      callVars
<1>16. CASE UNCHANGED vars
  BY <1>16, UnseenStutters DEF vars, Waiting, Unseen, ecmVars, callVars
<1>17. QED
  BY <1>1, <1>2, <1>3, <1>4, <1>5, <1>6, <1>7, <1>8, <1>9, <1>10, <1>11,
     <1>12, <1>13, <1>14, <1>15, <1>16
  DEF Next, CallerStep, CallerBegins, WorkerStep, Environment, Terminated

\* Seen by its callers the handler is a KeyService, but for the promise that
\* every question is answered, which needs fairness.
THEOREM HandlerIsKeyService == Spec => Service!SafeSpec
<1>1. Init => Service!Init
  BY ServiceInit
<1>2. KeyInv /\ [Next]_vars => [Service!Next]_(Service!vars)
  BY ServiceStep
<1>3. QED
  BY <1>1, <1>2, KeyInvariant, PTL DEF Spec, Service!SafeSpec

-----------------------------------------------------------------------------
(* The handler in a broadcast.  A key can be used for a packet that the    *)
(* handler did not wait for only because the parity is that of the last    *)
(* key; so the invariant says how old the key may be, by that parity, by   *)
(* what the card has still to answer, and by whether a packet of the       *)
(* period before was answered.                                             *)

\* The newest ECM accepted is of this period, or of the last one until one of
\* this period has been heard.
NewestOnAir ==
  ecmReady =>
    /\ lastEcm.station = onAir.station
    /\ lastEcm.period \in {onAir.period - 1, onAir.period}
    /\ heard => lastEcm = onAir

\* The ECM that was rejected is not a later one; that of this period has not been
\* accepted since.
FailedOnAir ==
  failedEcm # None =>
    /\ failedEcm.station = onAir.station /\ failedEcm.period <= onAir.period
    /\ failedEcm = onAir => ~ecmReady

\* The key in use is of the tuned station; it is one period old at most if the last
\* key was returned for a packet of this parity, and not two periods ago.
KeyOnAir ==
  keyValid =>
    /\ ecmReady
    /\ key.msg.station = onAir.station /\ key.msg.period <= onAir.period
    /\ lastKeyType = ParityOf(onAir.period) /\ ~gaveUp => key.msg.period >= onAir.period - 1

AsksForKey(c) == pc[c] \in {"blocked", "eval"}

UnansweredEcm == queue # <<>> \/ (workerBusy /\ current.gen = generation)

\* A packet of this period that was answered without a key found no key and no ECM
\* unanswered: what is accepted afterwards is this period's ECM.
AfterPacket ==
  handed = "answered" /\ lastKeyType # ParityOf(onAir.period) =>
    /\ keyValid => key.msg.period = onAir.period
    /\ UnansweredEcm => lastEcm = onAir

\* The broadcast does not move on while a call lasts.
CallsOnAir ==
  \A c \in Callers :
    /\ AsksForKey(c) =>
         /\ packet = onAir
         /\ request[c] = [type |-> ParityOf(onAir.period), gen |-> generation]
    /\ got[c] # None =>
         /\ packet = onAir
         /\ got[c].msg.station = onAir.station
         /\ ~gaveUp => got[c].msg.period \in {onAir.period - 1, onAir.period}

StreamInv ==
  /\ onAir \in [station : Stations, period : 0..MaxPeriod]
  /\ handed \in {"none", "asked", "answered"}
  /\ NewestOnAir /\ FailedOnAir /\ KeyOnAir /\ AfterPacket /\ CallsOnAir

HandlerInv == KeyInv /\ StreamInv

\* Two periods in a row have different parities; one of two that has a given parity
\* is told by it.
LEMMA ParityAlternates ==
  ASSUME NEW p \in Nat
  PROVE  /\ ParityOf(p) \in Parities /\ ParityOf(p + 1) \in Parities
         /\ ParityOf(p + 1) # ParityOf(p)
<1>1. p % 2 = 0 <=> (p + 1) % 2 # 0
  OBVIOUS
<1> QED
  BY <1>1 DEF ParityOf, Parities

\* An ECM of this period or of the last one carries this period's key.
LEMMA EcmHasKey ==
  ASSUME NEW e, e.period \in Nat, NEW p \in Nat, e.period \in {p - 1, p}
  PROVE  KeyNumber(e, ParityOf(p)) = p
<1>1. CASE e.period = p
  BY <1>1 DEF KeyNumber
<1>2. CASE e.period = p - 1
  <2>1. p = e.period + 1
    BY <1>2
  <2>2. ParityOf(e.period) # ParityOf(p)
    BY <2>1, ParityAlternates
  <2> QED
    BY <2>1, <2>2 DEF KeyNumber
<1> QED
  BY <1>1, <1>2

\* The steps of the handler in its place are steps of the handler.
LEMMA StreamIsHandler ==
  ASSUME BroadcastAssumption, StreamInv, [StreamNext]_allVars
  PROVE  [Next]_vars
<1>1. onAir \in Ecms
  BY DEF BroadcastAssumption, StreamInv
<1>2. ParityOf(onAir.period) \in Parities
  BY DEF ParityOf, Parities
<1>3. ASSUME NEW c \in Callers, ReceiveEcm(c) PROVE [Next]_vars
  BY <1>1, <1>3 DEF ReceiveEcm, Next, CallerBegins, BroadcastAssumption
<1>4. ASSUME NEW c \in Callers, ReceivePacket(c) PROVE [Next]_vars
  BY <1>2, <1>4 DEF ReceivePacket, Next, CallerBegins, BroadcastAssumption
<1>5. ASSUME NEW c \in Callers, Retune(c) PROVE [Next]_vars
  BY <1>5 DEF Retune, Next, CallerBegins
<1>6. CASE NextPeriod
  BY <1>6 DEF NextPeriod
<1>7. ASSUME NEW c \in Callers, WakeReader(c) PROVE [Next]_vars
  BY <1>7 DEF WakeReader, Next, CallerStep
<1>8. CASE Internal
  BY <1>8 DEF Internal, Next, CallerStep
<1>9. CASE UNCHANGED allVars
  BY <1>9 DEF allVars
<1> QED
  BY <1>3, <1>4, <1>5, <1>6, <1>7, <1>8, <1>9 DEF StreamNext

\* A key that is returned when no ECM is unanswered is the newest ECM's.
LEMMA NewestKey ==
  ASSUME KeyInv, StreamInv, keyValid, ~workerBusy, queue = <<>>
  PROVE  /\ key.msg.station = onAir.station
         /\ key.msg.period \in {onAir.period - 1, onAir.period}
  BY DEF KeyInv, EcmInv, KeyOfNewestEcm, StreamInv, NewestOnAir, KeyOnAir

\* Steps that change nothing the invariant speaks of.
Quiet ==
  /\ UNCHANGED <<broadcast, lastEcm, ecmReady, keyValid, key, lastKeyType, generation,
                 request, got>>
  /\ failedEcm' \in {None, failedEcm}
  /\ \A c \in Callers : pc'[c] \in {"blocked", "eval"} => pc[c] \in {"blocked", "eval"}
  /\ UnansweredEcm' => UnansweredEcm

LEMMA QuietStep == StreamInv /\ Quiet => StreamInv'
  BY
  DEF Quiet, StreamInv, NewestOnAir, FailedOnAir, KeyOnAir, AfterPacket, CallsOnAir,
      AsksForKey, broadcast

\* A repetition of the period's ECM, new to the handler or not.
LEMMA EcmHeard ==
  ASSUME BroadcastAssumption, KeyInv, StreamInv, NEW c \in Callers, ReceiveEcm(c)
  PROVE  StreamInv'
<1>1. /\ \A d \in Callers : pc[d] = "idle" /\ ~AsksForKey(d)
      /\ heard' = TRUE /\ UNCHANGED <<onAir, handed, gaveUp, packet>>
      /\ onAir.period \in Nat
  BY DEF ReceiveEcm, NobodyCalls, AsksForKey, StreamInv, BroadcastAssumption
<1>2. CASE OnEcm(c, onAir)
  <2>1. /\ lastEcm' = onAir /\ ecmReady'
        /\ UNCHANGED <<failedEcm, keyValid, key, lastKeyType, generation, request, got>>
        /\ failedEcm # onAir
    BY <1>2 DEF OnEcm, IsRepeatedEcm, callVars
  <2>2. \A d \in Callers : ~AsksForKey(d)'
    BY <1>1, <1>2, HandlerAssumption
    DEF OnEcm, ThenNotifyOne, Goto, AsksForKey, KeyInv, TypeInv, TypeOK, PcTypeOK
  <2>3. NewestOnAir' /\ FailedOnAir' /\ KeyOnAir' /\ AfterPacket'
    BY <1>1, <2>1 DEF StreamInv, NewestOnAir, FailedOnAir, KeyOnAir, AfterPacket
  <2>4. CallsOnAir'
    BY <1>1, <2>1, <2>2 DEF StreamInv, CallsOnAir
  <2> QED
    BY <1>1, <2>3, <2>4 DEF StreamInv
<1>3. CASE IsRepeatedEcm(onAir) /\ UNCHANGED vars
  <2>1. ecmReady => lastEcm = onAir
    <3>1. onAir # None
      BY HandlerAssumption DEF BroadcastAssumption, StreamInv
    <3> QED
      BY <1>3, <3>1 DEF IsRepeatedEcm, StreamInv, FailedOnAir
  <2>2. /\ UNCHANGED <<lastEcm, failedEcm, ecmReady, keyValid, key, lastKeyType, generation,
                       request, got, pc, queue, workerBusy, current>>
    BY <1>3 DEF vars, ecmVars, callVars
  <2> QED
    BY <1>1, <2>1, <2>2
    DEF StreamInv, NewestOnAir, FailedOnAir, KeyOnAir, AfterPacket, CallsOnAir, AsksForKey,
        UnansweredEcm
<1> QED
  BY <1>2, <1>3 DEF ReceiveEcm

\* A packet that is given to decrypt.
LEMMA PacketHanded ==
  ASSUME BroadcastAssumption, KeyInv, StreamInv, NEW c \in Callers, ReceivePacket(c)
  PROVE  StreamInv'
<1> DEFINE type == ParityOf(onAir.period)
<1>1. /\ \A d \in Callers : pc[d] = "idle" /\ ~AsksForKey(d) /\ got[d] = None
      /\ packet' = onAir /\ UNCHANGED <<onAir, heard, gaveUp>>
      /\ onAir.period \in Nat
      /\ handed' \in {"asked", "answered"}
  BY DEF ReceivePacket, NobodyCalls, AsksForKey, StreamInv, BroadcastAssumption, KeyInv,
         CallInv, KeyHeldWhileDecrypting, Answered
<1>2. CASE Decrypt(c, type)
  <2>1. /\ request' = [request EXCEPT ![c] = [type |-> type, gen |-> generation]]
        /\ UNCHANGED <<lastEcm, failedEcm, ecmReady, keyValid, key, queue, workerBusy,
                       generation, current>>
    BY <1>2 DEF Decrypt, ecmVars
  <2>2. NewestOnAir' /\ FailedOnAir'
    BY <1>1, <2>1 DEF StreamInv, NewestOnAir, FailedOnAir
  <2>3. CASE keyValid /\ (lastKeyType = type \/ WaitOver(generation)) /\ ReturnKey(c, type)
    <3>1. /\ key.msg.station = onAir.station
          /\ ~gaveUp => key.msg.period \in {onAir.period - 1, onAir.period}
      <4>1. CASE lastKeyType = type
        <5>1. key.msg.period \in Nat
          BY <2>3
          DEF KeyInv, EcmInv, KeyOfThisChannel, TypeInv, TypeOK, EcmTypeOK, EcmTask,
              BroadcastAssumption
        <5> QED
          BY <1>1, <2>3, <4>1, <5>1 DEF StreamInv, KeyOnAir
      <4>2. CASE WaitOver(generation)
        BY <2>3, <4>2, NewestKey DEF WaitOver
      <4> QED
        BY <2>3, <4>1, <4>2
    <3>2. keyValid => key.msg.period \in Nat /\ key.msg.period <= onAir.period
      BY DEF KeyInv, EcmInv, KeyOfThisChannel, TypeInv, TypeOK, EcmTypeOK, EcmTask,
             BroadcastAssumption, StreamInv, KeyOnAir
    <3>3. got' = [got EXCEPT ![c] = key] /\ lastKeyType' = type
          /\ \A d \in Callers : ~AsksForKey(d)'
      BY <1>1, <2>3, HandlerAssumption
      DEF ReturnKey, Goto, AsksForKey, KeyInv, TypeInv, TypeOK, PcTypeOK
    <3>4. KeyOnAir' /\ AfterPacket'
      BY <1>1, <2>1, <3>1, <3>2, <3>3 DEF StreamInv, KeyOnAir, AfterPacket
    <3>5. CallsOnAir'
      BY <1>1, <3>1, <3>3 DEF CallsOnAir, KeyInv, TypeInv, TypeOK, CallTypeOK
    <3> QED
      BY <1>1, <2>2, <3>4, <3>5 DEF StreamInv
  <2>4. CASE Goto(c, "blocked") /\ UNCHANGED <<got, lastKeyType>>
    <3>1. pc'[c] = "blocked" /\ \A d \in Callers \ {c} : ~AsksForKey(d)'
      <4>1. pc'[c] = "blocked" /\ \A d \in Callers \ {c} : pc'[d] = pc[d]
        BY <2>4 DEF Goto, KeyInv, TypeInv, TypeOK, PcTypeOK, Threads
      <4> QED
        BY <1>1, <4>1 DEF AsksForKey
    <3>2. handed' = "answered" => handed = "answered"
      BY <3>1 DEF ReceivePacket, Answered
    <3>3. KeyOnAir' /\ AfterPacket'
      BY <1>1, <2>1, <2>4, <3>2 DEF StreamInv, KeyOnAir, AfterPacket, UnansweredEcm
    <3>4. CallsOnAir'
      BY <1>1, <2>1, <2>4, <3>1
      DEF CallsOnAir, AsksForKey, KeyInv, TypeInv, TypeOK, CallTypeOK
    <3> QED
      BY <1>1, <2>2, <3>3, <3>4 DEF StreamInv
  <2> QED
    BY <1>2, <2>3, <2>4 DEF Decrypt
<1>3. CASE ~keyValid /\ (~ecmReady \/ WaitOver(generation)) /\ UNCHANGED vars
  <2>1. ~UnansweredEcm
    BY <1>3 DEF WaitOver, UnansweredEcm, KeyInv, EcmInv, NewestEcmRemembered
  <2>2. /\ UNCHANGED <<lastEcm, failedEcm, ecmReady, keyValid, key, lastKeyType, generation,
                       request, got, pc, queue, workerBusy, current>>
    BY <1>3 DEF vars, ecmVars, callVars
  <2> QED
    BY <1>1, <1>3, <2>1, <2>2
    DEF StreamInv, NewestOnAir, FailedOnAir, KeyOnAir, AfterPacket, CallsOnAir, AsksForKey,
        UnansweredEcm
<1> QED
  BY <1>2, <1>3 DEF ReceivePacket

\* The next period: what is left of this one is a key or an ECM of it.
LEMMA PeriodEnds ==
  ASSUME BroadcastAssumption, KeyInv, StreamInv, NextPeriod
  PROVE  StreamInv'
<1>1. /\ \A d \in Callers : ~AsksForKey(d) /\ ~AsksForKey(d)' /\ got[d] = None
      /\ heard /\ ~heard' /\ handed' = "none"
      /\ handed # "none" /\ handed \in {"none", "asked", "answered"}
      /\ onAir.period \in Nat /\ onAir.period + 1 \in 0..MaxPeriod
      /\ onAir' = [onAir EXCEPT !.period = @ + 1]
      /\ onAir \in [station : Stations, period : 0..MaxPeriod]
      /\ UNCHANGED vars
  BY DEF NextPeriod, NobodyCalls, AsksForKey, StreamInv, BroadcastAssumption, KeyInv,
         CallInv, KeyHeldWhileDecrypting, vars
<1>2. UNCHANGED <<lastEcm, failedEcm, ecmReady, keyValid, key, lastKeyType, got>>
  BY <1>1 DEF vars, ecmVars, callVars
<1>3. /\ onAir'.station = onAir.station /\ onAir'.period = onAir.period + 1
      /\ onAir' \in [station : Stations, period : 0..MaxPeriod]
  BY <1>1
<1>4. NewestOnAir'
  BY <1>1, <1>2, <1>3 DEF StreamInv, NewestOnAir
<1>5. FailedOnAir'
  <2>1. failedEcm # None => failedEcm.period \in Nat
    BY DEF KeyInv, TypeInv, TypeOK, EcmTypeOK, BroadcastAssumption
  <2> QED
    BY <1>1, <1>2, <1>3, <2>1 DEF StreamInv, FailedOnAir
<1>6. gaveUp' <=> handed = "asked"
  BY Zenon DEF NextPeriod
<1>7. KeyOnAir'
  <2>1. ParityOf(onAir'.period) # ParityOf(onAir.period)
    BY <1>1, <1>3, ParityAlternates
  <2>2. keyValid => key.msg.period \in Nat
    BY DEF KeyInv, EcmInv, KeyOfThisChannel, TypeInv, TypeOK, EcmTypeOK, EcmTask,
           BroadcastAssumption
  <2> QED
    BY <1>1, <1>2, <1>3, <1>6, <2>1, <2>2 DEF StreamInv, KeyOnAir, AfterPacket
<1>8. AfterPacket' /\ CallsOnAir'
  BY <1>1, <1>2 DEF AfterPacket, CallsOnAir
<1> QED
  BY <1>1, <1>3, <1>4, <1>5, <1>7, <1>8 DEF StreamInv

\* A change of the channel leaves nothing.
LEMMA Retuned ==
  ASSUME BroadcastAssumption, KeyInv, StreamInv, NEW c \in Callers, Retune(c)
  PROVE  StreamInv'
<1>1. /\ ~ecmReady' /\ ~keyValid' /\ failedEcm' = None /\ handed' = "none" /\ UNCHANGED got
      /\ onAir' \in [station : Stations, period : 0..MaxPeriod]
  BY DEF Retune, Clear, ForgetKey, TuneTo, BroadcastAssumption
<1>2. \A d \in Callers : ~AsksForKey(d)' /\ got[d] = None
  BY HandlerAssumption
  DEF Retune, NobodyCalls, Clear, ThenNotifyAll, Goto, AsksForKey, KeyInv, TypeInv, TypeOK,
      PcTypeOK, CallInv, KeyHeldWhileDecrypting
<1> QED
  BY <1>1, <1>2
  DEF StreamInv, NewestOnAir, FailedOnAir, KeyOnAir, AfterPacket, CallsOnAir

\* A caller that waits is woken.
LEMMA CallerWakes ==
  ASSUME BroadcastAssumption, KeyInv, StreamInv, NEW c \in Callers, WakeReader(c)
  PROVE  StreamInv'
<1>1. /\ pc[c] = "eval" /\ AsksForKey(c) /\ onAir.period \in Nat
      /\ UNCHANGED <<request, lastEcm, failedEcm, ecmReady, keyValid, key, queue, workerBusy,
                     generation, current, onAir, heard, gaveUp, packet>>
  BY DEF WakeReader, WakeDecrypt, AsksForKey, ecmVars, StreamInv, BroadcastAssumption
<1>2. packet = onAir /\ request[c].type = ParityOf(onAir.period) /\ request[c].gen = generation
  BY <1>1 DEF StreamInv, CallsOnAir
<1>3. /\ NewestOnAir' /\ FailedOnAir' /\ onAir' \in [station : Stations, period : 0..MaxPeriod]
      /\ handed' \in {"none", "asked", "answered"}
  BY <1>1 DEF StreamInv, NewestOnAir, FailedOnAir, WakeReader, Answered
<1>4. CASE ~WaitOver(request[c].gen) /\ Goto(c, "blocked") /\ UNCHANGED <<got, lastKeyType>>
  <2>1. /\ \A d \in Callers : AsksForKey(d)' <=> AsksForKey(d)
        /\ pc'[c] = "blocked"
    BY <1>1, <1>4, HandlerAssumption
    DEF Goto, AsksForKey, KeyInv, TypeInv, TypeOK, PcTypeOK, Threads
  <2>2. handed' = "answered" => handed = "answered"
    BY <2>1 DEF WakeReader, Answered
  <2>3. KeyOnAir' /\ AfterPacket'
    BY <1>1, <1>4, <2>2 DEF StreamInv, KeyOnAir, AfterPacket, UnansweredEcm
  <2>4. CallsOnAir'
    BY <1>1, <1>4, <2>1 DEF StreamInv, CallsOnAir
  <2> QED
    BY <1>3, <2>3, <2>4 DEF StreamInv
<1>5. CASE WaitOver(request[c].gen) /\ KeyStillWanted(c) /\ ReturnKey(c, request[c].type)
  <2>1. keyValid /\ ~workerBusy /\ queue = <<>>
    BY <1>2, <1>5 DEF WaitOver, KeyStillWanted
  <2>2. /\ key.msg.station = onAir.station
        /\ key.msg.period \in {onAir.period - 1, onAir.period}
    BY <2>1, NewestKey
  <2>3. got' = [got EXCEPT ![c] = key] /\ lastKeyType' = ParityOf(onAir.period)
    BY <1>2, <1>5 DEF ReturnKey
  <2>4. \A d \in Callers : AsksForKey(d)' => AsksForKey(d)
    BY <1>1, <1>5, HandlerAssumption
    DEF ReturnKey, Goto, AsksForKey, KeyInv, TypeInv, TypeOK, PcTypeOK
  <2>5. KeyOnAir' /\ AfterPacket'
    BY <1>1, <2>2, <2>3 DEF StreamInv, KeyOnAir, AfterPacket
  <2>6. CallsOnAir'
    BY <1>1, <1>2, <2>2, <2>3, <2>4
    DEF StreamInv, CallsOnAir, KeyInv, TypeInv, TypeOK, CallTypeOK
  <2> QED
    BY <1>3, <2>5, <2>6 DEF StreamInv
<1>6. CASE WaitOver(request[c].gen) /\ ~KeyStillWanted(c) /\ Goto(c, "idle")
           /\ UNCHANGED <<got, lastKeyType>>
  <2>1. ~keyValid /\ ~UnansweredEcm
    BY <1>2, <1>6 DEF WaitOver, KeyStillWanted, UnansweredEcm
  <2>2. \A d \in Callers : AsksForKey(d)' => AsksForKey(d)
    BY <1>1, <1>6, HandlerAssumption
    DEF Goto, AsksForKey, KeyInv, TypeInv, TypeOK, PcTypeOK
  <2> QED
    BY <1>1, <1>3, <1>6, <2>1, <2>2
    DEF StreamInv, KeyOnAir, AfterPacket, CallsOnAir, UnansweredEcm
<1> QED
  BY <1>4, <1>5, <1>6 DEF WakeReader, WakeDecrypt

\* The card's answer to an ECM.
LEMMA CardAnswers ==
  ASSUME BroadcastAssumption, KeyInv, StreamInv, NEW ok \in BOOLEAN,
         NEW id \in CardIds \cup {None}, FinishEcm(ok, id), UNCHANGED broadcast
  PROVE  StreamInv'
<1>1. /\ workerBusy /\ ~workerBusy'
      /\ UNCHANGED <<queue, request, got, lastKeyType, generation, current, onAir, heard, handed,
                     gaveUp, packet>>
      /\ onAir.period \in Nat
  BY DEF FinishEcm, callVars, broadcast, StreamInv, BroadcastAssumption, KeyInv, EcmInv,
         BusyWithEcm
<1>2. \A d \in Callers : AsksForKey(d)' <=> AsksForKey(d)
  BY HandlerAssumption
  DEF FinishEcm, ThenNotifyAll, Goto, AsksForKey, KeyInv, TypeInv, TypeOK, PcTypeOK
<1>3. /\ CallsOnAir' /\ onAir' \in [station : Stations, period : 0..MaxPeriod]
      /\ handed' \in {"none", "asked", "answered"}
  BY <1>1, <1>2 DEF StreamInv, CallsOnAir
<1>4. CASE StillCurrent
  <2>1. /\ PublishOrReject(ok) /\ queue = <<>> /\ current.gen = generation
        /\ ecmReady /\ lastEcm = current.msg /\ UnansweredEcm /\ ~UnansweredEcm'
    BY <1>1, <1>4
    DEF FinishEcm, StillCurrent, KeyInv, EcmInv, NewestEcmRemembered, UnansweredEcm
  <2>2. CASE ok
    <3>1. /\ key' = current /\ keyValid' /\ failedEcm' = None
          /\ UNCHANGED <<ecmReady, lastEcm>>
      BY <2>1, <2>2 DEF PublishOrReject
    <3>2. NewestOnAir' /\ FailedOnAir'
      BY <1>1, <3>1 DEF StreamInv, NewestOnAir, FailedOnAir
    <3>3. KeyOnAir' /\ AfterPacket'
      BY <1>1, <2>1, <3>1 DEF StreamInv, NewestOnAir, KeyOnAir, AfterPacket
    <3> QED
      BY <1>3, <3>2, <3>3 DEF StreamInv
  <2>3. CASE ~ok
    <3>1. /\ ~keyValid' /\ ~ecmReady' /\ failedEcm' = current.msg
      BY <2>1, <2>3 DEF PublishOrReject
    <3>2. NewestOnAir' /\ FailedOnAir' /\ KeyOnAir' /\ AfterPacket'
      BY <1>1, <2>1, <3>1
      DEF StreamInv, NewestOnAir, FailedOnAir, KeyOnAir, AfterPacket
    <3> QED
      BY <1>3, <3>2 DEF StreamInv
  <2> QED
    BY <2>2, <2>3
<1>5. CASE ~StillCurrent
  <2>1. UNCHANGED <<keyValid, key, failedEcm, ecmReady, lastEcm>>
    BY <1>5 DEF FinishEcm
  <2>2. UnansweredEcm' => UnansweredEcm
    BY <1>1 DEF UnansweredEcm
  <2>3. Quiet
    BY <1>1, <1>2, <2>1, <2>2 DEF Quiet, AsksForKey, broadcast
  <2> QED
    BY <2>3, QuietStep
<1> QED
  BY <1>4, <1>5

\* The other steps inside a call and inside the worker.
LEMMA InsideQuiet ==
  ASSUME BroadcastAssumption, KeyInv, StreamInv, UNCHANGED broadcast,
         \/ \E c \in Callers : NotifyOne(c) \/ NotifyAll(c)
         \/ WorkerBlocks \/ WorkerExits \/ TakeEcm \/ TakeEmm \/ NotifyAll(Worker)
         \/ \E id \in CardIds \cup {None}, result \in EmmResults : FinishEmm(result, id)
         \/ Environment
  PROVE  StreamInv'
<1> SUFFICES Quiet
  BY QuietStep
<1> USE HandlerAssumption DEF KeyInv, TypeInv, TypeOK, PcTypeOK, Threads
<1>1. ASSUME NEW c \in Callers, NotifyOne(c) PROVE Quiet
  <2>1. \A d \in Callers : pc'[d] \in {"blocked", "eval"} <=> pc[d] \in {"blocked", "eval"}
    <3>1. CASE Goto(c, "idle")
      BY <1>1, <3>1 DEF NotifyOne, Goto
    <3>2. ASSUME NEW t \in Threads, pc[t] = "blocked",
                 pc' = [pc EXCEPT ![c] = "idle", ![t] = "eval"]
          PROVE  \A d \in Callers :
                   pc'[d] \in {"blocked", "eval"} <=> pc[d] \in {"blocked", "eval"}
      BY <1>1, <3>2 DEF NotifyOne
    <3> QED
      BY <1>1, <3>1, <3>2 DEF NotifyOne
  <2> QED
    BY <1>1, <2>1 DEF NotifyOne, Quiet, UnansweredEcm, ecmVars, callVars
<1>2. ASSUME NEW t \in Threads, NotifyAll(t) PROVE Quiet
  <2>1. \A d \in Callers : pc'[d] \in {"blocked", "eval"} <=> pc[d] \in {"blocked", "eval"}
    BY <1>2 DEF NotifyAll
  <2> QED
    BY <1>2, <2>1 DEF NotifyAll, Quiet, UnansweredEcm, ecmVars, callVars
<1>3. CASE WorkerBlocks \/ WorkerExits
  BY <1>3 DEF WorkerBlocks, WorkerExits, Goto, Quiet, UnansweredEcm, ecmVars, callVars
<1>4. CASE TakeEcm
  BY <1>4 DEF TakeEcm, Goto, Quiet, UnansweredEcm, callVars
<1>5. CASE TakeEmm
  <2>1. ~workerBusy
    BY <1>5 DEF TakeEmm, EcmInv, BusyWithEcm
  <2> QED
    BY <1>5, <2>1 DEF TakeEmm, Goto, Quiet, UnansweredEcm, ecmVars, callVars
<1>6. ASSUME NEW id \in CardIds \cup {None}, NEW result \in EmmResults, FinishEmm(result, id)
      PROVE  Quiet
  BY <1>6 DEF FinishEmm, ThenNotifyAll, Goto, Quiet, UnansweredEcm, callVars
<1>7. CASE RetryIntervalElapses
  BY <1>7 DEF RetryIntervalElapses, Quiet, UnansweredEcm, callVars
<1>8. ASSUME NEW c \in Callers, TimeoutDecrypt(c) PROVE Quiet
  BY <1>8 DEF TimeoutDecrypt, Goto, Quiet, UnansweredEcm, ecmVars, callVars
<1>9. ASSUME NEW t \in Threads, SpuriousWakeup(t) PROVE Quiet
  BY <1>9 DEF SpuriousWakeup, Goto, Quiet, UnansweredEcm, ecmVars, callVars
<1>10. ASSUME NEW m \in Emms, RecentEmmExpires(m) PROVE Quiet
  BY <1>10 DEF RecentEmmExpires, Quiet, UnansweredEcm, ecmVars, callVars
<1> QED
  BY <1>1, <1>2, <1>3, <1>4, <1>5, <1>6, <1>7, <1>8, <1>9, <1>10 DEF Environment

\* decrypt returns.
LEMMA CallReturned ==
  ASSUME KeyInv, StreamInv, NEW c \in Callers, FinishDecrypt(c), UNCHANGED broadcast
  PROVE  StreamInv'
<1>1. /\ got' = [got EXCEPT ![c] = None]
      /\ UNCHANGED <<request, lastKeyType, lastEcm, failedEcm, ecmReady, keyValid, key, queue,
                     workerBusy, generation, current, onAir, heard, handed, gaveUp, packet>>
  BY DEF FinishDecrypt, ecmVars, broadcast
<1>2. \A d \in Callers : AsksForKey(d)' <=> AsksForKey(d)
  BY HandlerAssumption
  DEF FinishDecrypt, Goto, AsksForKey, KeyInv, TypeInv, TypeOK, PcTypeOK
<1>3. CallsOnAir'
  BY <1>1, <1>2 DEF StreamInv, CallsOnAir, KeyInv, TypeInv, TypeOK, CallTypeOK
<1> QED
  BY <1>1, <1>2, <1>3
  DEF StreamInv, NewestOnAir, FailedOnAir, KeyOnAir, AfterPacket, UnansweredEcm

\* The initial states.
LEMMA StreamStart == BroadcastAssumption /\ StreamInit => HandlerInv
<1> SUFFICES ASSUME BroadcastAssumption, StreamInit PROVE HandlerInv
  OBVIOUS
<1>1. Init
  BY DEF StreamInit
<1>2. KeyInv
  <2>1. CallInv
    BY <1>1 DEF Init, CallInv, KeyHeldWhileDecrypting, ReturnedKeyOfCallersChannel
  <2> QED
    BY <1>1, <2>1, TypeInit, EcmInit DEF KeyInv
<1>3. /\ ~ecmReady /\ ~keyValid /\ failedEcm = None /\ handed = "none"
      /\ \A c \in Callers : ~AsksForKey(c) /\ got[c] = None
      /\ onAir \in [station : Stations, period : 0..MaxPeriod]
  <2>1. ~ecmReady /\ ~keyValid /\ failedEcm = None /\ handed = "none"
    BY <1>1 DEF StreamInit, Init
  <2>2. \A c \in Callers : pc[c] = "idle" /\ got[c] = None
    BY <1>1, HandlerAssumption DEF Init, Threads
  <2>3. onAir \in [station : Stations, period : 0..MaxPeriod]
    BY DEF StreamInit, BroadcastAssumption
  <2> QED
    BY <2>1, <2>2, <2>3 DEF AsksForKey
<1>4. NewestOnAir /\ FailedOnAir /\ KeyOnAir
  BY <1>3 DEF NewestOnAir, FailedOnAir, KeyOnAir
<1>5. AfterPacket /\ CallsOnAir
  BY <1>3 DEF AfterPacket, CallsOnAir
<1> QED
  BY <1>2, <1>3, <1>4, <1>5 DEF HandlerInv, StreamInv

\* Every step keeps it.
LEMMA StreamStep ==
  BroadcastAssumption /\ HandlerInv /\ [StreamNext]_allVars => HandlerInv'
<1> SUFFICES ASSUME BroadcastAssumption, KeyInv, StreamInv, [StreamNext]_allVars
             PROVE  KeyInv' /\ StreamInv'
  BY DEF HandlerInv
<1>1. KeyInv'
  BY StreamIsHandler, TypeStep, EcmStep, CallStep DEF KeyInv
<1> SUFFICES StreamInv'
  BY <1>1
<1>2. CASE Internal
  <2>1. ASSUME NEW c \in Callers, NotifyOne(c) \/ NotifyAll(c) \/ FinishDecrypt(c)
        PROVE  StreamInv'
    BY <1>2, <2>1, InsideQuiet, CallReturned DEF Internal
  <2>2. CASE WorkerStep
    BY <1>2, <2>2, CardAnswers, InsideQuiet DEF Internal, WorkerStep
  <2>3. CASE Environment
    BY <1>2, <2>3, InsideQuiet DEF Internal
  <2> QED
    BY <1>2, <2>1, <2>2, <2>3 DEF Internal
<1>3. CASE UNCHANGED allVars
  <2>1. Quiet
    BY <1>3 DEF allVars, vars, ecmVars, callVars, Quiet, UnansweredEcm
  <2> QED
    BY <2>1, QuietStep
<1>4. ASSUME NEW c \in Callers,
             ReceiveEcm(c) \/ ReceivePacket(c) \/ Retune(c) \/ WakeReader(c)
      PROVE  StreamInv'
  BY <1>4, EcmHeard, PacketHanded, Retuned, CallerWakes
<1>5. CASE NextPeriod
  BY <1>5, PeriodEnds
<1> QED
  BY <1>2, <1>3, <1>4, <1>5 DEF StreamNext

\* What RightKey takes from it.
LEMMA StreamSays == BroadcastAssumption /\ HandlerInv => RightKey
<1> SUFFICES ASSUME BroadcastAssumption, HandlerInv, NEW c \in Callers, got[c] # None
             PROVE  /\ got[c].msg.station = packet.station
                    /\ ~gaveUp => KeyNumber(got[c].msg, ParityOf(packet.period)) = packet.period
  BY DEF RightKey
<1>1. /\ packet = onAir /\ got[c].msg.station = onAir.station /\ onAir.period \in Nat
      /\ ~gaveUp => got[c].msg.period \in {onAir.period - 1, onAir.period}
  BY DEF HandlerInv, StreamInv, CallsOnAir, BroadcastAssumption
<1>2. got[c].msg.period \in Nat
  BY DEF HandlerInv, KeyInv, TypeInv, TypeOK, CallTypeOK, EcmTask, BroadcastAssumption
<1> QED
  BY <1>1, <1>2, EcmHasKey

\* Every packet that is decrypted is decrypted with a key of its station, and with the
\* key it was scrambled with unless decrypt gave up waiting for every packet of the
\* period before: whatever the card rejects, however late it answers, whenever a wait
\* is given up and whenever the channel is changed.
THEOREM DecryptedWithItsKey ==
  ASSUME BroadcastAssumption
  PROVE  StreamSpec => []RightKey
<1>1. StreamInit => HandlerInv
  BY StreamStart
<1>2. HandlerInv /\ [StreamNext]_allVars => HandlerInv'
  BY StreamStep
<1>3. HandlerInv => RightKey
  BY StreamSays
<1> QED
  BY <1>1, <1>2, <1>3, PTL DEF StreamSpec

=============================================================================
