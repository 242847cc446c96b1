--------------------------- MODULE CasProxyClient ---------------------------
(***************************************************************************)
(* The client of a CasProxyServer (src/casProxyClient.cpp), which holds    *)
(* the smart card of another machine.                                      *)
(*                                                                         *)
(* A caller, one at a time (mutex), posts a function to the event loop and *)
(* waits for a promise, for a limited time.  The event loop's thread runs  *)
(* posted functions in order and the handlers of asynchronous operations   *)
(* as these end, each to its end; everything in `io' belongs to it.  An    *)
(* operation that was cancelled, or had ended before, runs its handler in  *)
(* a later connection's time.  Handlers know their connection by its       *)
(* connectionGeneration; as it is compared for equality only, an operation *)
(* here has a mark instead that is set when the generation moves on.       *)
(***************************************************************************)
EXTENDS CasProxyWire

CONSTANTS
  Kinds,      \* the remote calls that are made, of Calls
  WrongKinds, \* those that a wrong response is of
  Faults,     \* what may go wrong: "network", "silent", "length", "opcode",
              \* "cut", "twice"
  None, Unset, Failed, Done,
  MaxCalls,   \* bound: calls made
  MaxFaults   \* bound: things that go wrong, time-outs included

VARIABLES
  made,      \* calls made; they are numbered, and a request's ID is its number
  call,      \* the call in progress, or None
  asked,     \* those of them that are requests
  outcomes,  \* what each call returned
  posted,    \* functions posted to the event loop and not yet run
  io,        \* the event loop's: connected, connecting, connectionWaiters,
             \* mapResponsePromise, sendQueue, the promises and the
             \* asynchronous operations under way
  wire,      \* external: the connection, and what requests earlier ones have
             \* brought to the server
  answers,   \* external: the server's answer to each request
  faults     \* external: how often something has gone wrong

vars == <<made, call, asked, outcomes, posted, io, wire, answers, faults>>

Numbers == 1..MaxCalls
Drop    == [do |-> "disconnect"]
Jobs    == [do : {"connect", "request", "close"}, n : Numbers, kind : Kinds \cup {None}]
AsyncKinds == {"timer", "resolve", "connect", "readLength", "readData", "write"}
Entries == [n : Numbers, opcode : Nat]

\* All numbers in an answer are the request's, so that a wrong one shows.
AnswersTo(n, kind) ==
  LET fields  == ResponseFields(kind)
      Field(name) == CHOOSE f \in ToSet(fields) : f.name = name
      Value(f, flag) == IF f.kind = "flag" THEN flag
                        ELSE IF f.unless # "never" /\ flag THEN Default(f)
                        ELSE IF f.kind = "number" THEN n
                        ELSE <<n>>
  IN  {[result |-> n,
        v |-> [name \in DOMAIN Defaults(fields) |-> Value(Field(name), flag)]] :
         flag \in BOOLEAN}

AllAnswers == UNION {AnswersTo(n, kind) : n \in Numbers, kind \in Kinds}

ASSUME ClientAssumption ==
  /\ Kinds \subseteq Calls /\ WrongKinds \subseteq Calls
  /\ Faults \subseteq {"network", "silent", "length", "opcode", "cut", "twice"}
  /\ MaxCalls \in Nat /\ MaxFaults \in Nat
  /\ None \notin Jobs
  /\ None \notin {Unset, Failed, Done} /\ Unset \notin {Failed, Done} /\ Failed # Done
  /\ {None, Unset, Failed, Done} \cap AllAnswers = {}

TypeOK ==
  /\ made \in 0..MaxCalls
  /\ call \in Jobs \cup {None}
  /\ asked \subseteq 1..made
  /\ outcomes \in [Numbers -> AllAnswers \cup {None, Failed, Done}]
  /\ posted \in Seq(Jobs \cup {Drop})
  /\ io.connected \in BOOLEAN /\ io.connecting \in BOOLEAN
  /\ ~(io.connected /\ io.connecting)
  /\ io.waiters \in Seq(Jobs)
  /\ io.pending \subseteq Entries
  /\ io.sendQueue \in Seq(Jobs)
  /\ io.promise \in [Numbers -> AllAnswers \cup {Unset, Failed, Done}]
  /\ io.ops \subseteq [kind : AsyncKinds, sent : BOOLEAN, old : BOOLEAN]
  /\ answers \in [Numbers -> AllAnswers \cup {None}]
  /\ faults \in 0..MaxFaults

Init ==
  /\ made = 0 /\ call = None /\ asked = {}
  /\ outcomes = [n \in Numbers |-> None]
  /\ posted = <<>>
  /\ io = [connected |-> FALSE, connecting |-> FALSE, waiters |-> <<>>, pending |-> {},
           sendQueue |-> <<>>, promise |-> [n \in Numbers |-> Unset], ops |-> {}]
  /\ wire = [toServer |-> <<>>, toClient |-> <<>>, late |-> {}]
  /\ answers = [n \in Numbers |-> None]
  /\ faults = 0

Ids(s) == {e.n : e \in s.pending}

\* ++connectionGeneration
Outdated(ops) == {[op EXCEPT !.old = TRUE, !.sent = FALSE] : op \in ops}

-----------------------------------------------------------------------------
(* Mutated forms of definitions below, each with a mistake that the code   *)
(* could have been written with; they are no part of the model.            *)

EveryHandler(op) == TRUE

AnyOpcode(s, frame) == TRUE

KeepWaiters(s) ==
  [s EXCEPT !.ops = Outdated(@), !.connected = FALSE, !.connecting = FALSE,
            !.sendQueue = <<>>, !.pending = {},
            !.promise = [n \in Numbers |-> IF n \in Ids(s) THEN Failed ELSE @[n]]]

NoMoreReads(s) == s

StillConnecting(s) == [s EXCEPT !.connected = TRUE, !.waiters = <<>>]

-----------------------------------------------------------------------------
(* The event loop's functions, on its state s.                             *)

Started(s, kind) ==
  [s EXCEPT !.ops = @ \cup {[kind |-> kind, sent |-> FALSE, old |-> FALSE]}]

\* doWrite: one packet at a time is being written, the first of the queue.
DoWrite(s) == IF s.sendQueue = <<>> THEN s ELSE Started(s, "write")

Settled(s, n, value) == [s EXCEPT !.promise[n] = value]

\* A completion that waits for the connection.
Complete(s, job, ok) ==
  IF job.do = "connect" THEN Settled(s, job.n, IF ok THEN Done ELSE Failed)
  ELSE IF ~ok THEN Settled(s, job.n, Failed)
  ELSE LET queued ==
             [s EXCEPT !.pending = @ \cup {[n |-> job.n, opcode |-> ResponseOpcode(job.kind)]},
                       !.sendQueue = Append(@, job)]
       IN  IF Len(queued.sendQueue) = 1 THEN DoWrite(queued) ELSE queued

CompleteAll(s, jobs, ok) ==
  LET after[i \in 0..Len(jobs)] ==
        IF i = 0 THEN s ELSE Complete(after[i - 1], jobs[i], ok)
  IN  after[Len(jobs)]

EnsureConnected(s, job) ==
  LET waiting == [s EXCEPT !.waiters = Append(@, job)]
      begun   == [waiting EXCEPT !.connecting = TRUE, !.ops = Outdated(@)]
  IN  IF s.connected THEN Complete(s, job, TRUE)
      ELSE IF s.connecting THEN waiting
      ELSE Started(Started(begun, "timer"), "resolve")

\* Operations under way have an old generation now.
Abandoned(s) ==
  [s EXCEPT !.ops = Outdated(@), !.connected = FALSE, !.connecting = FALSE,
            !.sendQueue = <<>>, !.pending = {}, !.waiters = <<>>,
            !.promise = [n \in Numbers |-> IF n \in Ids(s) THEN Failed ELSE @[n]]]

Disconnect(s) == CompleteAll(Abandoned(s), s.waiters, FALSE)

Open(s) == [s EXCEPT !.connected = TRUE, !.connecting = FALSE, !.waiters = <<>>]

OnOpen(s) == CompleteAll(Open(s), s.waiters, TRUE)

\* The response that a frame would answer, if its opcode is right.
Expected(s, frame) == [n |-> frame.n, opcode |-> frame.opcode] \in s.pending

\* A reply that nobody waits for is ignored; one of the wrong type, or cut
\* short, ends the connection.
HandleResponse(s, frame, kind) ==
  LET r == Unpack(ResponseFields(kind), frame.cells)
  IN  IF frame.n \notin Ids(s) THEN s
      ELSE IF ~Expected(s, frame) \/ ~r.ok THEN Disconnect(s)
      ELSE [Settled(s, frame.n, [result |-> frame.result, v |-> r.v]) EXCEPT
              !.pending = {e \in @ : e.n # frame.n}]

\* doRead goes on unless handleResponse has disconnected.
ReadNext(s) == IF s.connected THEN Started(s, "readLength") ELSE s

\* A handler of an earlier connection does nothing.
OfThisConnection(op) == ~op.old

KindOf(opcode) == CHOOSE kind \in Calls : ResponseOpcode(kind) = opcode

\* What the handler of op does, if it ended well or failed.
Handled(s, op, ok) ==
  IF op.kind = "timer" THEN IF ok /\ ~s.connected THEN Disconnect(s) ELSE s
  ELSE IF ~ok THEN Disconnect(s)
  ELSE CASE op.kind = "resolve"     -> Started(s, "connect")
         [] op.kind = "connect"     -> Started(OnOpen(s), "readLength")
         [] op.kind = "readLength"  ->
              IF wire.toClient[1].length = "wrong" THEN Disconnect(s) ELSE Started(s, "readData")
         [] op.kind = "readData"    ->
              LET frame == wire.toClient[1]
              IN  ReadNext(HandleResponse(s, frame, KindOf(frame.opcode)))
         [] op.kind = "write"       -> DoWrite([s EXCEPT !.sendQueue = Tail(@)])

\* From now on network and server do not fail.
calm == faults = MaxFaults

Fault(kind) == kind \in Faults /\ faults' = faults + 1

EventLoop(next) ==
  /\ io' = next
  /\ UNCHANGED <<made, call, asked, outcomes, answers>>

RunPosted ==
  /\ posted # <<>>
  /\ posted' = Tail(posted)
  /\ LET job == Head(posted) IN
       EventLoop(IF job = Drop THEN Disconnect(io)
                 ELSE IF job.do = "close" THEN Settled(Disconnect(io), job.n, Done)
                 ELSE EnsureConnected(io, job))
  /\ UNCHANGED <<wire, faults>>

\* How op may end.  An old one has been cancelled; had it ended well before,
\* that would make no difference.  The timer is cancelled when the connection
\* is open.
EndsWell(op) ==
  /\ ~op.old
  /\ CASE op.kind \in {"resolve", "connect"}      -> TRUE
       [] op.kind \in {"readLength", "readData"}  -> wire.toClient # <<>>
       [] op.kind = "write" -> op.sent
       [] op.kind = "timer" -> FALSE

IsCancelled(op) == op.old \/ (op.kind = "timer" /\ io.connected)

MayEnd(op, ok) ==
  \/ ok /\ EndsWell(op) /\ UNCHANGED faults
  \/ ~ok /\ IsCancelled(op) /\ UNCHANGED faults
  \/ ~calm /\ ~op.old /\ (ok <=> op.kind = "timer") /\ Fault("network")

RunHandler(op, ok) ==
  /\ MayEnd(op, ok)
  /\ LET rest == [io EXCEPT !.ops = @ \ {op}] IN
       EventLoop(IF OfThisConnection(op) THEN Handled(rest, op, ok) ELSE rest)
  /\ wire' = IF ~ok THEN wire
             ELSE CASE op.kind = "connect" ->
                         [toServer |-> <<>>, toClient |-> <<>>,
                          late |-> wire.late \cup ToSet(wire.toServer)]
                    [] op.kind = "readData" -> [wire EXCEPT !.toClient = Tail(@)]
                    [] OTHER -> wire
  /\ UNCHANGED posted

-----------------------------------------------------------------------------
(* The caller.                                                             *)

\* connect(), sendRequest(), close().
Call(do, kind) ==
  /\ call = None /\ made < MaxCalls
  /\ LET job == [do |-> do, n |-> made + 1, kind |-> kind] IN
       /\ call' = job
       /\ posted' = Append(posted, job)
  /\ made' = made + 1
  /\ asked' = IF do = "request" THEN asked \cup {made'} ELSE asked
  /\ UNCHANGED <<outcomes, io, wire, answers, faults>>

Ended(outcome) ==
  /\ outcomes' = [outcomes EXCEPT ![call.n] = outcome]
  /\ call' = None
  /\ UNCHANGED <<made, asked, io, wire, answers>>

\* connect() disconnects when it has failed.
Return ==
  /\ call # None
  /\ io.promise[call.n] # Unset
  /\ Ended(io.promise[call.n])
  /\ posted' = IF call.do = "connect" /\ io.promise[call.n] = Failed
               THEN Append(posted, Drop) ELSE posted
  /\ UNCHANGED faults

\* wait_for ends; close() waits without a limit.
Timeout ==
  /\ ~calm /\ Fault("silent")
  /\ call # None
  /\ call.do # "close"
  /\ io.promise[call.n] = Unset
  /\ Ended(Failed)
  /\ posted' = Append(posted, Drop)

-----------------------------------------------------------------------------
(* The network and the server.                                             *)

Transmit(op) ==
  /\ op.kind = "write" /\ ~op.sent
  /\ ~op.old
  /\ wire' = [wire EXCEPT !.toServer = Append(@, Head(io.sendQueue))]
  /\ io' = [io EXCEPT !.ops = (@ \ {op}) \cup {[op EXCEPT !.sent = TRUE]}]
  /\ UNCHANGED <<made, call, asked, outcomes, posted, answers, faults>>

Frame(job, a) ==
  [n |-> job.n, opcode |-> ResponseOpcode(job.kind), result |-> a.result,
   cells |-> Pack(ResponseFields(job.kind), a.v), length |-> "right"]

\* What a failing server may send for an answer.
BadReplies(frame) ==
  [silent |-> {<<>>},
   twice  |-> {<<frame, frame>>},
   length |-> {<<[frame EXCEPT !.length = "wrong"]>>},
   cut    |-> {<<[frame EXCEPT !.cells = Front(@)]>>},
   opcode |-> {<<[frame EXCEPT !.opcode = ResponseOpcode(k)]>> : k \in WrongKinds}]

\* A reply to a connection that is no more goes nowhere.
Answer(job, a) ==
  /\ answers' = [answers EXCEPT ![job.n] = a]
  /\ \/ /\ job \in wire.late
        /\ wire' = [wire EXCEPT !.late = @ \ {job}]
        /\ UNCHANGED faults
     \/ /\ wire.toServer # <<>> /\ job = Head(wire.toServer)
        /\ \E reply \in {<<Frame(job, a)>>} \cup UNION Range(BadReplies(Frame(job, a))) :
             /\ wire' = [wire EXCEPT !.toServer = Tail(@), !.toClient = @ \o reply]
             /\ \/ reply = <<Frame(job, a)>> /\ UNCHANGED faults
                \/ /\ ~calm
                   /\ \E kind \in DOMAIN BadReplies(Frame(job, a)) :
                        reply \in BadReplies(Frame(job, a))[kind] /\ Fault(kind)

Serve ==
  /\ \E job \in wire.late \cup ToSet(wire.toServer) :
       \E a \in AnswersTo(job.n, job.kind) : Answer(job, a)
  /\ UNCHANGED <<made, call, asked, outcomes, posted, io>>

\* Nothing goes wrong any more.
CalmDown ==
  /\ ~calm
  /\ faults' = MaxFaults
  /\ UNCHANGED <<made, call, asked, outcomes, posted, io, wire, answers>>

-----------------------------------------------------------------------------
RunHandlers == \E op \in io.ops, ok \in BOOLEAN : RunHandler(op, ok)

Makes ==
  \/ \E kind \in Kinds : Call("request", kind)
  \/ \E do \in {"connect", "close"} : Call(do, None)

Transmits == \E op \in io.ops : Transmit(op)

Next ==
  \/ RunPosted \/ RunHandlers
  \/ Makes \/ Return \/ Timeout
  \/ Transmits \/ Serve \/ CalmDown

Spec == Init /\ [][Next]_vars

\* The event loop, the network and the server go on as long as there is
\* something to do, which ends after each call.  Nothing is assumed of
\* time-outs, and of calls being made.
Progress == RunPosted \/ RunHandlers \/ Return \/ Transmits \/ Serve

Fairness == WF_vars(Progress)

FairSpec == Spec /\ Fairness

-----------------------------------------------------------------------------
(* Safety.                                                                 *)

OpsOf(kind) == {op \in io.ops : op.kind = kind /\ ~op.old}

Places(n) ==
  Cardinality({i \in DOMAIN posted : posted[i] # Drop /\ posted[i].n = n})
  + Cardinality({i \in DOMAIN io.waiters : io.waiters[i].n = n})
  + Cardinality({e \in io.pending : e.n = n})

\* A promise not yet set has one owner who will set it, and a set one has none:
\* setting a promise again throws, in the event loop's thread.
EachPromiseSetOnce ==
  \A n \in 1..made : Places(n) = IF io.promise[n] = Unset THEN 1 ELSE 0

\* A connection is read all the time, or a reply would never be seen; one
\* packet is written at a time, and one is written while any is queued; nobody
\* waits on a closed connection, and for an opening one there are a time limit
\* and an operation that will end; whoever waits is answered, once.
ConnectionIsServed ==
  /\ Cardinality(OpsOf("readLength") \cup OpsOf("readData")) = IF io.connected THEN 1 ELSE 0
  /\ Cardinality(OpsOf("write")) = IF io.sendQueue = <<>> THEN 0 ELSE 1
  /\ Cardinality(OpsOf("resolve") \cup OpsOf("connect")) = IF io.connecting THEN 1 ELSE 0
  /\ io.connecting => OpsOf("timer") # {}
  /\ io.waiters # <<>> => io.connecting
  /\ io.pending # {} \/ io.sendQueue # <<>> => io.connected
  /\ EachPromiseSetOnce

Service == INSTANCE RemoteCalls WITH Answers <- AllAnswers

\* A call returns the server's answer to that call or fails, and the server is
\* not asked twice, whatever comes late, twice, cut or with another type.
ImplementsRemoteCalls == Service!Spec

-----------------------------------------------------------------------------
(* Liveness.                                                               *)

\* When network and server have recovered, at most one more request fails: the
\* next one gets its answer, unaffected by handlers of earlier connections.
RecoversWithinOneCall ==
  \A n \in 3..MaxCalls :
    calm /\ made < n - 1 ~> [](n \in asked => <>(outcomes[n] \in AllAnswers))

=============================================================================
