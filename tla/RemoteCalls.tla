----------------------------- MODULE RemoteCalls -----------------------------
(***************************************************************************)
(* What a client of a CasProxyServer promises its caller: calls are made   *)
(* one after the other; the server answers each request at most once; and  *)
(* a request returns the server's answer to that request or fails.  One    *)
(* that has failed may still reach the server, or have reached it.         *)
(***************************************************************************)
EXTENDS Naturals

CONSTANTS MaxCalls, Answers, Failed, Done, None

VARIABLES
  made,      \* the number of calls made
  asked,     \* those that are requests to the server
  answers,   \* what the server answered to each, or None
  outcomes   \* what each returned, or None

vars == <<made, asked, answers, outcomes>>

Init ==
  /\ made = 0 /\ asked = {}
  /\ answers = [n \in 1..MaxCalls |-> None]
  /\ outcomes = [n \in 1..MaxCalls |-> None]

Make ==
  /\ made < MaxCalls
  /\ made > 0 => outcomes[made] # None
  /\ made' = made + 1
  /\ asked' \in {asked, asked \cup {made'}}
  /\ UNCHANGED <<answers, outcomes>>

Answer(n) ==
  /\ answers[n] = None
  /\ \E a \in Answers : answers' = [answers EXCEPT ![n] = a]
  /\ UNCHANGED <<made, asked, outcomes>>

Return ==
  /\ made > 0 /\ outcomes[made] = None
  /\ \E o \in IF made \in asked THEN {answers[made], Failed} \ {None} ELSE {Done, Failed} :
       outcomes' = [outcomes EXCEPT ![made] = o]
  /\ UNCHANGED <<made, asked, answers>>

Next == Make \/ Return \/ \E n \in asked : Answer(n)

Spec == Init /\ [][Next]_vars

=============================================================================
