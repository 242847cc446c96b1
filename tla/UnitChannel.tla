----------------------------- MODULE UnitChannel -----------------------------
(***************************************************************************)
(* What reassembly promises to those who use its units: a unit is passed   *)
(* on whole or not at all, after it has been sent, once, and in the order  *)
(* of sending.  Units are numbered in the order they are sent.             *)
(***************************************************************************)
EXTENDS Naturals

VARIABLES
  sent,       \* the number of the unit being sent
  delivered   \* the number of the last unit passed on, 0 for none

vars == <<sent, delivered>>

Init == sent \in Nat /\ delivered = 0

SendOn  == sent' \in Nat /\ sent' >= sent
Deliver == delivered' \in (delivered + 1)..sent

Next == SendOn /\ (Deliver \/ UNCHANGED delivered)

Spec == Init /\ [][Next]_vars

=============================================================================
