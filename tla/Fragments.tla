------------------------------ MODULE Fragments ------------------------------
(***************************************************************************)
(* Fragmentation of MMT units (src/fragmentAssembler.cpp).  A unit is sent *)
(* in `of' parts; a packet says only whether its part is the whole, the    *)
(* first, a middle or the last one.  FragmentAssembler::assemble and       *)
(* FragmentValidator::validate accept the same packets in the same states; *)
(* the validator never reaches "Skip".                                     *)
(***************************************************************************)
EXTENDS Naturals, Sequences

States == {"Init", "NotStarted", "InFragment", "Skip"}

\* The fragmentation indicator of a part.
Indicator(p) ==
  IF p.of = 1 THEN "Not"
  ELSE IF p.part = 1 THEN "First"
  ELSE IF p.part = p.of THEN "Last" ELSE "Middle"

Begins(fi) == fi \in {"Not", "First"}
Ends(fi)   == fi \in {"Not", "Last"}

\* A beginning is refused in mid-unit, a continuation anywhere else.
Accepts(state, fi) == Begins(fi) <=> state # "InFragment"

StateAfter(fi) == IF Ends(fi) THEN "NotStarted" ELSE "InFragment"

\* All of a sequence of parts belongs to one unit, and is the whole of it.
IsWholeUnit(data) ==
  /\ data # <<>>
  /\ Len(data) = data[1].of
  /\ \A i \in DOMAIN data : data[i].unit = data[1].unit /\ data[i].part = i

=============================================================================
