--------------------------- MODULE MCAcasHandler ---------------------------
(* TLC instances of AcasHandler. *)
EXTENDS AcasHandler, TLC

\* Two EMMs for the inserted card's owner, one for somebody else.
MCAddressOf ==
  [m \in Emms |-> IF m = CHOOSE n \in Emms : TRUE THEN CHOOSE k \in CardIds : TRUE
                  ELSE CHOOSE k \in CardIds : k # CHOOSE j \in CardIds : TRUE]

\* Every EMM is for the one card.
MCAddressOfOne == [m \in Emms |-> CHOOSE k \in CardIds : TRUE]

\* Where every caller may do everything, callers and ECMs are interchangeable.
Symmetry == Permutations(Ecms) \cup Permutations(Callers)
=============================================================================
