--------------------------- MODULE MCAcasMessages --------------------------
(**************************************************************************)
(* AcasHandler with all its ECMs and channel changes, and no EMM, or with *)
(* EMMs for two cards at the limits of both EMM tables, one ECM, one       *)
(* channel change and no decryption.                                      *)
(**************************************************************************)
EXTENDS MCAcasHandler

CONSTANTS e1, k1

VARIABLE chosen

MCInit == Init /\ chosen \in {"ecms", "emms"}

MCNext ==
  /\ Next
  /\ chosen = "ecms" => emmQueue' = <<>> /\ casModuleId' \in {None, k1}
  /\ chosen = "emms" => /\ generation' <= 1 /\ Len(queue') <= 1 /\ request' = request
                        /\ \A i \in DOMAIN queue' : queue'[i].msg = e1
  /\ UNCHANGED chosen

MCSpec == MCInit /\ [][MCNext]_<<vars, chosen>>

=============================================================================
