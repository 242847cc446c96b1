------------------------------- MODULE MCTuner ------------------------------
EXTENDS Tuner

CONSTANTS a, b, c, d, e

\* b is the map of a recording to a; d has nothing to do with both.
MCMapOf(p) == IF p = a THEN b ELSE IF p = b THEN c ELSE e

\* The application records to two of the three paths: to those that collide
\* while nothing is received, to the others by ID only.
VARIABLE chosen

MCInit == Init /\ chosen \in {{a, b}, {a, d}}

MCNext ==
  /\ Next
  /\ \A p \in Media \ chosen : disk'[p] = None \/ p \in Files(a)
  /\ \A t \in Controls : stops'[t].then \notin Media \ chosen
  /\ \A id \in DOMAIN sessions' : sessions'[id].path \in chosen
  /\ b \in chosen => sent' = 0
  /\ d \in chosen => legacy' = None
  /\ UNCHANGED chosen

MCSpec == MCInit /\ [][MCNext]_<<vars, chosen>>

=============================================================================
