-------------------------- MODULE ComponentHistory --------------------------
(***************************************************************************)
(* The registry of streams with a record of the PIDs that components have  *)
(* had, for what the code says of components that leave and return.  A     *)
(* component is named by its package and its tag.  Nothing is recorded of  *)
(* one whose asset another package has listed at the same time: the code   *)
(* may have noted its PID under the other package's name only.             *)
(***************************************************************************)
EXTENDS StreamRegistry

CONSTANT Shared

SharedAssumption == Shared \notin Nat /\ Shared # None

VARIABLE firstPid  \* component -> the first PID it had, None, or Shared

histVars == <<vars, firstPid>>

HistInit == Init /\ firstPid = [c \in Components |-> None]

\* The asset listed as component c, if there is one.
AssetsOf(c) == {a \in listed[c[1]] : a.type # OtherType /\ a.tag = c[2]}

ListedElsewhere(c) == UNION {IdsOf(listed[p]) : p \in Packages \ {c[1]}}

PidsOf(c) == {mapStream[a.id].pid : a \in AssetsOf(c)} \ {NullPid}

Recorded ==
  [c \in Components |->
     IF IdsOf(AssetsOf(c))' \cap ListedElsewhere(c)' # {} THEN Shared
     ELSE IF firstPid[c] = None /\ PidsOf(c)' # {} THEN CHOOSE pid \in PidsOf(c)' : TRUE
     ELSE firstPid[c]]

HistNext ==
  \/ \E p \in Packages : PackageTable(p) /\ firstPid' = Recorded
  \/ Clear /\ firstPid' = [c \in Components |-> None]

HistSpec == HistInit /\ [][HistNext]_histVars

\* "A component that leaves the MPT and returns gets its PID back, and no other
\* component takes that PID in between" (mmtTlvDemuxer.h:106-107).
ComponentKeepsPid ==
  \A c \in Components :
    /\ \A a \in AssetsOf(c) : firstPid[c] \in Pids => mapStream[a.id].pid = firstPid[c]
    /\ \A id \in Registered : mapStream[id].pid = firstPid[c] => id \in IdsOf(AssetsOf(c))

=============================================================================
