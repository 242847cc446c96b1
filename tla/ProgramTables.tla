--------------------------- MODULE ProgramTables ---------------------------
(***************************************************************************)
(* From package lists and package tables to the PAT and the PMTs of the    *)
(* transport stream (RemuxerHandler::onPlt, onMpt), on top of the registry *)
(* of streams that gives the PIDs, and down to a receiver that keeps a     *)
(* table until its version changes.                                        *)
(*                                                                         *)
(* A service is named by its package.  What PMTs say of a stream besides   *)
(* its PID is left out; an asset whose type has no stream type in TS, and  *)
(* a caption with a tag outside its range, are among those without a tag.  *)
(* External: the broadcaster, who gives a table another version when it    *)
(* changes, so that the table itself stands for its version, and the       *)
(* receiver.                                                               *)
(***************************************************************************)
EXTENDS StreamRegistry

CONSTANTS
  AppTypes,      \* types of which a copy is sent on the PID for data: stpp, aapp
  FirstPmtPid,   \* 0x1000
  LastPmtPid,    \* 0x1FFE
  AppDataOffset  \* 0x100: from the PID for a service's data to that of its PMT

\* A list holds 255 services at most, so that no PID for data reaches FirstPmtPid.
ProgramAssumption ==
  /\ IsFiniteSet(Packages) /\ None \notin Seq(Packages)
  /\ AppTypes \subseteq Types
  /\ FirstPmtPid \in Nat /\ LastPmtPid \in Nat /\ AppDataOffset \in Nat
  /\ EndPid + AppDataOffset <= FirstPmtPid

VARIABLES
  tsid,            \* whether an EIT or SDT has told the stream's ID
  mapService2Pid,  \* services of the last PLT -> PMT PID, or None
  assignedPmtPids, \* services -> the PID of their PMTs since the last clear()
  pat,             \* the receiver's PAT: [version, pids]
  pmts,            \* its PMT for each service, [version, streams, data], or None
  program          \* PMT PID -> the service whose PMT came on it last, or None

allVars == <<vars, tsid, mapService2Pid, assignedPmtPids, pat, pmts, program>>

PmtPids == FirstPmtPid..LastPmtPid
NoPids  == [s \in Packages |-> None]

ProgramInit ==
  /\ Init
  /\ tsid = FALSE /\ mapService2Pid = NoPids /\ assignedPmtPids = NoPids
  /\ pat = [version |-> None, pids |-> NoPids]
  /\ pmts = [s \in Packages |-> None]
  /\ program = [pid \in PmtPids |-> None]
-----------------------------------------------------------------------------
(* The PAT.                                                                *)

\* The first PID that no service has, or that after the last one.
\* CountedPid, the PID by the number of services in the list, is a mistake that the
\* code could have been written with.
CountedPid(assigned, s, listedBefore) == FirstPmtPid + listedBefore

PmtPidForService(assigned, s, listedBefore) ==
  IF assigned[s] # None THEN assigned[s]
  ELSE Min((PmtPids \cup {LastPmtPid + 1}) \ {assigned[other] : other \in Packages})

\* The list's services one after the other, until there is no PID for one of them.
Assign(r, s) ==
  LET pid == PmtPidForService(r.assigned, s, Cardinality({o \in Packages : r.pids[o] # None}))
  IN IF r.full \/ pid > LastPmtPid THEN [r EXCEPT !.full = TRUE]
     ELSE [r EXCEPT !.assigned[s] = pid, !.pids[s] = pid]

\* The receiver keeps the PMTs of services whose PID the new PAT has not changed.
ReceivePat(version, pids) ==
  IF version = pat.version THEN UNCHANGED <<pat, pmts, program>>
  ELSE /\ pat' = [version |-> version, pids |-> pids]
       /\ pmts' = [s \in Packages |-> IF pids[s] = pat.pids[s] THEN pmts[s] ELSE None]
       /\ UNCHANGED program

AllAssigned(services) ==
  LET after[i \in 0..Len(services)] ==
        IF i = 0 THEN [assigned |-> assignedPmtPids, pids |-> NoPids, full |-> FALSE]
        ELSE Assign(after[i - 1], services[i])
  IN  after[Len(services)]

\* A list arrives; nothing is done with it before the stream's ID is known.
OnPlt ==
  \E services \in SetToAllKPermutations(Packages) :
    LET r == AllAssigned(services)
    IN /\ tsid
       /\ assignedPmtPids' = r.assigned
       /\ mapService2Pid' = r.pids
       /\ ReceivePat(services, r.pids)
       /\ UNCHANGED <<vars, tsid>>

\* onMhEit, onMhSdtActual
OnStreamId ==
  /\ tsid' = TRUE
  /\ UNCHANGED <<vars, mapService2Pid, assignedPmtPids, pat, pmts, program>>
-----------------------------------------------------------------------------
(* The PMTs.                                                               *)

\* The PIDs of the assets that a PMT lists: those with a stream, a tag and a PID.
CarriedPids(streams, assets) ==
  {streams[a.id].pid : a \in {b \in assets :
     streams[b.id] # None /\ streams[b.id].tag # None}} \ {NullPid}

AppDataPid(pid) == pid - AppDataOffset

Pmt(p, streams, assets) ==
  [version |-> assets, streams |-> CarriedPids(streams, assets),
   data |-> IF \E a \in assets : a.type \in AppTypes
            THEN {AppDataPid(mapService2Pid[p])} ELSE {}]

\* The receiver waits for the PMTs of this service where the PAT says that they are.
ReceivePmt(p, pmt) ==
  /\ program' = [program EXCEPT ![mapService2Pid[p]] = p]
  /\ pmts' = IF pat.pids[p] = mapService2Pid[p]
                /\ (pmts[p] = None \/ pmts[p].version # pmt.version)
             THEN [pmts EXCEPT ![p] = pmt] ELSE pmts
  /\ UNCHANGED pat

\* The demultiplexer enters the table into the registry, then the handler gets it.
OnMpt(p) ==
  /\ PackageTable(p)
  /\ IF mapService2Pid[p] = None THEN UNCHANGED <<pat, pmts, program>>
     ELSE ReceivePmt(p, Pmt(p, mapStream', listed'[p]))
  /\ UNCHANGED <<tsid, mapService2Pid, assignedPmtPids>>

\* A change of the channel: clear() of the demultiplexer and of the handler, and a
\* receiver that starts anew.
ChangeChannel ==
  /\ Clear
  /\ tsid' = FALSE /\ mapService2Pid' = NoPids /\ assignedPmtPids' = NoPids
  /\ pat' = [version |-> None, pids |-> NoPids]
  /\ pmts' = [s \in Packages |-> None]
  /\ program' = [pid \in PmtPids |-> None]

ProgramNext ==
  \/ OnPlt \/ OnStreamId \/ ChangeChannel
  \/ \E p \in Packages : OnMpt(p)

ProgramSpec == ProgramInit /\ [][ProgramNext]_allVars
-----------------------------------------------------------------------------
(* Properties.                                                             *)

Watched == {s \in Packages : pat.pids[s] # None /\ pmts[s] # None}

\* A receiver that has ignored every repetition has the PIDs that the streams are
\* written with: no table of any service moves a stream that a PMT has named while
\* the PMT's version stays the same, and a service that leaves the list and returns
\* is found again (onPlt, onMpt, processMmtPackageTable).
PmtsAreCurrent ==
  \A s \in Watched :
    pat.pids[s] = mapService2Pid[s] =>
      pmts[s].streams = CarriedPids(mapStream, listed[s])

\* A PID has one use.  Where the receiver waits for a service's PMT no other
\* service's PMT is sent, even if lists have added, removed and reordered services
\* since the receiver's PAT; and a service's data, which is sent whenever the service
\* has a PMT PID, is not sent where a stream is.
EachPidOneUse ==
  /\ \A s \in Packages : pat.pids[s] # None => program[pat.pids[s]] \in {s, None}
  /\ \A s, other \in Watched : s # other => pmts[s].data \cap (pmts[other].data \cup pmts[other].streams) = {}
=============================================================================
