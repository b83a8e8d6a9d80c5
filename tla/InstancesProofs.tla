--------------------------- MODULE InstancesProofs ---------------------------
(***************************************************************************)
(* A listening process is reachable, however many run and however often    *)
(* the manifest's file is replaced.                                        *)
(*                                                                         *)
(* The inductive invariant adds the processes that have closed their       *)
(* listener and not yet removed the socket: what they remove is theirs,    *)
(* because nobody can bind a path that is taken.                           *)
(***************************************************************************)
EXTENDS Instances, TLAPS

OwnsSocket == \A p \in Processes : ipc[p] \in {"open", "closed"} => socket = p

InstancesIInv == InstancesTypeOK /\ OwnsSocket

LEMMA InstancesInitInv == InstancesInit => InstancesIInv
BY InstancesAssumption DEF InstancesInit, InstancesIInv, InstancesTypeOK, OwnsSocket

\* Each step of a process keeps the types.
LEMMA InstanceTypes ==
    ASSUME InstancesTypeOK, NEW p \in Processes, Instance(p)
    PROVE  InstancesTypeOK'
<1> USE DEF InstancesTypeOK
<1>1. CASE Open(p)
  BY <1>1 DEF Open
<1>2. CASE Lock(p) \/ LockFails(p)
  BY <1>2 DEF Lock, LockFails
<1>3. CASE Bind(p) \/ BindFails(p)
  BY <1>3 DEF Bind, BindFails
<1>4. CASE Close(p) \/ RemoveSocket(p)
  BY <1>4 DEF Close, RemoveSocket
<1>5. CASE Unlock(p)
  BY <1>5 DEF Unlock
<1>6. CASE Killed(p)
  BY <1>6 DEF Killed
<1> QED BY <1>1, <1>2, <1>3, <1>4, <1>5, <1>6 DEF Instance

\* Each step of a process leaves the sockets of the others alone.
LEMMA InstanceSockets ==
    ASSUME InstancesIInv, NEW p \in Processes, Instance(p)
    PROVE  OwnsSocket'
<1> USE InstancesAssumption DEF InstancesIInv, InstancesTypeOK, OwnsSocket
<1>1. CASE Open(p) \/ Lock(p) \/ LockFails(p)
  BY <1>1 DEF Open, Lock, LockFails
<1>2. CASE Bind(p)
  BY <1>2 DEF Bind
<1>3. CASE BindFails(p) \/ Close(p)
  BY <1>3 DEF BindFails, Close
<1>4. CASE RemoveSocket(p)
  BY <1>4 DEF RemoveSocket
<1>5. CASE Unlock(p)
  BY <1>5 DEF Unlock
<1>6. CASE Killed(p)
  BY <1>6 DEF Killed
<1> QED BY <1>1, <1>2, <1>3, <1>4, <1>5, <1>6 DEF Instance

LEMMA InstancesStepInv == InstancesIInv /\ [InstancesNext]_instanceVars => InstancesIInv'
<1> SUFFICES ASSUME InstancesIInv, [InstancesNext]_instanceVars PROVE InstancesIInv'
  OBVIOUS
<1>1. ASSUME NEW p \in Processes, Instance(p) PROVE InstancesIInv'
  BY <1>1, InstanceTypes, InstanceSockets DEF InstancesIInv
<1>2. CASE ReplaceFile
  BY <1>2, InstancesAssumption
  DEF InstancesIInv, InstancesTypeOK, OwnsSocket, ReplaceFile
<1>3. CASE RemoveStale
  BY <1>3, InstancesAssumption
  DEF InstancesIInv, InstancesTypeOK, OwnsSocket, RemoveStale
<1>4. CASE UNCHANGED instanceVars
  BY <1>4 DEF instanceVars, InstancesIInv, InstancesTypeOK, OwnsSocket
<1> QED BY <1>1, <1>2, <1>3, <1>4 DEF InstancesNext

LEMMA InstancesInvariant == InstancesSpec => []InstancesIInv
BY InstancesInitInv, InstancesStepInv, PTL DEF InstancesSpec

\* A process that listens for `pipitor ctl` is found at the path of its socket.
THEOREM ListenersReachable == InstancesSpec => []ServerIsReachable
<1>1. InstancesIInv => ServerIsReachable
  BY DEF InstancesIInv, OwnsSocket, ServerIsReachable
<1> QED BY <1>1, InstancesInvariant, PTL

==============================================================================
