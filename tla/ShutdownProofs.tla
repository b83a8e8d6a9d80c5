--------------------------- MODULE ShutdownProofs ----------------------------
(***************************************************************************)
(* A shutdown waits for every task, however many there are.                *)
(*                                                                         *)
(* The count is one more than the number of live tasks (CountInv), so it   *)
(* is 1 only when there is none; and from the moment the application has   *)
(* read 1 until it serves again nobody can clone a handle (ReadyInv).      *)
(***************************************************************************)
EXTENDS Shutdown, TLAPS, FiniteSetTheorems

Live == {t \in Tasks : task[t] # "none"}

CountInv == count = 1 + Cardinality(Live)

ReadyInv == main \in {"ready", "exited"} => Live = {}

ShutdownIInv == ShutdownTypeOK /\ CountInv /\ ReadyInv

LEMMA LiveFinite == IsFiniteSet(Live) /\ Cardinality(Live) \in Nat
<1>1. IsFiniteSet(Live)
  BY TasksAssumption, FS_Subset DEF Live
<1> QED BY <1>1, FS_CardinalityType

LEMMA ShutdownInitInv == ShutdownInit => ShutdownIInv
<1> SUFFICES ASSUME ShutdownInit PROVE ShutdownIInv
  OBVIOUS
<1>1. Live = {}
  BY DEF ShutdownInit, Live
<1>2. Cardinality(Live) = 0
  BY <1>1, LiveFinite, FS_EmptySet
<1>3. ShutdownTypeOK
  BY DEF ShutdownInit, ShutdownTypeOK
<1> QED BY <1>1, <1>2, <1>3 DEF ShutdownInit, ShutdownIInv, CountInv, ReadyInv

LEMMA ShutdownStepInv == ShutdownIInv /\ [ShutdownNext]_shutdownVars => ShutdownIInv'
<1> SUFFICES ASSUME ShutdownIInv, [ShutdownNext]_shutdownVars PROVE ShutdownIInv'
  OBVIOUS
<1> USE DEF ShutdownIInv, ShutdownTypeOK
<1>1. ASSUME UNCHANGED <<task, count>>, main' \in {"ready", "exited"} => Live = {},
             ShutdownTypeOK'
      PROVE  ShutdownIInv'
  <2>1. Live' = Live
    BY <1>1 DEF Live
  <2> QED BY <1>1, <2>1 DEF CountInv, ReadyInv
<1>2. CASE Serve \/ StartShutdown \/ Drained \/ Register \/ Poll \/ OtherWake
  BY <1>1, <1>2 DEF Serve, StartShutdown, Drained, Register, Poll, OtherWake, ReadyInv
<1>3. CASE Check
  <2>1. count = 1 => Live = {}
    BY LiveFinite, FS_EmptySet DEF CountInv
  <2> QED BY <1>1, <1>3, <2>1 DEF Check
<1>4. CASE Finish
  BY <1>1, <1>4 DEF Finish, ReadyInv
<1>5. ASSUME NEW t \in Tasks, Spawn(t) PROVE ShutdownIInv'
  <2>1. t \notin Live /\ Live' = Live \cup {t}
    BY <1>5 DEF Spawn, Live
  <2>2. Cardinality(Live') = Cardinality(Live) + 1
    BY <2>1, LiveFinite, FS_AddElement
  <2> QED BY <1>5, <2>2, LiveFinite DEF Spawn, CountInv, ReadyInv
<1>6. ASSUME NEW t \in Tasks, Drop(t) \/ Wake(t) PROVE ShutdownIInv'
  <2>1. Live' = Live
    BY <1>6 DEF Drop, Wake, Live
  <2> QED BY <1>6, <2>1 DEF Drop, Wake, CountInv, ReadyInv
<1>7. ASSUME NEW t \in Tasks, Release(t) PROVE ShutdownIInv'
  <2>1. t \in Live /\ Live' = Live \ {t}
    BY <1>7 DEF Release, Live
  <2>2. Cardinality(Live') = Cardinality(Live) - 1
    BY <2>1, LiveFinite, FS_RemoveElement
  <2>3. IsFiniteSet(Live')
    BY <2>1, LiveFinite, FS_RemoveElement
  <2>4. Cardinality(Live') \in Nat
    BY <2>3, FS_CardinalityType
  <2> QED BY <1>7, <2>1, <2>2, <2>4, LiveFinite DEF Release, CountInv, ReadyInv
<1>8. CASE UNCHANGED shutdownVars
  BY <1>1, <1>8 DEF shutdownVars, ReadyInv
<1> QED BY <1>2, <1>3, <1>4, <1>5, <1>6, <1>7, <1>8 DEF ShutdownNext

\* Every variable keeps its type: no handle is released twice.
THEOREM ShutdownTypeCorrect == ShutdownSpec => []ShutdownTypeOK
<1>1. ShutdownIInv => ShutdownTypeOK
  BY DEF ShutdownIInv
<1> QED BY <1>1, ShutdownInitInv, ShutdownStepInv, PTL DEF ShutdownSpec

\* A shutdown completes only when no task holds a handle.
THEOREM ShutdownWaitsForAll == ShutdownSpec => []WaitsForAll
<1>1. ShutdownIInv => WaitsForAll
  BY DEF ShutdownIInv, ReadyInv, Live, WaitsForAll
<1> QED BY <1>1, ShutdownInitInv, ShutdownStepInv, PTL DEF ShutdownSpec

==============================================================================
