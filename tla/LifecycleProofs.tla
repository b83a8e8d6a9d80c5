--------------------------- MODULE LifecycleProofs ---------------------------
(***************************************************************************)
(* The life of a process, for any manifests, databases, tasks and other    *)
(* processes.                                                              *)
(*                                                                         *)
(* Every step is one of Shutdown, or leaves its variables alone, and the   *)
(* same goes for Instances: what is proved of them holds here.  The rest   *)
(* follows from one invariant: whenever no reload is under way, router,    *)
(* pool and tokens are those of the manifest; while one is, they are those *)
(* of the manifest it would roll back to.                                  *)
(***************************************************************************)
EXTENDS Lifecycle, ShutdownProofs, InstancesProofs

LEMMA ShutdownStep == [LifecycleNext]_lifecycleVars => [ShutdownNext]_shutdownVars
<1> SUFFICES ASSUME [LifecycleNext]_lifecycleVars
             PROVE  ShutdownNext \/ UNCHANGED shutdownVars
  OBVIOUS
<1> USE DEF ShutdownNext
<1>1. CASE Edit \/ TwitterLogin \/ Others \/ ReadManifest \/ OpenLock \/ TryLock \/ StartServer
           \/ NewCore \/ Started \/ StartFails
  BY <1>1 DEF Edit, TwitterLogin, Others, ReadManifest, OpenLock, TryLock, StartServer,
              NewCore, Started, StartFails
<1>2. CASE \E request \in {"reload", "shutdown"} : Ctl(request)
  BY <1>2 DEF Ctl
<1>3. CASE \E t \in Tasks : SpawnTask(t) \/ TaskStep(t)
  BY <1>3 DEF SpawnTask, TaskStep
<1>4. CASE Wait \/ ExhaustList
  BY <1>4 DEF Wait, ExhaustList
<1>5. CASE AppReturns \/ Reconnected \/ Restarted \/ ResetFails
  BY <1>5 DEF AppReturns, Reconnected, Restarted, ResetFails
<1>6. CASE Signal \/ TakeShutdown \/ Quit \/ Exit \/ Crash
  BY <1>6 DEF Signal, TakeShutdown, Quit, Exit, Crash
<1>7. CASE \E m \in OpenManifest : TakeReload(m)
  BY <1>7 DEF TakeReload
<1>8. CASE RejectReload \/ Reloaded \/ ReloadFails
  BY <1>8 DEF RejectReload, Reloaded, ReloadFails
<1>9. CASE UNCHANGED lifecycleVars
  BY <1>9 DEF lifecycleVars
<1> QED BY <1>1, <1>2, <1>3, <1>4, <1>5, <1>6, <1>7, <1>8, <1>9 DEF LifecycleNext

LEMMA InstancesStep == [LifecycleNext]_lifecycleVars => [InstancesNext]_instanceVars
<1> SUFFICES ASSUME [LifecycleNext]_lifecycleVars
             PROVE  InstancesNext \/ UNCHANGED instanceVars
  OBVIOUS
<1>1. ASSUME Instance(Me) PROVE InstancesNext
  BY <1>1, LifecycleAssumption DEF InstancesNext
<1>2. CASE OpenLock \/ TryLock \/ StartServer \/ Exit \/ Crash
  BY <1>1, <1>2 DEF OpenLock, TryLock, StartServer, Exit, Crash, Instance
<1>3. CASE Others
  BY <1>3 DEF Others, InstancesNext
<1>4. CASE Edit \/ TwitterLogin \/ ReadManifest \/ NewCore \/ Started \/ StartFails
  BY <1>4 DEF Edit, TwitterLogin, ReadManifest, NewCore, Started, StartFails
<1>5. CASE \E request \in {"reload", "shutdown"} : Ctl(request)
  BY <1>5 DEF Ctl
<1>6. CASE \E t \in Tasks : SpawnTask(t) \/ TaskStep(t)
  BY <1>6 DEF SpawnTask, TaskStep
<1>7. CASE Wait \/ ExhaustList \/ AppReturns \/ Reconnected \/ Restarted \/ ResetFails
  BY <1>7 DEF Wait, ExhaustList, AppReturns, Reconnected, Restarted, ResetFails
<1>8. CASE Signal \/ TakeShutdown \/ Quit
  BY <1>8 DEF Signal, TakeShutdown, Quit
<1>9. CASE \E m \in OpenManifest : TakeReload(m)
  BY <1>9 DEF TakeReload
<1>10. CASE RejectReload \/ Reloaded \/ ReloadFails
  BY <1>10 DEF RejectReload, Reloaded, ReloadFails
<1>11. CASE UNCHANGED lifecycleVars
  BY <1>11 DEF lifecycleVars
<1> QED BY <1>2, <1>3, <1>4, <1>5, <1>6, <1>7, <1>8, <1>9, <1>10, <1>11 DEF LifecycleNext

\* The life cycle drives the shutdown as Shutdown says, and the lock and the socket as
\* Instances says.
THEOREM ImplementsShutdown == LifecycleSpec => ShutdownSpec
<1>1. LifecycleInit => ShutdownInit
  BY DEF LifecycleInit
<1> QED BY <1>1, ShutdownStep, PTL DEF LifecycleSpec, ShutdownSpec

THEOREM ImplementsInstances == LifecycleSpec => InstancesSpec
<1>1. LifecycleInit => InstancesInit
  BY DEF LifecycleInit
<1> QED BY <1>1, InstancesStep, PTL DEF LifecycleSpec, InstancesSpec

\* Neither a reset nor an end of the process is complete under a task that posts.
THEOREM LifecycleWaitsForAll == LifecycleSpec => []WaitsForAll
BY ImplementsShutdown, ShutdownWaitsForAll, PTL

\* Whoever else runs on the manifest, a listening process is reachable.
THEOREM LifecycleReachable == LifecycleSpec => []ServerIsReachable
BY ImplementsInstances, ListenersReachable, PTL

------------------------------------------------------------------------------
(* Manifests.                                                                *)

LEMMA OpenedIsValid == ASSUME NEW m \in OpenManifest PROVE Valid(m)
<1> DEFINE document == Documents[file]
           fields == {"rule", "database_url", "twitter"}
<1>1. PICK n \in ManifestOf(document) : m = Resolved(n, ManifestPath)
  BY DEF OpenManifest
<1>2. m.rule = n.rule /\ m.twitter = n.twitter
  BY <1>1 DEF Resolved, ManifestOf
<1>3. Valid(n)
  BY DEF ManifestOf
<1> QED BY <1>2, <1>3 DEF Valid, TwitterTopics, TwitterOutboxes, TopicSet

LEMMA SameUrl ==
  ASSUME NEW m, NEW n, m.database_url = n.database_url PROVE Url(m) = Url(n)
BY DEF Url, DatabaseUrl

------------------------------------------------------------------------------
(* Router, pool and tokens.                                                  *)

\* They are those of the manifest `m`.
Settled(m, p) ==
    /\ Valid(m) /\ routed = m
    /\ p = Url(m) /\ p \in Databases
    /\ NeedsTokens(m) \subseteq tokens

AppInv ==
    /\ phase \in {"read", "opened", "locked"} => Valid(manifest)
    /\ phase = "starting" \/ Up => Settled(manifest, pool)
    /\ phase = "reloading" =>
          /\ Settled(saved.manifest, saved.pool)
          /\ Valid(manifest) /\ pool = Url(manifest) /\ pool \in Databases

LEMMA AppInitInv == LifecycleInit => AppInv
BY DEF LifecycleInit, AppInv, Up

LEMMA AppStepInv == AppInv /\ [LifecycleNext]_lifecycleVars => AppInv'
<1> SUFFICES ASSUME AppInv, [LifecycleNext]_lifecycleVars PROVE AppInv'
  OBVIOUS
<1>1. ASSUME UNCHANGED app, UNCHANGED phase PROVE AppInv'
  BY <1>1 DEF AppInv, Settled, Up, app, Url, NeedsTokens
<1>2. CASE Edit \/ TwitterLogin \/ Others
  BY <1>1, <1>2 DEF Edit, TwitterLogin, Others
<1>3. CASE \E request \in {"reload", "shutdown"} : Ctl(request)
  BY <1>1, <1>3 DEF Ctl
<1>4. CASE ReadManifest
  BY <1>4, OpenedIsValid DEF ReadManifest, AppInv, Up
<1>5. CASE OpenLock \/ TryLock \/ StartServer
  BY <1>1, <1>5 DEF OpenLock, TryLock, StartServer, Gone, AppInv, Up, app
<1>6. CASE NewCore
  BY <1>6 DEF NewCore, AppInv, Settled, Up, Url, NeedsTokens
<1>7. CASE Started
  BY <1>7 DEF Started, AppInv, Settled, Up, Url, NeedsTokens
<1>8. CASE \E t \in Tasks : SpawnTask(t) \/ TaskStep(t)
  BY <1>1, <1>8 DEF SpawnTask, TaskStep
<1>9. CASE Wait \/ ExhaustList
  BY <1>1, <1>9 DEF Wait, ExhaustList, AppInv, Settled, Up, Url, NeedsTokens
<1>10. CASE AppReturns \/ Reconnected \/ Restarted
  BY <1>10 DEF AppReturns, Reconnected, Restarted, AppInv, Settled, Up, Url, NeedsTokens, app
<1>11. CASE StartFails \/ ResetFails
  BY <1>11 DEF StartFails, ResetFails, AppInv, Up
<1>12. CASE Signal \/ TakeShutdown
  BY <1>12 DEF Signal, TakeShutdown, AppInv, Settled, Up, Url, NeedsTokens, app
<1>13. CASE Quit \/ Exit \/ Crash
  BY <1>1, <1>13 DEF Quit, Exit, Crash, Gone, AppInv, Up
<1>14. ASSUME NEW m \in OpenManifest, TakeReload(m) PROVE AppInv'
  <2>1. phase = "running" /\ phase' = "reloading"
    BY <1>14 DEF TakeReload
  <2>2. Settled(manifest, pool)
    BY <2>1 DEF AppInv, Up
  <2>3. manifest' = m /\ routed' = routed /\ tokens \subseteq tokens'
        /\ saved' = [manifest |-> manifest, pool |-> pool]
    BY <1>14 DEF TakeReload
  <2>4. pool' = Url(m) /\ pool' \in Databases
    BY <1>14, <2>2, SameUrl DEF TakeReload, Settled
  <2>5. saved'.manifest = manifest /\ saved'.pool = pool
    BY <2>3
  <2>6. Settled(saved.manifest, saved.pool)'
    BY <2>2, <2>3, <2>5 DEF Settled, Url, NeedsTokens
  <2>7. Valid(manifest)' /\ pool' = Url(manifest')
    BY <2>3, <2>4, OpenedIsValid
  <2> QED BY <2>1, <2>4, <2>6, <2>7 DEF AppInv, Up
<1>15. CASE RejectReload
  BY <1>15 DEF RejectReload, ReloadAnswered, AppInv, Settled, Up, Url, NeedsTokens, app
<1>16. CASE Reloaded
  <2>1. phase = "reloading" /\ phase' = "running"
    BY <1>16 DEF Reloaded, ReloadAnswered
  <2>2. NeedsTokens(manifest) \subseteq tokens
    BY <1>16 DEF Reloaded, Reinitialized, Authorized
  <2>3. manifest' = manifest /\ routed' = manifest /\ pool' = pool
        /\ tokens' = tokens \cap NeedsTokens(manifest)
    BY <1>16 DEF Reloaded, Kept
  <2> QED BY <2>1, <2>2, <2>3 DEF AppInv, Settled, Up, Url, NeedsTokens
<1>17. CASE ReloadFails
  <2>1. phase = "reloading" /\ phase' \in {"running", "exiting"}
    BY <1>17 DEF ReloadFails, ReloadAnswered
  <2>2. manifest' = saved.manifest /\ pool' = saved.pool /\ routed' = routed /\ tokens' = tokens
    BY <1>17 DEF ReloadFails, RolledBack
  <2> QED BY <2>1, <2>2 DEF AppInv, Settled, Up, Url, NeedsTokens
<1>18. CASE UNCHANGED lifecycleVars
  BY <1>1, <1>18 DEF lifecycleVars
<1> QED BY <1>2, <1>3, <1>4, <1>5, <1>6, <1>7, <1>8, <1>9, <1>10, <1>11, <1>12, <1>13, <1>14,
           <1>15, <1>16, <1>17, <1>18 DEF LifecycleNext

LEMMA AppInvariant == LifecycleSpec => []AppInv
BY AppInitInv, AppStepInv, PTL DEF LifecycleSpec

\* No `unwrap` of a token panics, however often the manifest was reloaded and however far
\* a reload that failed had come.
THEOREM TokensAlwaysCover == LifecycleSpec => []TokensCoverRouter
<1>1. AppInv => TokensCoverRouter
  BY DEF AppInv, Settled, TokensCoverRouter, Valid, NeedsTokens, TokenUsers
<1> QED BY <1>1, AppInvariant, PTL

\* After every reload, whether it succeeded or was rolled back, router and pool are those
\* of the manifest in force.
THEOREM AlwaysConsistent == LifecycleSpec => []Consistent
<1>1. AppInv => Consistent
  BY DEF AppInv, Settled, Consistent
<1> QED BY <1>1, AppInvariant, PTL

------------------------------------------------------------------------------
(* Answers.                                                                  *)

AnswerInv == [kind |-> "shutdown", ok |-> TRUE] \in answer => main = "exited"

LEMMA StaysExited ==
  main = "exited" /\ [ShutdownNext]_shutdownVars => main' = "exited"
BY DEF ShutdownNext, shutdownVars, Serve, StartShutdown, Drained, Check, Register, Poll, Finish,
       OtherWake, Spawn, Drop, Wake, Release

LEMMA AnswerStepInv == AnswerInv /\ [LifecycleNext]_lifecycleVars => AnswerInv'
<1> SUFFICES ASSUME AnswerInv, [LifecycleNext]_lifecycleVars PROVE AnswerInv'
  OBVIOUS
<1> DEFINE done == [kind |-> "shutdown", ok |-> TRUE]
<1>1. ASSUME UNCHANGED answer PROVE AnswerInv'
  BY <1>1, ShutdownStep, StaysExited DEF AnswerInv
<1>2. ASSUME NEW ok \in BOOLEAN, Answer("reload", ok) PROVE AnswerInv'
  BY <1>2 DEF Answer, AnswerInv
<1>3. CASE Edit \/ TwitterLogin \/ Others \/ ReadManifest \/ OpenLock \/ TryLock \/ StartServer
           \/ NewCore \/ Started \/ StartFails
  BY <1>1, <1>3 DEF Edit, TwitterLogin, Others, ReadManifest, OpenLock, TryLock, StartServer,
              NewCore, Started, StartFails, ctl
<1>4. CASE \E request \in {"reload", "shutdown"} : Ctl(request)
  BY <1>1, <1>4 DEF Ctl
<1>5. CASE \E t \in Tasks : SpawnTask(t) \/ TaskStep(t)
  BY <1>1, <1>5 DEF SpawnTask, TaskStep, ctl
<1>6. CASE Wait \/ ExhaustList \/ AppReturns \/ Reconnected \/ Restarted \/ Signal \/ Exit \/ Crash
  BY <1>1, <1>6 DEF Wait, ExhaustList, AppReturns, Reconnected, Restarted, Signal, Exit, Crash, ctl
<1>7. CASE ResetFails
  BY <1>1, <1>7 DEF ResetFails, Answer, AnswerInv
<1>8. CASE Quit
  BY <1>8 DEF Quit, AnswerInv
<1>9. CASE TakeShutdown
  BY <1>9 DEF TakeShutdown, AnswerInv
<1>10. CASE \E m \in OpenManifest : TakeReload(m)
  BY <1>10 DEF TakeReload, AnswerInv
<1>11. CASE RejectReload \/ Reloaded \/ ReloadFails
  BY <1>1, <1>2, <1>11 DEF RejectReload, Reloaded, ReloadFails, ReloadAnswered
<1>12. CASE UNCHANGED lifecycleVars
  BY <1>1, <1>12 DEF lifecycleVars, ctl
<1> QED BY <1>3, <1>4, <1>5, <1>6, <1>7, <1>8, <1>9, <1>10, <1>11, <1>12 DEF LifecycleNext

\* The answer to `pipitor ctl shutdown` comes after every task has ended.
THEOREM AnswerComesLast == LifecycleSpec => []AnsweredMeansDone
<1>1. LifecycleInit => AnswerInv
  BY DEF LifecycleInit, AnswerInv
<1>2. WaitsForAll /\ AnswerInv => AnsweredMeansDone
  BY DEF WaitsForAll, AnswerInv, AnsweredMeansDone
<1> QED BY <1>1, <1>2, AnswerStepInv, LifecycleWaitsForAll, PTL DEF LifecycleSpec

------------------------------------------------------------------------------
(* Types.                                                                    *)

TypeInv ==
    /\ file \in DOMAIN Documents /\ phase \in Phases
    /\ DOMAIN table = Databases
    /\ stream \in BOOLEAN /\ list \in BOOLEAN
    /\ requests \in Seq({"reload", "shutdown"}) /\ Len(requests) <= MaxRequests
    /\ serving \in {"none", "reload", "shutdown"}

LEMMA NoRequests == <<>> \in Seq({"reload", "shutdown"}) /\ Len(<<>>) <= MaxRequests
<1>1. MaxRequests \in Nat
  BY LifecycleAssumption
<1> QED BY <1>1

LEMMA TypeInitInv == LifecycleInit => TypeInv
<1> SUFFICES ASSUME LifecycleInit PROVE TypeInv
  OBVIOUS
<1>1. DOMAIN table = Databases
  BY LifecycleAssumption DEF LifecycleInit
<1> QED BY <1>1, NoRequests DEF LifecycleInit, TypeInv, Phases

LEMMA TypeStepInv == TypeInv /\ [LifecycleNext]_lifecycleVars => TypeInv'
<1> SUFFICES ASSUME TypeInv, [LifecycleNext]_lifecycleVars PROVE TypeInv'
  OBVIOUS
<1> USE DEF TypeInv, Phases, app, ctl, world
<1>1. ASSUME requests # <<>>
      PROVE  Tail(requests) \in Seq({"reload", "shutdown"}) /\ Len(Tail(requests)) <= MaxRequests
  BY <1>1, LifecycleAssumption
<1>2. CASE Edit \/ TwitterLogin \/ Others
  BY <1>2 DEF Edit, TwitterLogin, Others
<1>3. CASE \E request \in {"reload", "shutdown"} : Ctl(request)
  <2>1. MaxRequests \in Nat
    BY LifecycleAssumption
  <2>2. PICK request \in {"reload", "shutdown"} : Ctl(request)
    BY <1>3
  <2>3. requests' \in Seq({"reload", "shutdown"}) /\ Len(requests') = Len(requests) + 1
    BY <2>2 DEF Ctl
  <2> QED BY <2>1, <2>2, <2>3 DEF Ctl
<1>4. CASE ReadManifest \/ OpenLock \/ TryLock \/ StartServer \/ NewCore
  BY <1>4, NoRequests DEF ReadManifest, OpenLock, TryLock, StartServer, NewCore, Gone
<1>5. CASE Started \/ StartFails
  BY <1>5 DEF Started, StartFails, WantsStream, WantsList
<1>6. CASE \E t \in Tasks : SpawnTask(t) \/ TaskStep(t)
  BY <1>6 DEF SpawnTask, TaskStep
<1>7. CASE Wait \/ ExhaustList
  BY <1>7 DEF Wait, ExhaustList
<1>8. CASE AppReturns \/ Reconnected \/ Restarted \/ ResetFails
  BY <1>8 DEF AppReturns, Reconnected, Restarted, ResetFails, WantsStream
<1>9. CASE Signal \/ TakeShutdown \/ Quit
  BY <1>1, <1>9 DEF Signal, TakeShutdown, Quit
<1>10. CASE Exit \/ Crash
  BY <1>10, NoRequests DEF Exit, Crash, Gone
<1>11. CASE \E m \in OpenManifest : TakeReload(m)
  BY <1>1, <1>11 DEF TakeReload
<1>12. CASE RejectReload
  BY <1>1, <1>12 DEF RejectReload, ReloadAnswered
<1>13. CASE Reloaded \/ ReloadFails
  BY <1>13 DEF Reloaded, ReloadFails, ReloadAnswered, Reinitialized, WantsStream, WantsList
<1>14. CASE UNCHANGED lifecycleVars
  BY <1>14 DEF lifecycleVars
<1> QED BY <1>2, <1>3, <1>4, <1>5, <1>6, <1>7, <1>8, <1>9, <1>10, <1>11, <1>12, <1>13, <1>14
        DEF LifecycleNext

\* Every variable keeps its type, and a process that is up has a database it could open.
THEOREM LifecycleTypeCorrect == LifecycleSpec => []LifecycleTypeOK
<1>1. LifecycleSpec => []ShutdownTypeOK
  BY ImplementsShutdown, ShutdownTypeCorrect, PTL
<1>2. InstancesIInv => InstancesTypeOK
  BY DEF InstancesIInv
<1>3. TypeInv /\ AppInv /\ ShutdownTypeOK /\ InstancesTypeOK => LifecycleTypeOK
  BY DEF TypeInv, AppInv, Settled, Up, LifecycleTypeOK
<1> QED BY <1>1, <1>2, <1>3, TypeInitInv, TypeStepInv, AppInvariant,
           ImplementsInstances, InstancesInvariant, PTL DEF LifecycleSpec

==============================================================================
