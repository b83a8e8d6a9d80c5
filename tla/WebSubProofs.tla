---------------------------- MODULE WebSubProofs -----------------------------
(***************************************************************************)
(* WebSub keeps its safety invariants for any number of ids, hubs, topics, *)
(* handlers, crashes, reloads and operator commands.                       *)
(*                                                                         *)
(* The argument: a handler works on what it read statements before.  What  *)
(* it read can only have changed in ways that HandlerInv lists, because    *)
(* ids are never drawn twice and a renewing row goes only with one of its  *)
(* ends or with the activation of the new one, which follows the removal   *)
(* of the old one.  The new subscription goes before the old only at an    *)
(* operator's hand (GoneByCli).  From that, a row the scheduler loaded for *)
(* renewal is removed by a handler only after an operator's command        *)
(* (ExpiringInv).                                                          *)
(*                                                                         *)
(* A wake is not lost because the scheduler task, from its first poll on,  *)
(* has its waker registered or a wake pending (WakeInv).                   *)
(*                                                                         *)
(* A feed is not subscribed to twice because the subscriptions that        *)
(* replace no other, with the discoveries in flight, are at most one more  *)
(* than the reloads (RootsInv).                                            *)
(***************************************************************************)
EXTENDS WebSub, SubscriptionStoreProofs, FiniteSetTheorems, WellFoundedInduction

------------------------------------------------------------------------------
(* The minimum.                                                              *)

LEMMA LeastNat ==
  ASSUME NEW S \in SUBSET Nat
  PROVE  Least(S) \in Nat /\ (S # {} => Least(S) \in S /\ \A u \in S : Least(S) <= u)
<1>1. CASE S = {}
  BY <1>1, ClockAssumption DEF Least
<1>2. CASE S # {}
  <2> DEFINE R == OpToRel(<, Nat)
  <2>1. IsWellFoundedOn(R, Nat)
    BY NatLessThanWellFounded
  <2>2. \A x, y \in Nat : ~(<<y, x>> \in R) => x <= y
    <3>1. \A x, y \in Nat : y < x => <<y, x>> \in R
      BY Zenon DEF OpToRel
    <3>2. \A x, y \in Nat : ~(y < x) => x <= y
      OBVIOUS
    <3> QED BY <3>1, <3>2, Zenon
  <2> HIDE DEF R
  <2>3. \E x \in S : \A y \in S : ~(<<y, x>> \in R)
    BY <1>2, <2>1, WFMin, Zenon
  <2>4. PICK x \in S : \A y \in S : x <= y
    BY <2>2, <2>3, Zenon
  <2> QED BY <1>2, <2>4 DEF Least
<1> QED BY <1>1, <1>2

LEMMA LeastPair ==
  ASSUME NEW a \in Nat, NEW b \in Nat
  PROVE  Least({a, b}) \in Nat /\ Least({a, b}) <= a /\ Least({a, b}) <= b
BY LeastNat

LEMMA RefreshTimeNat ==
  ASSUME NEW t \in Times
  PROVE  refresh_time(t) \in Nat
BY TimesAssumption, ClockAssumption DEF refresh_time

\* The ticks computed from a set of active rows.
LEMMA LeastRefreshNat ==
  ASSUME StoreTypeOK, NEW S \in SUBSET Active
  PROVE  Least({refresh_time(expiry[i]) : i \in S}) \in Nat
<1>1. \A i \in S : expiry[i] \in Times
  BY DEF StoreTypeOK, Active
<1>2. {refresh_time(expiry[i]) : i \in S} \in SUBSET Nat
  BY <1>1, RefreshTimeNat
<1> QED BY <1>2, LeastNat

------------------------------------------------------------------------------
(* The inductive invariant.                                                  *)

\* What a handler has read still holds, or has been overtaken in a known way.
HandlerOK(v) ==
    /\ v.pc # "idle" => app = "running" /\ v.id \in used /\ v.expires_at \in Times
    /\ v.pc \in {"find_hub", "unsubscribe_old"} =>
         /\ v.old \in used
         /\ v.old \in Held => v.old \in Active
         /\ v.id \in Held =>
              renewing[v.id] = v.old \/ (v.old \notin Held /\ renewing[v.id] = NoId)
         /\ v.id \notin Held /\ v.old \in Held => clis > 0
    /\ v.pc = "unsubscribe_old" => v.feed \in Feeds
    /\ v.pc = "activate" /\ v.id \in Held => renewing[v.id] = NoId

HandlerInv == \A h \in Handlers : HandlerOK(handler[h])

SentInv == \A r \in sent : r.id \in used /\ (r.mode = "unsubscribe" => r.id \notin Held)

ExpiringInv ==
    /\ sched = "renew" => clis > 0 \/ \A i \in expiring : Renewable(i)
    /\ sched = "dead" => clis > 0

WakeInv == sched \notin {"down", "dead"} => registered \/ notified

TypedInv == StoreInv /\ AppTypeOK /\ HandlerInv /\ SentInv
SchedInv == ExpiringInv /\ WakeInv /\ NoLostWakeup
IInv == TypedInv /\ SchedInv

------------------------------------------------------------------------------
(* The tables change by the transactions of SubscriptionStore only.          *)

\* A reload or start-up removes nothing: the topics it knows to be subscribed are all
\* of the manifest (app.rs:416).
LEMMA SyncRemovesNothing ==
  ASSUME NEW topics
  PROVE  {i \in Held : subs[i].topic \in Subscribed(topics) \ topics} = {}
BY DEF Subscribed

\* The steps of a handler that only read the tables.
Reading(h) == VerifySubscribe(h) \/ Hasten(h) \/ Wake(h) \/ FindOld(h) \/ FindHub(h)

LEMMA ReadingStep ==
  ASSUME AppTypeOK, NEW h \in Handlers, Reading(h)
  PROVE  /\ UNCHANGED <<storeVars, now, app, manifest, discovering, countVars, delay, sched,
                         expiring, found>>
         /\ \A g \in Handlers : g # h => handler'[g] = handler[g]
         /\ handler[h].pc # "activate"
<1>1. CASE VerifySubscribe(h)
  BY <1>1 DEF VerifySubscribe, Step, Idle, AppTypeOK
<1>2. CASE Hasten(h) \/ Wake(h)
  BY <1>2 DEF Hasten, Wake, Step, AppTypeOK
<1>3. CASE FindOld(h) \/ FindHub(h)
  BY <1>3 DEF FindOld, FindHub, Step, AppTypeOK
<1> QED BY <1>1, <1>2, <1>3 DEF Reading

LEMMA StepIsStoreStep == TypedInv /\ [Next]_vars => [StoreNext]_storeVars
<1> SUFFICES ASSUME TypedInv, [Next]_vars PROVE [StoreNext]_storeVars
  OBVIOUS
<1> USE DEF TypedInv
<1>1. CASE SchedulerStep
  <2>1. CASE SchedulerRenew
    BY <2>1 DEF SchedulerRenew, StoreNext, AppTypeOK
  <2>2. CASE SchedulerRegister \/ SchedulerArm \/ SchedulerLoad \/ SchedulerPanic \/ SchedulerQuery
             \/ SchedulerStore
    BY <2>2 DEF SchedulerRegister, Polled, SchedulerArm, SchedulerLoad, SchedulerPanic, SchedulerQuery,
       SchedulerStore
  <2> QED BY <1>1, <2>1, <2>2 DEF SchedulerStep, SchedulerPoll
<1>2. ASSUME NEW h \in Handlers, VerifySubscribe(h) \/ HandlerStep(h)
      PROVE  [StoreNext]_storeVars
  <2>1. CASE UnsubscribeOld(h)
    <3>1. handler[h].pc = "unsubscribe_old" /\ {handler[h].old} \in SUBSET Ids
      BY <2>1 DEF UnsubscribeOld, HandlerInv, HandlerOK, StoreInv, StoreTypeOK
    <3> QED BY <2>1, <3>1 DEF UnsubscribeOld, StoreNext
  <2>2. CASE ActivateNew(h)
    <3>1. handler[h].id \in Ids /\ handler[h].expires_at \in Times
      BY <2>2 DEF ActivateNew, HandlerInv, HandlerOK, StoreInv, StoreTypeOK
    <3> QED BY <2>2, <3>1 DEF ActivateNew, StoreNext
  <2>3. CASE Reading(h)
    BY <2>3, ReadingStep
  <2> QED BY <1>2, <2>1, <2>2, <2>3 DEF HandlerStep, Reading
<1>3. CASE RemoveDangling
  BY <1>3 DEF RemoveDangling, StoreNext, Held
<1>4. CASE StartUpSync \/ Reload
  BY <1>4, SyncRemovesNothing DEF StartUpSync, Reload, Sync, StoreNext
<1>5. ASSUME NEW f \in Feeds, Discovered(f) \/ NotDiscovered(f)
      PROVE  [StoreNext]_storeVars
  BY <1>5 DEF Discovered, NotDiscovered, StoreNext
<1>6. CASE CliUnsubscribe
  BY <1>6 DEF CliUnsubscribe, StoreNext, Held
<1>7. CASE Start \/ Crash \/ ClockTick \/ UNCHANGED vars
  BY <1>7 DEF Start, Crash, ClockTick, vars
<1> QED BY <1>1, <1>2, <1>3, <1>4, <1>5, <1>6, <1>7 DEF Next

LEMMA StepStoreInv == TypedInv /\ [Next]_vars => StoreInv'
BY StepIsStoreStep, StoreStepInv DEF TypedInv

------------------------------------------------------------------------------
(* Types.                                                                    *)

LEMMA InitTyped == Init => TypedInv /\ SchedInv
<1> SUFFICES ASSUME Init PROVE TypedInv /\ SchedInv
  OBVIOUS
<1>1. StoreInv
  BY StoreInitInv DEF Init
<1>2. AppTypeOK
  BY ClockAssumption DEF Init, AppTypeOK, HandlerStates, Idle
<1>3. HandlerInv /\ SentInv
  BY DEF Init, HandlerInv, HandlerOK, SentInv, Idle
<1>4. SchedInv
  BY DEF Init, SchedInv, ExpiringInv, WakeInv, NoLostWakeup
<1> QED BY <1>1, <1>2, <1>3, <1>4 DEF TypedInv

LEMMA HandlerStateEdit ==
  ASSUME NEW v \in HandlerStates,
         NEW pc \in {"idle", "hasten", "wake", "find_old", "find_hub", "unsubscribe_old",
                    "activate"},
         NEW old \in Ids \cup {NoId}, NEW feed \in Feeds \cup {NoFeed}
  PROVE  /\ [v EXCEPT !.pc = pc] \in HandlerStates
         /\ [v EXCEPT !.pc = pc, !.old = old] \in HandlerStates
         /\ [v EXCEPT !.pc = pc, !.feed = feed] \in HandlerStates
BY DEF HandlerStates

LEMMA StepAppTypeOK == TypedInv /\ [Next]_vars => AppTypeOK'
<1> SUFFICES ASSUME TypedInv, [Next]_vars PROVE AppTypeOK'
  OBVIOUS
<1> USE DEF countVars, schedVars, appVars
<1>0. StoreTypeOK /\ AppTypeOK /\ Never \in Nat /\ Idle \in HandlerStates
  BY ClockAssumption DEF TypedInv, StoreInv, HandlerStates, Idle
<1>1. CASE SchedulerPoll
  <2>1. CASE SchedulerRegister
    BY <1>0, <2>1 DEF SchedulerRegister, Polled, AppTypeOK
  <2>2. CASE SchedulerArm
    <3>1. delay' \in Nat
      BY <1>0, <2>2, LeastPair DEF SchedulerArm, AppTypeOK
    <3> QED BY <1>0, <2>2, <3>1 DEF SchedulerArm, AppTypeOK
  <2> QED BY <1>1, <2>1, <2>2 DEF SchedulerPoll
<1>2. CASE SchedulerLoad
  BY <1>0, <1>2 DEF SchedulerLoad, AppTypeOK, Expiring, Active
<1>3. CASE SchedulerRenew
  <2>1. PICK old \in expiring, new \in Ids :
          /\ Renewable(old)
          /\ sent' = sent \cup {[mode |-> "subscribe", id |-> new, feed |-> subs[old]]}
          /\ expiring' = expiring \ {old}
          /\ sched' = IF expiring' = {} THEN "query" ELSE "renew"
    BY <1>3 DEF SchedulerRenew
  <2>2. subs[old] \in Feeds
    BY <1>0, <2>1 DEF TypedInv, StoreInv, StoreConsistent, EachHeldOnce, Renewable, Held,
       StoreTypeOK, AppTypeOK
  <2> QED BY <1>0, <1>3, <2>1, <2>2 DEF SchedulerRenew, AppTypeOK, Requests
<1>4. CASE SchedulerPanic
  BY <1>0, <1>4 DEF SchedulerPanic, AppTypeOK
<1>5. CASE SchedulerQuery
  <2>1. NextTick \in Nat
    BY <1>0, LeastRefreshNat DEF NextTick
  <2> QED BY <1>0, <1>5, <2>1 DEF SchedulerQuery, AppTypeOK
<1>6. CASE SchedulerStore
  BY <1>0, <1>6 DEF SchedulerStore, AppTypeOK
<1>7. ASSUME NEW h \in Handlers, VerifySubscribe(h) PROVE AppTypeOK'
  <2>1. PICK r \in sent, lease \in Leases :
          /\ now + lease \in Times
          /\ Step(h, [Idle EXCEPT !.pc = "hasten", !.id = r.id, !.expires_at = now + lease])
    BY <1>7 DEF VerifySubscribe
  <2>2. r.id \in Ids
    BY <1>0 DEF AppTypeOK, Requests
  <2>3. handler' \in [Handlers -> HandlerStates]
    BY <1>0, <2>1, <2>2 DEF Step, AppTypeOK, HandlerStates, Idle
  <2> QED BY <1>0, <1>7, <2>1, <2>3 DEF VerifySubscribe, Step, AppTypeOK
<1>8. ASSUME NEW h \in Handlers, HandlerStep(h) PROVE AppTypeOK'
  <2> DEFINE v == handler[h]
  <2>0. v \in HandlerStates
    BY <1>0 DEF AppTypeOK
  <2>1. CASE Hasten(h)
    <3>1. v.expires_at \in Times
      BY <2>1 DEF Hasten, TypedInv, HandlerInv, HandlerOK
    <3>2. tick' \in Nat
      BY <1>0, <2>1, <3>1, RefreshTimeNat, LeastPair DEF Hasten, AppTypeOK
    <3>3. handler' \in [Handlers -> HandlerStates]
      BY <1>0, <2>0, <2>1, HandlerStateEdit DEF Hasten, Step, AppTypeOK
    <3> QED BY <1>0, <2>1, <3>2, <3>3 DEF Hasten, Step, AppTypeOK
  <2>5. CASE Wake(h)
    <3>1. handler' \in [Handlers -> HandlerStates]
      BY <1>0, <2>0, <2>5, HandlerStateEdit DEF Wake, Step, AppTypeOK
    <3> QED BY <1>0, <2>5, <3>1 DEF Wake, Step, AppTypeOK
  <2>6. CASE FindHub(h)
    <3>1. subs[v.id] \in Feeds \cup {NoFeed}
      BY <1>0, <2>6 DEF FindHub, TypedInv, HandlerInv, HandlerOK, StoreTypeOK
    <3>2. handler' \in [Handlers -> HandlerStates]
      BY <1>0, <2>0, <2>6, <3>1, HandlerStateEdit DEF FindHub, Step, AppTypeOK
    <3> QED BY <1>0, <2>6, <3>2 DEF FindHub, Step, AppTypeOK
  <2>2. CASE FindOld(h)
    <3>1. renewing[v.id] \in Ids \cup {NoId}
      BY <1>0, <2>2 DEF FindOld, TypedInv, HandlerInv, HandlerOK, StoreTypeOK
    <3>2. handler' \in [Handlers -> HandlerStates]
      BY <1>0, <2>0, <2>2, <3>1, HandlerStateEdit DEF FindOld, Step, AppTypeOK
    <3> QED BY <1>0, <2>2, <3>2 DEF FindOld, Step, AppTypeOK
  <2>3. CASE UnsubscribeOld(h)
    <3>1. v.old \in Ids /\ v.feed \in Feeds
      BY <1>0, <2>3 DEF UnsubscribeOld, TypedInv, HandlerInv, HandlerOK, StoreTypeOK
    <3>2. handler' \in [Handlers -> HandlerStates]
      BY <1>0, <2>0, <2>3, HandlerStateEdit DEF UnsubscribeOld, Step, AppTypeOK
    <3>3. sent' \subseteq Requests
      BY <1>0, <2>3, <3>1 DEF UnsubscribeOld, AppTypeOK, Requests
    <3> QED BY <1>0, <2>3, <3>2, <3>3 DEF UnsubscribeOld, Step, AppTypeOK
  <2>4. CASE ActivateNew(h)
    BY <1>0, <2>4 DEF ActivateNew, Step, AppTypeOK
  <2> QED BY <1>8, <2>1, <2>2, <2>3, <2>4, <2>5, <2>6 DEF HandlerStep
<1>9. CASE Start
  <2>1. tick' \in Nat
    BY <1>0, <1>9, LeastRefreshNat DEF Start
  <2> QED BY <1>0, <1>9, <2>1 DEF Start, AppTypeOK
<1>10. CASE RemoveDangling
  BY <1>0, <1>10 DEF RemoveDangling, AppTypeOK
<1>11. ASSUME NEW topics, Sync(topics)
       PROVE  discovering' \in [Feeds -> Nat] /\ sent' = sent
  BY <1>0, <1>11, SyncRemovesNothing DEF Sync, AppTypeOK
<1>12. CASE StartUpSync
  BY <1>0, <1>11, <1>12 DEF StartUpSync, AppTypeOK
<1>13. CASE Reload
  BY <1>0, <1>11, <1>13 DEF Reload, AppTypeOK
<1>14. ASSUME NEW f \in Feeds, Discovered(f) PROVE AppTypeOK'
  BY <1>0, <1>14 DEF Discovered, AppTypeOK, Requests
<1>15. ASSUME NEW f \in Feeds, NotDiscovered(f) PROVE AppTypeOK'
  BY <1>0, <1>15 DEF NotDiscovered, AppTypeOK
<1>16. CASE Crash
  <2>1. handler' \in [Handlers -> HandlerStates] /\ discovering' \in [Feeds -> Nat]
    BY <1>0, <1>16 DEF Crash
  <2>2. /\ tick' \in Nat /\ delay' \in Nat /\ found' \in Nat
        /\ notified' \in BOOLEAN /\ sched' = "down" /\ app' = "down" /\ expiring' = {}
    BY <1>0, <1>16, Zenon DEF Crash
  <2>3. crashes' \in Nat
    BY <1>0, <1>16 DEF Crash, AppTypeOK
  <2> QED BY <1>0, <1>16, <2>1, <2>2, <2>3 DEF Crash, AppTypeOK
<1>17. CASE CliUnsubscribe
  <2>1. sent' \subseteq Requests
    BY <1>0, <1>17 DEF CliUnsubscribe, AppTypeOK, Requests, Request, Held, StoreTypeOK
  <2> QED BY <1>0, <1>17, <2>1 DEF CliUnsubscribe, AppTypeOK
<1>18. CASE ClockTick
  BY <1>0, <1>18 DEF ClockTick, AppTypeOK
<1>19. CASE UNCHANGED vars
  BY <1>0, <1>19 DEF vars, AppTypeOK
<1> QED BY <1>1, <1>2, <1>3, <1>4, <1>5, <1>6, <1>7, <1>8, <1>9, <1>10, <1>12, <1>13,
           <1>14, <1>15, <1>16, <1>17, <1>18, <1>19 DEF Next, SchedulerStep, SchedulerPoll

------------------------------------------------------------------------------
(* What a handler has read, and what was asked of hubs.                      *)

\* A row that was drawn once is never drawn again, and its renewing row goes with the
\* old subscription or by its own activation.
LEMMA RowHistory ==
  ASSUME StoreInv, [StoreNext]_storeVars, NEW i \in used
  PROVE  /\ i \in used'
         /\ i \in Held' =>
              /\ i \in Held
              /\ \/ renewing'[i] = renewing[i]
                 \/ /\ renewing'[i] = NoId
                    /\ renewing[i] \notin Held' \/ i \in Active' \ Active
              /\ i \in Active => i \in Active'
<1> USE NoIdAssumption, NoFeedAssumption DEF StoreInv, StoreTypeOK
<1>0. i \in Ids
  OBVIOUS
<1>1. CASE \E j \in Ids, feed \in Feeds : Subscribe(j, feed)
  BY <1>0, <1>1 DEF Subscribe, CreateSubscription, Held, Active
<1>2. CASE \E old, new \in Ids : Renewable(old) /\ Renew(old, new, subs[old])
  BY <1>0, <1>2 DEF Renew, CreateSubscription, Held, Active
<1>3. CASE \E S \in SUBSET Ids : DeleteRows(S)
  BY <1>0, <1>3 DEF DeleteRows, Held, Active
<1>4. CASE \E j \in Ids, t \in Times : Activate(j, t)
  <2>1. PICK j \in Ids, t \in Times : Activate(j, t)
    BY <1>4
  <2>2. Active' = Active \cup {j} /\ j \notin Active
    BY <2>1, TimesAssumption DEF Activate, Activatable, Active, NotActive
  <2> QED BY <1>0, <2>1, <2>2 DEF Activate, Held
<1>5. CASE UNCHANGED storeVars
  BY <1>0, <1>5 DEF storeVars, Held, Active
<1> QED BY <1>1, <1>2, <1>3, <1>4, <1>5 DEF StoreNext

\* So what another step does to the tables leaves a handler's view in order, unless it
\* removes the new subscription and not the old one.
LEMMA ViewKept ==
  ASSUME StoreInv, [StoreNext]_storeVars, NEW v \in HandlerStates, HandlerOK(v),
         v.pc # "idle" => app' = app,
         v.id \in Active' \ Active => renewing[v.id] = NoId,
         clis > 0 => clis' > 0,
         v.pc \in {"find_hub", "unsubscribe_old"} /\ v.id \in Held \ Held' /\ v.old \in Held'
           => clis' > 0
  PROVE  HandlerOK(v)'
<1>1. CASE v.pc = "idle"
  BY <1>1 DEF HandlerOK
<1>2. CASE v.pc # "idle"
  <2>1. v.id \in used /\ v.expires_at \in Times /\ app' = "running"
    BY <1>2 DEF HandlerOK
  <2>2. /\ v.id \in used'
        /\ v.id \in Held' =>
             /\ v.id \in Held
             /\ \/ renewing'[v.id] = renewing[v.id]
                \/ /\ renewing'[v.id] = NoId
                   /\ renewing[v.id] \notin Held' \/ v.id \in Active' \ Active
    BY <2>1, RowHistory
  <2>3. v.old \in used =>
          /\ v.old \in used'
          /\ v.old \in Held' => v.old \in Held /\ (v.old \in Active => v.old \in Active')
    BY RowHistory
  <2>4. CASE v.pc \in {"find_hub", "unsubscribe_old"}
    <3>1. v.old \in used /\ v.old # NoId
      BY <2>4, NoIdAssumption DEF HandlerOK, StoreInv, StoreTypeOK
    <3>2. v.id \in Held' =>
            renewing'[v.id] = v.old \/ (v.old \notin Held' /\ renewing'[v.id] = NoId)
      BY <2>2, <2>3, <2>4, <3>1 DEF HandlerOK
    <3>3. v.id \notin Held' /\ v.old \in Held' => clis' > 0
      BY <2>3, <2>4, <3>1 DEF HandlerOK
    <3> QED BY <2>1, <2>2, <2>3, <2>4, <3>1, <3>2, <3>3 DEF HandlerOK
  <2>5. CASE v.pc \notin {"find_hub", "unsubscribe_old"}
    BY <1>2, <2>1, <2>2, <2>5 DEF HandlerOK
  <2> QED BY <2>4, <2>5
<1> QED BY <1>1, <1>2

\* A row becomes active after the old one it replaces, if any, is gone.
LEMMA ActivatedAfterOld ==
  TypedInv /\ [Next]_vars => \A i \in Active' \ Active : renewing[i] = NoId
<1> SUFFICES ASSUME TypedInv, [Next]_vars, NEW i \in Active' \ Active
             PROVE  renewing[i] = NoId
  OBVIOUS
<1> USE DEF TypedInv, StoreInv, StoreTypeOK
<1>1. ASSUME NEW h \in Handlers, ActivateNew(h) PROVE renewing[i] = NoId
  <2>1. i = handler[h].id /\ i \in Held /\ handler[h].pc = "activate"
    BY <1>1 DEF ActivateNew, Activate, Activatable, Active, storeVars
  <2> QED BY <2>1 DEF HandlerInv, HandlerOK
<1>2. ASSUME NEW S, DeleteRows(S) PROVE FALSE
  BY <1>2 DEF DeleteRows, Active
<1>3. CASE UNCHANGED expiry
  BY <1>3 DEF Active
<1>4. CASE SchedulerStep
  BY <1>3, <1>4 DEF SchedulerStep, SchedulerPoll, SchedulerRegister, Polled, SchedulerArm,
     SchedulerLoad, SchedulerRenew, Renew,
     SchedulerPanic, SchedulerQuery, SchedulerStore, storeVars
<1>5. ASSUME NEW h \in Handlers,
             Reading(h) \/ UnsubscribeOld(h)
      PROVE renewing[i] = NoId
  BY <1>2, <1>3, <1>5, ReadingStep DEF UnsubscribeOld, storeVars
<1>6. CASE RemoveDangling \/ StartUpSync \/ Reload \/ CliUnsubscribe
  BY <1>2, <1>6 DEF RemoveDangling, StartUpSync, Reload, Sync, CliUnsubscribe
<1>7. ASSUME NEW f \in Feeds, Discovered(f) \/ NotDiscovered(f)
      PROVE  renewing[i] = NoId
  BY <1>3, <1>7 DEF Discovered, NotDiscovered, Subscribe, storeVars
<1>8. CASE Start \/ Crash \/ ClockTick \/ UNCHANGED vars
  BY <1>3, <1>8 DEF Start, Crash, ClockTick, vars, storeVars
<1> QED BY <1>1, <1>4, <1>5, <1>6, <1>7, <1>8 DEF Next, HandlerStep, Reading

LEMMA ClisGrow == TypedInv /\ [Next]_vars => clis' = clis \/ clis' > 0
<1> SUFFICES ASSUME TypedInv, [Next]_vars PROVE clis' = clis \/ clis' > 0
  OBVIOUS
<1> USE DEF countVars, appVars
<1>1. CASE SchedulerStep
  BY <1>1 DEF SchedulerStep, SchedulerPoll, SchedulerRegister, Polled, SchedulerArm,
     SchedulerLoad, SchedulerRenew, SchedulerPanic, SchedulerQuery, SchedulerStore
<1>2. ASSUME NEW h \in Handlers, VerifySubscribe(h) \/ HandlerStep(h) PROVE clis' = clis
  BY <1>2, ReadingStep DEF HandlerStep, Reading, UnsubscribeOld, ActivateNew, Step, TypedInv
<1>3. CASE Start \/ RemoveDangling \/ StartUpSync \/ Reload \/ Crash \/ ClockTick
           \/ UNCHANGED vars
  BY <1>3 DEF Start, RemoveDangling, StartUpSync, Reload, Crash, ClockTick, vars
<1>4. ASSUME NEW f \in Feeds, Discovered(f) \/ NotDiscovered(f) PROVE clis' = clis
  BY <1>4 DEF Discovered, NotDiscovered
<1>5. CASE CliUnsubscribe
  BY <1>5 DEF CliUnsubscribe, TypedInv, AppTypeOK
<1> QED BY <1>1, <1>2, <1>3, <1>4, <1>5 DEF Next

\* Between a handler's statements about the old subscription, only an operator removes
\* the new one and leaves the old one.
LEMMA GoneByCli ==
  ASSUME TypedInv, [Next]_vars, NEW h \in Handlers,
         handler[h].pc \in {"find_hub", "unsubscribe_old"},
         handler[h].id \in Held \ Held', handler[h].old \in Held'
  PROVE  clis' > 0
<1> DEFINE v == handler[h]
<1> USE NoIdAssumption, NoFeedAssumption DEF TypedInv, StoreInv, StoreTypeOK
<1>1. /\ HandlerOK(v) /\ app = "running" /\ v.id \in Ids /\ v.id \in used
      /\ v.old \in used /\ v.old \in Ids /\ v.old # NoId
  BY DEF HandlerInv, HandlerOK
<1>2. v.old \in Held /\ renewing[v.id] = v.old
  <2>1. [StoreNext]_storeVars
    BY StepIsStoreStep
  <2>2. v.old \in Held
    BY <1>1, <2>1, RowHistory
  <2> QED BY <1>1, <2>2 DEF HandlerOK
<1>3. v.id \notin Active
  BY <1>2, <1>1 DEF StoreConsistent, RenewalsLinked, EachHeldOnce
<1>4. ASSUME NEW S, DeleteRows(S), v.id \notin S PROVE FALSE
  BY <1>1, <1>4 DEF DeleteRows, Held
<1>5. ASSUME subs' = subs PROVE FALSE
  BY <1>5 DEF Held
<1>6. CASE SchedulerStep
  <2>1. CASE SchedulerRenew
    BY <1>1, <2>1 DEF SchedulerRenew, Renew, CreateSubscription, Held
  <2>2. CASE \/ SchedulerRegister \/ SchedulerArm \/ SchedulerLoad \/ SchedulerPanic
             \/ SchedulerQuery \/ SchedulerStore
    BY <1>5, <2>2 DEF SchedulerRegister, Polled, SchedulerArm, SchedulerLoad,
       SchedulerPanic, SchedulerQuery, SchedulerStore, storeVars
  <2> QED BY <1>6, <2>1, <2>2 DEF SchedulerStep, SchedulerPoll
<1>7. ASSUME NEW g \in Handlers, UnsubscribeOld(g) PROVE FALSE
  <2>1. DeleteRows({handler[g].old}) /\ handler[g].pc = "unsubscribe_old"
    BY <1>7 DEF UnsubscribeOld
  <2>2. handler[g].old # v.id
    BY <1>3, <2>1 DEF HandlerInv, HandlerOK
  <2> QED BY <1>4, <2>1, <2>2
<1>8. ASSUME NEW g \in Handlers, Reading(g) \/ ActivateNew(g)
      PROVE  FALSE
  BY <1>5, <1>8, ReadingStep DEF ActivateNew, Activate, storeVars
<1>9. CASE RemoveDangling \/ StartUpSync \/ Reload
  BY <1>1, <1>4, <1>9, SyncRemovesNothing DEF RemoveDangling, StartUpSync, Reload, Sync
<1>10. ASSUME NEW f \in Feeds, Discovered(f) \/ NotDiscovered(f) PROVE FALSE
  BY <1>1, <1>5, <1>10 DEF Discovered, NotDiscovered, Subscribe, CreateSubscription,
     storeVars, Held
<1>11. CASE CliUnsubscribe
  BY <1>11 DEF CliUnsubscribe, AppTypeOK
<1>12. CASE Start \/ Crash \/ ClockTick \/ UNCHANGED vars
  BY <1>5, <1>12 DEF Start, Crash, ClockTick, vars, storeVars
<1> QED BY <1>6, <1>7, <1>8, <1>9, <1>10, <1>11, <1>12 DEF Next, HandlerStep, Reading

\* One handler's own steps.
LEMMA OwnStepHandlerOK ==
  ASSUME TypedInv, AppTypeOK', NEW h \in Handlers, VerifySubscribe(h) \/ HandlerStep(h)
  PROVE  HandlerOK(handler[h])'
<1> USE NoIdAssumption DEF TypedInv, StoreInv, StoreTypeOK, AppTypeOK
<1>1. HandlerOK(handler[h])
  BY DEF HandlerInv
<1>2. CASE VerifySubscribe(h)
  <2>1. PICK r \in sent, lease \in Leases :
          /\ now + lease \in Times
          /\ Step(h, [Idle EXCEPT !.pc = "hasten", !.id = r.id, !.expires_at = now + lease])
    BY <1>2 DEF VerifySubscribe
  <2>2. r.id \in used /\ app = "running" /\ UNCHANGED <<storeVars, app>>
    BY <1>2, <2>1 DEF VerifySubscribe, Step, SentInv
  <2>3. /\ handler'[h].pc = "hasten" /\ handler'[h].id = r.id
        /\ handler'[h].expires_at = now + lease
    BY <2>1 DEF Step, Idle
  <2> QED BY <2>1, <2>2, <2>3 DEF HandlerOK, storeVars
<1>3. CASE Hasten(h)
  BY <1>1, <1>3 DEF Hasten, Step, HandlerOK, HandlerStates, storeVars, Held
<1>4. CASE Wake(h)
  BY <1>1, <1>4 DEF Wake, Step, HandlerOK, HandlerStates, storeVars, Held
<1>5. CASE FindOld(h)
  <2> DEFINE v == handler[h]  old == renewing[v.id]
  <2>1. v.pc = "find_old" /\ v.id \in used /\ v.expires_at \in Times /\ app = "running"
    BY <1>1, <1>5 DEF FindOld, HandlerOK
  <2>2. UNCHANGED <<storeVars, app, clis>>
    BY <1>5 DEF FindOld, Step, countVars
  <2>3. CASE old = NoId
    <3>1. handler'[h] = [v EXCEPT !.pc = "activate", !.old = old]
      BY <1>5, <2>3 DEF FindOld, Step
    <3> QED BY <2>1, <2>2, <2>3, <3>1 DEF HandlerOK, HandlerStates, storeVars, Held
  <2>4. CASE old # NoId
    <3>1. handler'[h] = [v EXCEPT !.pc = "find_hub", !.old = old]
      BY <1>5, <2>4 DEF FindOld, Step
    <3>2. v.id \in Held /\ old \in Active /\ old \in used
      BY <2>1, <2>4 DEF StoreConsistent, RenewalsLinked, EachHeldOnce, HeldAreUsed
    <3> QED BY <2>1, <2>2, <2>4, <3>1, <3>2
            DEF HandlerOK, HandlerStates, storeVars, Held, Active
  <2> QED BY <2>3, <2>4
<1>6. CASE FindHub(h)
  <2> DEFINE v == handler[h]
  <2>1. UNCHANGED <<storeVars, app, clis>>
    BY <1>6 DEF FindHub, Step, countVars
  <2>2. CASE v.id \notin Held
    BY <1>6, <2>2 DEF FindHub, Step, HandlerOK, Idle
  <2>3. CASE v.id \in Held
    <3>1. v.pc = "find_hub" /\ handler'[h] = [v EXCEPT !.pc = "unsubscribe_old", !.feed = subs[v.id]]
      BY <1>6, <2>3 DEF FindHub, Step
    <3>2. subs[v.id] \in Feeds
      BY <2>3 DEF Held
    <3> QED BY <1>1, <2>1, <3>1, <3>2 DEF HandlerOK, HandlerStates, storeVars, Held, Active
  <2> QED BY <2>2, <2>3
<1>7. CASE UnsubscribeOld(h)
  <2> DEFINE v == handler[h]
  <2>1. /\ v.pc = "unsubscribe_old" /\ v.id \in Ids /\ v.id \in used
        /\ v.id \in Held => renewing[v.id] = v.old \/ renewing[v.id] = NoId
    BY <1>1, <1>7 DEF UnsubscribeOld, HandlerOK
  <2>2. used' = used /\ (v.id \in Held' => v.id \in Held /\ renewing'[v.id] = NoId)
    BY <1>7, <2>1 DEF UnsubscribeOld, DeleteRows, Held
  <2>3. handler'[h] = [v EXCEPT !.pc = "activate"] /\ app' = app
    BY <1>7 DEF UnsubscribeOld, Step
  <2> QED BY <1>1, <2>1, <2>2, <2>3 DEF HandlerOK, HandlerStates
<1>8. CASE ActivateNew(h)
  BY <1>8 DEF ActivateNew, Step, HandlerOK, Idle
<1> QED BY <1>2, <1>3, <1>4, <1>5, <1>6, <1>7, <1>8 DEF HandlerStep

LEMMA StepHandlerInv == TypedInv /\ AppTypeOK' /\ [Next]_vars => HandlerInv'
<1> SUFFICES ASSUME TypedInv, AppTypeOK', [Next]_vars, NEW g \in Handlers
             PROVE  HandlerOK(handler[g])'
  BY DEF HandlerInv
<1>1. [StoreNext]_storeVars /\ \A i \in Active' \ Active : renewing[i] = NoId
  BY StepIsStoreStep, ActivatedAfterOld
<1>0. /\ clis > 0 => clis' > 0
      /\ (/\ handler[g].pc \in {"find_hub", "unsubscribe_old"}
          /\ handler[g].id \in Held \ Held' /\ handler[g].old \in Held')
           => clis' > 0
  <2>1. clis > 0 => clis' > 0
    BY ClisGrow
  <2>2. ASSUME handler[g].pc \in {"find_hub", "unsubscribe_old"},
               handler[g].id \in Held \ Held', handler[g].old \in Held'
        PROVE  clis' > 0
    BY <2>2, GoneByCli
  <2> QED BY <2>1, <2>2
<1>2. HandlerOK(handler[g]) /\ handler[g] \in HandlerStates
  BY DEF TypedInv, HandlerInv, AppTypeOK
<1>3. ASSUME handler'[g] = handler[g], handler[g].pc # "idle" => app' = app
      PROVE  HandlerOK(handler[g])'
  <2> SUFFICES ASSUME NEW v \in HandlerStates, v = handler[g]
               PROVE  HandlerOK(v)'
    BY <1>2, <1>3 DEF HandlerOK
  <2> QED BY <1>0, <1>1, <1>2, <1>3, ViewKept DEF TypedInv
<1>4. handler[g].pc # "idle" => app = "running"
  BY <1>2 DEF HandlerOK
<1>5. ASSUME NEW h \in Handlers, VerifySubscribe(h) \/ HandlerStep(h)
      PROVE  HandlerOK(handler[g])'
  <2>1. CASE g = h
    BY <1>5, <2>1, OwnStepHandlerOK
  <2>2. CASE g # h
    BY <1>3, <1>5, <2>2, ReadingStep DEF HandlerStep, Reading, UnsubscribeOld, ActivateNew,
       Step, TypedInv, AppTypeOK
  <2> QED BY <2>1, <2>2
<1>6. CASE Crash
  BY <1>6 DEF Crash, HandlerOK, Idle
<1>7. CASE SchedulerStep
  BY <1>3, <1>7 DEF SchedulerStep, SchedulerPoll, SchedulerRegister, Polled, SchedulerArm,
     SchedulerLoad, SchedulerRenew,
     SchedulerPanic, SchedulerQuery, SchedulerStore
<1>8. CASE Start \/ RemoveDangling \/ StartUpSync
  BY <1>3, <1>4, <1>8 DEF Start, RemoveDangling, StartUpSync, appVars
<1>9. CASE Reload \/ CliUnsubscribe \/ ClockTick \/ UNCHANGED vars
  BY <1>3, <1>9 DEF Reload, CliUnsubscribe, ClockTick, vars
<1>10. ASSUME NEW f \in Feeds, Discovered(f) \/ NotDiscovered(f)
       PROVE  HandlerOK(handler[g])'
  BY <1>3, <1>10 DEF Discovered, NotDiscovered, appVars
<1> QED BY <1>5, <1>6, <1>7, <1>8, <1>9, <1>10 DEF Next

LEMMA StepSentInv == TypedInv /\ [Next]_vars => SentInv'
<1> SUFFICES ASSUME TypedInv, [Next]_vars, NEW r \in sent'
             PROVE  r.id \in used' /\ (r.mode = "unsubscribe" => r.id \notin Held')
  BY DEF SentInv
<1> USE DEF TypedInv, StoreInv, StoreTypeOK
<1>0. [StoreNext]_storeVars
  BY StepIsStoreStep
<1>1. CASE r \in sent
  <2>1. r.id \in used /\ (r.mode = "unsubscribe" => r.id \notin Held)
    BY <1>1 DEF SentInv
  <2> QED BY <1>0, <2>1, RowHistory
<1>2. ASSUME NEW S \in SUBSET Held, DeleteRows(S),
             sent' = sent \cup {Request("unsubscribe", i) : i \in S}, r \notin sent
      PROVE  r.id \in used' /\ r.id \notin Held'
  <2>1. PICK i \in S : r = Request("unsubscribe", i)
    BY <1>2
  <2> QED BY <1>2, <2>1 DEF Request, DeleteRows, Held, StoreConsistent, HeldAreUsed
<1>3. CASE SchedulerRenew /\ r \notin sent
  BY <1>3 DEF SchedulerRenew, Renew, CreateSubscription
<1>4. ASSUME NEW h \in Handlers, UnsubscribeOld(h), r \notin sent
      PROVE  r.id \in used' /\ r.id \notin Held'
  <2>1. r.id = handler[h].old /\ DeleteRows({handler[h].old})
    BY <1>4 DEF UnsubscribeOld
  <2>2. handler[h].old \in used
    BY <1>4 DEF UnsubscribeOld, HandlerInv, HandlerOK
  <2> QED BY <2>1, <2>2 DEF DeleteRows, Held
<1>5. CASE (StartUpSync \/ Reload \/ CliUnsubscribe) /\ r \notin sent
  BY <1>2, <1>5, SyncRemovesNothing DEF StartUpSync, Reload, Sync, CliUnsubscribe
<1>6. ASSUME NEW f \in Feeds, Discovered(f), r \notin sent
      PROVE  r.id \in used' /\ r.mode = "subscribe"
  BY <1>6 DEF Discovered, Subscribe, CreateSubscription
<1>7. ASSUME NEW h \in Handlers, HandlerStep(h) \/ VerifySubscribe(h), ~UnsubscribeOld(h)
      PROVE  sent' = sent
  BY <1>7 DEF HandlerStep, VerifySubscribe, Hasten, Wake, FindOld, FindHub, ActivateNew
<1>8. CASE SchedulerRegister \/ SchedulerArm \/ SchedulerLoad \/ SchedulerPanic \/ SchedulerQuery
           \/ SchedulerStore \/ Start \/ RemoveDangling \/ Crash \/ ClockTick
           \/ UNCHANGED vars \/ \E f \in Feeds : NotDiscovered(f)
  BY <1>1, <1>8 DEF SchedulerRegister, Polled, SchedulerArm, SchedulerLoad, SchedulerPanic, SchedulerQuery,
     SchedulerStore, Start, RemoveDangling, Crash, ClockTick, vars, NotDiscovered, appVars
<1> QED BY <1>1, <1>3, <1>4, <1>5, <1>6, <1>7, <1>8 DEF Next, SchedulerStep, SchedulerPoll

------------------------------------------------------------------------------
(* The scheduler.                                                            *)

\* What a step on the tables does to a row that can be renewed.
LEMMA RenewableKept ==
  ASSUME StoreTypeOK, NEW i \in Ids, Renewable(i)
  PROVE  /\ \A j \in Ids, f \in Feeds : Subscribe(j, f) => Renewable(i)'
         /\ \A old, new \in Ids, f \in Feeds : Renew(old, new, f) /\ i # old => Renewable(i)'
         /\ \A S \in SUBSET Ids : DeleteRows(S) /\ i \notin S => Renewable(i)'
         /\ \A j \in Ids, t \in Times : Activate(j, t) => Renewable(i)'
         /\ UNCHANGED storeVars => Renewable(i)'
<1> USE NoIdAssumption, TimesAssumption
       DEF StoreTypeOK, Renewable, RenewingSubs, Active, NotActive
<1>1. ASSUME NEW j \in Ids, NEW f \in Feeds, Subscribe(j, f) PROVE Renewable(i)'
  BY <1>1 DEF Subscribe
<1>2. ASSUME NEW old \in Ids, NEW new \in Ids, NEW f \in Feeds, Renew(old, new, f), i # old
      PROVE  Renewable(i)'
  BY <1>2 DEF Renew
<1>3. ASSUME NEW S \in SUBSET Ids, DeleteRows(S), i \notin S PROVE Renewable(i)'
  BY <1>3 DEF DeleteRows
<1>4. ASSUME NEW j \in Ids, NEW t \in Times, Activate(j, t) PROVE Renewable(i)'
  BY <1>4 DEF Activate
<1>5. UNCHANGED storeVars => Renewable(i)'
  BY DEF storeVars
<1> QED BY <1>1, <1>2, <1>3, <1>4, <1>5

LEMMA StepExpiringInv == TypedInv /\ ExpiringInv /\ [Next]_vars => ExpiringInv'
<1> SUFFICES ASSUME TypedInv, ExpiringInv, [Next]_vars PROVE ExpiringInv'
  OBVIOUS
<1> USE DEF ExpiringInv, TypedInv, StoreInv, AppTypeOK
<1>0. \A i \in expiring : i \in Ids
  OBVIOUS
<1>1. CASE SchedulerLoad
  BY <1>1 DEF SchedulerLoad, Expiring, Renewable, storeVars, Active, RenewingSubs
<1>2. CASE SchedulerRenew
  <2>1. PICK old \in expiring, new \in Ids :
          /\ Renewable(old) /\ Renew(old, new, subs[old]) /\ expiring' = expiring \ {old}
    BY <1>2 DEF SchedulerRenew
  <2>2. subs[old] \in Feeds /\ old \in Ids
    BY <2>1 DEF StoreConsistent, EachHeldOnce, Renewable, Held, StoreTypeOK
  <2>3. \A i \in expiring' : Renewable(i) => Renewable(i)'
    BY <1>0, <2>1, <2>2, RenewableKept
  <2> QED BY <1>2, <2>1, <2>3 DEF SchedulerRenew, countVars
<1>3. CASE SchedulerPanic
  BY <1>3 DEF SchedulerPanic, countVars
<1>4. CASE SchedulerRegister \/ SchedulerArm \/ SchedulerQuery \/ SchedulerStore
  BY <1>4 DEF SchedulerRegister, Polled, SchedulerArm, SchedulerQuery, SchedulerStore, countVars
<1>5. ASSUME NEW h \in Handlers, UnsubscribeOld(h) PROVE ExpiringInv'
  <2>1. /\ DeleteRows({handler[h].old}) /\ handler[h].old \in Ids
        /\ ~Renewable(handler[h].old) \/ clis > 0
    BY <1>5, NoIdAssumption DEF UnsubscribeOld, HandlerInv, HandlerOK, Renewable,
       RenewingSubs, StoreConsistent, EachHeldOnce, StoreTypeOK
  <2> QED BY <1>0, <1>5, <2>1, RenewableKept DEF UnsubscribeOld, Step, countVars
<1>6. ASSUME NEW h \in Handlers, ActivateNew(h) PROVE ExpiringInv'
  <2>1. handler[h].id \in Ids /\ handler[h].expires_at \in Times
    BY <1>6 DEF ActivateNew, HandlerInv, HandlerOK, StoreTypeOK
  <2> QED BY <1>0, <1>6, <2>1, RenewableKept DEF ActivateNew, Step, countVars
<1>7. ASSUME NEW h \in Handlers, Reading(h)
      PROVE  ExpiringInv'
  BY <1>0, <1>7, ReadingStep, RenewableKept DEF countVars
<1>8. CASE RemoveDangling
  <2>1. \A i \in expiring : Renewable(i) => Renewable(i)'
    BY <1>0, <1>8, RenewableKept DEF RemoveDangling, Renewable, Held
  <2> QED BY <1>8, <2>1 DEF RemoveDangling, appVars, countVars, schedVars
<1>9. CASE StartUpSync \/ Reload
  <2>1. \A i \in expiring : Renewable(i) => Renewable(i)'
    BY <1>0, <1>9, RenewableKept, SyncRemovesNothing DEF StartUpSync, Reload, Sync
  <2> QED BY <1>9, <2>1 DEF StartUpSync, Reload, countVars, schedVars
<1>10. ASSUME NEW f \in Feeds, Discovered(f) \/ NotDiscovered(f) PROVE ExpiringInv'
  BY <1>0, <1>10, RenewableKept DEF Discovered, NotDiscovered, appVars, countVars, schedVars
<1>11. CASE Start \/ Crash
  BY <1>11 DEF Start, Crash
<1>12. CASE CliUnsubscribe
  BY <1>12 DEF CliUnsubscribe, schedVars
<1>13. CASE ClockTick \/ UNCHANGED vars
  BY <1>0, <1>13, RenewableKept DEF ClockTick, vars, countVars, schedVars
<1> QED BY <1>1, <1>2, <1>3, <1>4, <1>5, <1>6, <1>7, <1>8, <1>9, <1>10, <1>11, <1>12,
           <1>13 DEF Next, SchedulerStep, SchedulerPoll, HandlerStep, Reading

\* The task registers its waker before it sleeps, and a wake that takes the waker leaves
\* word.
LEMMA StepWakeInv == TypedInv /\ WakeInv /\ [Next]_vars => WakeInv'
<1> SUFFICES ASSUME TypedInv, WakeInv, [Next]_vars PROVE WakeInv'
  OBVIOUS
<1> USE DEF WakeInv, schedVars
<1>1. CASE SchedulerPoll
  BY <1>1 DEF SchedulerPoll, SchedulerRegister, Polled, SchedulerArm
<1>2. CASE SchedulerLoad \/ SchedulerRenew \/ SchedulerPanic \/ SchedulerQuery
           \/ SchedulerStore
  BY <1>2 DEF SchedulerLoad, SchedulerRenew, SchedulerPanic, SchedulerQuery, SchedulerStore
<1>3. ASSUME NEW h \in Handlers, VerifySubscribe(h) \/ HandlerStep(h) PROVE WakeInv'
  BY <1>3 DEF HandlerStep, VerifySubscribe, Hasten, Wake, FindOld, FindHub, UnsubscribeOld,
     ActivateNew, Step
<1>4. CASE Start \/ Crash
  BY <1>4 DEF Start, Crash
<1>5. CASE RemoveDangling \/ StartUpSync \/ Reload \/ CliUnsubscribe \/ ClockTick
           \/ UNCHANGED vars \/ \E f \in Feeds : Discovered(f) \/ NotDiscovered(f)
  BY <1>5 DEF RemoveDangling, StartUpSync, Reload, CliUnsubscribe, ClockTick, vars,
     Discovered, NotDiscovered
<1> QED BY <1>1, <1>2, <1>3, <1>4, <1>5 DEF Next, SchedulerStep

LEMMA StepNoLostWakeup ==
  TypedInv /\ WakeInv /\ NoLostWakeup /\ [Next]_vars => NoLostWakeup'
<1> SUFFICES ASSUME TypedInv, WakeInv, NoLostWakeup, [Next]_vars,
                    sched' = "idle", ~notified', \A h \in Handlers : handler'[h].pc # "wake"
             PROVE  delay' <= tick'
  BY DEF NoLostWakeup
<1> USE DEF NoLostWakeup, TypedInv, AppTypeOK, schedVars
<1>1. CASE SchedulerPoll
  BY <1>1, LeastPair DEF SchedulerPoll, SchedulerRegister, SchedulerArm
<1>2. CASE SchedulerStore
  BY <1>2 DEF SchedulerStore
<1>3. CASE SchedulerLoad \/ SchedulerRenew \/ SchedulerPanic \/ SchedulerQuery
  BY <1>3 DEF SchedulerLoad, SchedulerRenew, SchedulerPanic, SchedulerQuery
<1>4. ASSUME NEW h \in Handlers, handler[h].pc # "wake",
             \A g \in Handlers : g # h => handler'[g] = handler[g],
             UNCHANGED <<sched, delay, notified, tick>>
      PROVE  delay' <= tick'
  BY <1>4
<1>5. ASSUME NEW h \in Handlers, Hasten(h) PROVE delay' <= tick'
  <2> DEFINE t == refresh_time(handler[h].expires_at)
  <2>1. t \in Nat /\ Least({tick, t}) = IF t < tick THEN t ELSE tick
    <3>1. t \in Nat
      BY <1>5, RefreshTimeNat DEF Hasten, HandlerInv, HandlerOK
    <3> QED BY <3>1, LeastNat
  <2>2. CASE t < tick
    <3>1. handler'[h].pc = "wake"
      BY <1>5, <2>2 DEF Hasten, Step, HandlerStates
    <3> QED BY <3>1
  <2>3. CASE ~(t < tick)
    <3>1. UNCHANGED <<sched, delay, notified, tick>> /\ handler[h].pc = "hasten"
      BY <1>5, <2>1, <2>3 DEF Hasten, Step
    <3>2. \A g \in Handlers : g # h => handler'[g] = handler[g]
      BY <1>5 DEF Hasten, Step
    <3> QED BY <1>4, <3>1, <3>2
  <2> QED BY <2>2, <2>3
<1>6. ASSUME NEW h \in Handlers, Wake(h) PROVE FALSE
  BY <1>6 DEF Wake, Step, WakeInv
<1>7. ASSUME NEW h \in Handlers,
             VerifySubscribe(h) \/ FindOld(h) \/ FindHub(h) \/ UnsubscribeOld(h)
             \/ ActivateNew(h)
      PROVE  delay' <= tick'
  <2>1. handler[h].pc # "wake" /\ UNCHANGED <<notified, tick>>
    <3>1. CASE VerifySubscribe(h)
      BY <3>1 DEF VerifySubscribe, Idle
    <3>2. CASE FindOld(h) \/ FindHub(h) \/ UnsubscribeOld(h) \/ ActivateNew(h)
      BY <3>2 DEF FindOld, FindHub, UnsubscribeOld, ActivateNew
    <3> QED BY <1>7, <3>1, <3>2
  <2>2. UNCHANGED <<sched, delay>> /\ \A g \in Handlers : g # h => handler'[g] = handler[g]
    <3>1. CASE Reading(h)
      BY <3>1, ReadingStep
    <3>2. CASE UnsubscribeOld(h) \/ ActivateNew(h)
      BY <3>2 DEF UnsubscribeOld, ActivateNew, Step
    <3> QED BY <1>7, <3>1, <3>2 DEF Reading
  <2> QED BY <1>4, <2>1, <2>2
<1>8. CASE Start \/ Crash
  BY <1>8 DEF Start, Crash
<1>9. CASE RemoveDangling \/ StartUpSync \/ Reload \/ CliUnsubscribe \/ ClockTick
           \/ UNCHANGED vars \/ \E f \in Feeds : Discovered(f) \/ NotDiscovered(f)
  BY <1>9 DEF RemoveDangling, StartUpSync, Reload, CliUnsubscribe, ClockTick, vars,
     Discovered, NotDiscovered, appVars
<1> QED BY <1>1, <1>2, <1>3, <1>5, <1>6, <1>7, <1>8, <1>9
        DEF Next, SchedulerStep, HandlerStep

LEMMA StepInv == IInv /\ [Next]_vars => IInv'
BY StepStoreInv, StepAppTypeOK, StepHandlerInv, StepSentInv, StepExpiringInv,
   StepWakeInv, StepNoLostWakeup DEF IInv, SchedInv, TypedInv

LEMMA Invariance == Spec => []IInv
<1>1. Init => IInv
  BY InitTyped DEF IInv
<1> QED BY <1>1, StepInv, PTL DEF Spec

------------------------------------------------------------------------------
(* Renewal without a gap.                                                    *)

\* What a handler removes as the old subscription was active for the same feed as the
\* new one, which is pending; or nothing is left to remove.
LEMMA OldHasSameFeed ==
  ASSUME TypedInv, NEW h \in Handlers, handler[h].pc = "unsubscribe_old",
         handler[h].id \in Held
  PROVE  \/ handler[h].old \notin Held
         \/ /\ handler[h].old \in Active /\ handler[h].id \in pending
            /\ subs[handler[h].id] = subs[handler[h].old]
BY NoIdAssumption DEF TypedInv, HandlerInv, HandlerOK, StoreInv, StoreTypeOK,
   StoreConsistent, RenewalsLinked

Kept(f) ==
    \/ Covered(f)'
    \/ crashes' # crashes \/ clis' # clis
    \/ \E h \in Handlers :
          Undercut(h) /\ subs[handler[h].old] = f /\ handler'[h] # handler[h]

LEMMA ActiveKept ==
  ASSUME TypedInv, [Next]_vars, NEW f, NEW i \in Active, subs[i] = f
  PROVE  Kept(f)
<1> USE DEF TypedInv, StoreInv, StoreTypeOK
<1>1. ASSUME i \in Active', subs'[i] = subs[i] PROVE Kept(f)
  BY <1>1 DEF Kept, Covered
<1>2. ASSUME NEW S \in SUBSET Ids, DeleteRows(S), i \notin S PROVE Kept(f)
  BY <1>1, <1>2 DEF DeleteRows, Active
<1>3. CASE UNCHANGED storeVars
  BY <1>1, <1>3 DEF storeVars, Active
<1>4. ASSUME NEW h \in Handlers, UnsubscribeOld(h) PROVE Kept(f)
  <2> DEFINE v == handler[h]
  <2>0. /\ v.pc = "unsubscribe_old" /\ DeleteRows({v.old})
        /\ handler'[h].pc = "activate" /\ handler'[h].id = v.id
    BY <1>4 DEF UnsubscribeOld, Step, AppTypeOK, HandlerStates
  <2>1. CASE v.id \in Held /\ v.old = i
    <3>1. v.id \in pending /\ v.id # i /\ subs[v.id] = subs[i] /\ v.id \in Ids
      BY <2>0, <2>1, OldHasSameFeed DEF StoreConsistent, EachHeldOnce
    <3>2. v.id \in pending' /\ subs'[v.id] = subs[i]
      BY <2>0, <2>1, <3>1 DEF DeleteRows
    <3> QED BY <2>0, <3>2 DEF Kept, Covered
  <2>2. CASE v.old # i
    <3>1. {v.old} \in SUBSET Ids
      BY <2>0 DEF HandlerInv, HandlerOK
    <3> QED BY <1>2, <2>0, <2>2, <3>1
  <2>3. CASE v.id \notin Held /\ v.old = i
    BY <2>0, <2>3 DEF Undercut, Kept
  <2> QED BY <2>1, <2>2, <2>3
<1>5. ASSUME NEW h \in Handlers, ActivateNew(h) PROVE Kept(f)
  <2>1. CASE Activatable(handler[h].id)
    BY <1>1, <1>5, <2>1 DEF ActivateNew, Activate, Activatable, Active
  <2>2. CASE ~Activatable(handler[h].id)
    BY <1>3, <1>5, <2>2 DEF ActivateNew
  <2> QED BY <2>1, <2>2
<1>6. ASSUME NEW h \in Handlers, Reading(h) PROVE Kept(f)
  BY <1>3, <1>6, ReadingStep
<1>7. CASE SchedulerRenew
  BY <1>1, <1>7 DEF SchedulerRenew, Renew, CreateSubscription, Active, StoreConsistent,
     EachHeldOnce, HeldAreUsed
<1>8. CASE SchedulerRegister \/ SchedulerArm \/ SchedulerLoad \/ SchedulerPanic \/ SchedulerQuery
           \/ SchedulerStore
  BY <1>3, <1>8 DEF SchedulerRegister, Polled, SchedulerArm, SchedulerLoad, SchedulerPanic, SchedulerQuery,
     SchedulerStore
<1>9. CASE RemoveDangling
  BY <1>2, <1>9 DEF RemoveDangling, Held
<1>10. CASE StartUpSync \/ Reload
  BY <1>2, <1>10, SyncRemovesNothing DEF StartUpSync, Reload, Sync
<1>11. ASSUME NEW g \in Feeds, Discovered(g) \/ NotDiscovered(g) PROVE Kept(f)
  BY <1>1, <1>3, <1>11 DEF Discovered, NotDiscovered, Subscribe, CreateSubscription, Active,
     StoreConsistent, EachHeldOnce, HeldAreUsed
<1>12. CASE Start \/ Crash \/ ClockTick \/ UNCHANGED vars
  BY <1>3, <1>12 DEF Start, Crash, ClockTick, vars
<1>13. CASE CliUnsubscribe
  BY <1>13 DEF CliUnsubscribe, Kept, AppTypeOK
<1> QED BY <1>4, <1>5, <1>6, <1>7, <1>8, <1>9, <1>10, <1>11, <1>12, <1>13
        DEF Next, SchedulerStep, SchedulerPoll, HandlerStep, Reading

\* A verified subscription whose handler is about to activate it: nothing but that
\* handler, or another one for the same subscription, ends its being pending.
LEMMA VerifiedKept ==
  ASSUME TypedInv, [Next]_vars, NEW f, NEW h \in Handlers, NEW i \in pending,
         handler[h].pc = "activate", handler[h].id = i, subs[i] = f
  PROVE  Kept(f)
<1> USE DEF TypedInv, StoreInv, StoreTypeOK
<1>0. i \in Held /\ i \notin Active /\ app = "running" /\ i \in used
  BY DEF StoreConsistent, EachHeldOnce, HandlerInv, HandlerOK
<1>1. ASSUME i \in pending', subs'[i] = subs[i], handler'[h] = handler[h] PROVE Kept(f)
  BY <1>1 DEF Kept, Covered
<1>2. ASSUME NEW S \in SUBSET Ids, DeleteRows(S), i \notin S, handler'[h] = handler[h]
      PROVE  Kept(f)
  BY <1>1, <1>2 DEF DeleteRows
<1>3. ASSUME UNCHANGED storeVars, handler'[h] = handler[h] PROVE Kept(f)
  BY <1>1, <1>3 DEF storeVars
<1>4. ASSUME NEW g \in Handlers, UnsubscribeOld(g) PROVE Kept(f)
  <2>1. g # h /\ handler'[h] = handler[h] /\ DeleteRows({handler[g].old})
    BY <1>4 DEF UnsubscribeOld, Step, AppTypeOK
  <2>2. {handler[g].old} \in SUBSET Ids /\ handler[g].old # i
    BY <1>0, <1>4 DEF UnsubscribeOld, HandlerInv, HandlerOK
  <2> QED BY <1>2, <2>1, <2>2
<1>5. ASSUME NEW g \in Handlers, ActivateNew(g) PROVE Kept(f)
  <2>1. CASE handler[g].id = i
    <3>1. handler[g].expires_at \in Times
      BY <1>5 DEF ActivateNew, HandlerInv, HandlerOK
    <3>2. expiry'[i] \in Times /\ subs'[i] = subs[i]
      BY <1>0, <1>5, <2>1, <3>1 DEF ActivateNew, Activate, Activatable
    <3>3. i \in Active'
      BY <3>2, TimesAssumption DEF Active, NotActive
    <3> QED BY <3>2, <3>3 DEF Kept, Covered
  <2>2. CASE handler[g].id # i
    <3>1. handler'[h] = handler[h]
      BY <1>5, <2>2 DEF ActivateNew, Step, AppTypeOK
    <3>2. CASE Activatable(handler[g].id)
      BY <1>1, <1>5, <2>2, <3>1, <3>2 DEF ActivateNew, Activate
    <3>3. CASE ~Activatable(handler[g].id)
      BY <1>3, <1>5, <3>1, <3>3 DEF ActivateNew
    <3> QED BY <3>2, <3>3
  <2> QED BY <2>1, <2>2
<1>6. ASSUME NEW g \in Handlers, Reading(g) PROVE Kept(f)
  BY <1>3, <1>6, ReadingStep
<1>7. CASE SchedulerRenew
  BY <1>0, <1>1, <1>7 DEF SchedulerRenew, Renew, CreateSubscription
<1>8. CASE SchedulerRegister \/ SchedulerArm \/ SchedulerLoad \/ SchedulerPanic \/ SchedulerQuery
           \/ SchedulerStore
  BY <1>3, <1>8 DEF SchedulerRegister, Polled, SchedulerArm, SchedulerLoad, SchedulerPanic, SchedulerQuery,
     SchedulerStore
<1>9. CASE StartUpSync \/ Reload
  BY <1>2, <1>9, SyncRemovesNothing DEF StartUpSync, Reload, Sync
<1>10. ASSUME NEW g \in Feeds, Discovered(g) \/ NotDiscovered(g) PROVE Kept(f)
  BY <1>0, <1>1, <1>3, <1>10 DEF Discovered, NotDiscovered, Subscribe, CreateSubscription,
     appVars
<1>11. CASE ClockTick \/ UNCHANGED vars
  BY <1>3, <1>11 DEF ClockTick, vars
<1>12. CASE Start \/ RemoveDangling
  BY <1>0, <1>12 DEF Start, RemoveDangling
<1>13. CASE CliUnsubscribe \/ Crash
  BY <1>13 DEF CliUnsubscribe, Crash, Kept, AppTypeOK
<1> QED BY <1>4, <1>5, <1>6, <1>7, <1>8, <1>9, <1>10, <1>11, <1>12, <1>13
        DEF Next, SchedulerStep, SchedulerPoll, HandlerStep, Reading

LEMMA StepCovered == TypedInv /\ [Next]_vars => \A f \in Feeds : Covered(f) => Kept(f)
<1> SUFFICES ASSUME TypedInv, [Next]_vars, NEW f \in Feeds, Covered(f) PROVE Kept(f)
  OBVIOUS
<1> QED BY ActiveKept, VerifiedKept DEF Covered

------------------------------------------------------------------------------
(* One subscription for each hub and topic.                                  *)

\* The subscriptions of a feed that replace no other.  Counted with the discoveries in
\* flight they are at most one more than the reloads: a renewal adds none, and when the
\* old subscription goes, the one that replaces it takes its place in the count.
Roots(f) == {i \in Held : subs[i] = f /\ renewing[i] = NoId}

RootsBounded(f) ==
    IsFiniteSet(Roots(f)) /\ Cardinality(Roots(f)) + discovering[f] <= 1 + reloads

RootsInv ==
    /\ app # "running" => \A f \in Feeds : discovering[f] = 0
    /\ \A f \in Feeds : RootsBounded(f)

LEMMA DeletedRoots ==
  ASSUME StoreInv, NEW S, DeleteRows(S), NEW f, IsFiniteSet(Roots(f))
  PROVE  IsFiniteSet(Roots(f)') /\ Cardinality(Roots(f)') <= Cardinality(Roots(f))
<1> USE NoIdAssumption DEF StoreInv, StoreTypeOK
<1> DEFINE root == [i \in Roots(f)' |-> IF renewing[i] = NoId THEN i ELSE renewing[i]]
<1>1. \A i \in Roots(f)' : i \in Held /\ i \notin S /\ subs[i] = f
  BY DEF Roots, Held, DeleteRows
<1>2. \A i \in Roots(f)' : renewing[i] # NoId =>
        /\ renewing[i] \in S /\ renewing[i] \in Roots(f)
        /\ \A m \in Ids : renewing[m] = renewing[i] => m = i
  <2> SUFFICES ASSUME NEW i \in Roots(f)', renewing[i] # NoId
               PROVE  /\ renewing[i] \in S /\ renewing[i] \in Roots(f)
                      /\ \A m \in Ids : renewing[m] = renewing[i] => m = i
    OBVIOUS
  <2>1. i \in Ids /\ renewing[i] \in S
    BY <1>1 DEF Roots, Held, DeleteRows
  <2>2. /\ renewing[i] \in Active /\ subs[renewing[i]] = f
        /\ \A m \in Ids : renewing[m] = renewing[i] => m = i
    BY <1>1, <2>1 DEF StoreConsistent, RenewalsLinked
  <2>3. renewing[i] \in Held /\ renewing[i] \notin pending
    BY <2>2 DEF StoreConsistent, EachHeldOnce
  <2>4. renewing[renewing[i]] = NoId
    BY <2>2, <2>3 DEF StoreConsistent, RenewalsLinked, Active
  <2> QED BY <2>1, <2>2, <2>3, <2>4 DEF Roots
<1>3. root \in [Roots(f)' -> Roots(f)]
  BY <1>1, <1>2 DEF Roots
<1>4. \A i, j \in Roots(f)' : root[i] = root[j] => i = j
  <2>1. \A i \in Roots(f)' : i \in Ids
    BY <1>1 DEF Held
  <2> QED BY <1>1, <1>2, <2>1
<1>5. root \in Injection(Roots(f)', Roots(f))
  BY <1>3, <1>4 DEF Injection, IsInjective
<1> QED BY <1>5, FS_Injection

\* The other transactions.
LEMMA SameRoots ==
  ASSUME StoreInv, NEW f,
         \/ UNCHANGED storeVars
         \/ \E old, new \in Ids : Renewable(old) /\ Renew(old, new, subs[old])
         \/ \E i \in Ids, t \in Times : renewing[i] = NoId /\ Activate(i, t)
  PROVE  Roots(f)' = Roots(f)
<1> USE NoIdAssumption, NoFeedAssumption DEF StoreInv, StoreTypeOK
<1>1. CASE UNCHANGED storeVars
  BY <1>1 DEF storeVars, Roots, Held
<1>2. ASSUME NEW old \in Ids, NEW new \in Ids, Renewable(old), Renew(old, new, subs[old])
      PROVE  Roots(f)' = Roots(f)
  <2>1. new \notin Held /\ renewing'[new] = old /\ old # NoId
    BY <1>2 DEF Renew, CreateSubscription, StoreConsistent, HeldAreUsed
  <2>2. \A i \in Ids \ {new} : subs'[i] = subs[i] /\ renewing'[i] = renewing[i]
    BY <1>2 DEF Renew, CreateSubscription
  <2> QED BY <2>1, <2>2 DEF Roots, Held
<1>3. ASSUME NEW i \in Ids, NEW t \in Times, renewing[i] = NoId, Activate(i, t)
      PROVE  Roots(f)' = Roots(f)
  <2>1. subs' = subs /\ renewing' = renewing
    BY <1>3 DEF Activate
  <2> QED BY <2>1 DEF Roots, Held
<1> QED BY <1>1, <1>2, <1>3

LEMMA NewRoot ==
  ASSUME StoreInv, NEW i, NEW g \in Feeds, Subscribe(i, g), NEW f
  PROVE  Roots(f)' = IF f = g THEN Roots(f) \cup {i} ELSE Roots(f)
<1> USE NoIdAssumption, NoFeedAssumption DEF StoreInv, StoreTypeOK
<1>1. i \in Ids /\ i \notin Held /\ i \notin pending
  BY DEF Subscribe, CreateSubscription, StoreConsistent, HeldAreUsed, EachHeldOnce
<1>2. renewing[i] = NoId /\ renewing' = renewing
  BY <1>1 DEF Subscribe, StoreConsistent, RenewalsLinked
<1>3. subs'[i] = g /\ \A j \in Ids \ {i} : subs'[j] = subs[j]
  BY <1>1 DEF Subscribe, CreateSubscription
<1> QED BY <1>1, <1>2, <1>3 DEF Roots, Held

\* A synchronisation starts a discovery only where there is no subscription.
LEMMA SyncRoots ==
  ASSUME TypedInv, NEW topics, Sync(topics), NEW f \in Feeds, RootsBounded(f)
  PROVE  /\ IsFiniteSet(Roots(f)')
         /\ Cardinality(Roots(f)') \in Nat
         /\ Cardinality(Roots(f)') <= Cardinality(Roots(f))
         /\ \/ discovering'[f] = discovering[f]
            \/ discovering'[f] = discovering[f] + 1 /\ Cardinality(Roots(f)) = 0
<1> USE DEF TypedInv, AppTypeOK
<1>1. IsFiniteSet(Roots(f)') /\ Cardinality(Roots(f)') <= Cardinality(Roots(f))
  BY DeletedRoots DEF Sync, RootsBounded
<1>2. f.topic \in topics \ Subscribed(topics) => Roots(f) = {}
  BY DEF Subscribed, Roots
<1>3. discovering'[f] =
        discovering[f] + IF f.topic \in topics \ Subscribed(topics) THEN 1 ELSE 0
  BY DEF Sync
<1>4. Cardinality(Roots(f)') \in Nat
  BY <1>1, FS_CardinalityType
<1>5. discovering[f] \in Nat
  OBVIOUS
<1>6. CASE f.topic \in topics \ Subscribed(topics)
  <2>1. Cardinality(Roots(f)) = 0
    BY <1>2, <1>6, FS_EmptySet
  <2> QED BY <1>1, <1>3, <1>4, <1>6, <2>1
<1>7. CASE f.topic \notin topics \ Subscribed(topics)
  BY <1>1, <1>3, <1>4, <1>5, <1>7
<1> QED BY <1>6, <1>7

LEMMA InitRoots == Init => RootsInv
<1> SUFFICES ASSUME Init PROVE RootsInv
  OBVIOUS
<1>1. \A f : Roots(f) = {}
  BY DEF Init, StoreInit, Roots, Held
<1> QED BY <1>1, FS_EmptySet DEF Init, RootsInv, RootsBounded

LEMMA StepRootsBounded ==
  ASSUME TypedInv, RootsInv, [Next]_vars, NEW f \in Feeds
  PROVE  RootsBounded(f)'
<1> USE DEF TypedInv, countVars, schedVars, appVars
<1>0. /\ StoreInv /\ RootsBounded(f)
      /\ discovering \in [Feeds -> Nat] /\ discovering[f] \in Nat /\ reloads \in Nat
      /\ Cardinality(Roots(f)) \in Nat
  BY FS_CardinalityType DEF AppTypeOK, RootsInv, RootsBounded
<1>1. ASSUME Roots(f)' = Roots(f), reloads' = reloads, discovering'[f] <= discovering[f],
             discovering'[f] \in Nat
      PROVE  RootsBounded(f)'
  BY <1>0, <1>1 DEF RootsBounded
<1>2. ASSUME NEW S, DeleteRows(S), UNCHANGED <<discovering, reloads>>
      PROVE  RootsBounded(f)'
  <2>1. IsFiniteSet(Roots(f)') /\ Cardinality(Roots(f)') <= Cardinality(Roots(f))
    BY <1>0, <1>2, DeletedRoots DEF RootsBounded
  <2>2. Cardinality(Roots(f)') \in Nat
    BY <2>1, FS_CardinalityType
  <2> QED BY <1>0, <1>2, <2>1, <2>2 DEF RootsBounded
<1>3. ASSUME UNCHANGED storeVars, reloads' = reloads, discovering'[f] <= discovering[f],
             discovering'[f] \in Nat
      PROVE  RootsBounded(f)'
  BY <1>0, <1>1, <1>3, SameRoots
<1>4. CASE SchedulerRenew
  <2>1. Roots(f)' = Roots(f)
    BY <1>0, <1>4, SameRoots DEF SchedulerRenew, AppTypeOK
  <2> QED BY <1>0, <1>1, <1>4, <2>1 DEF SchedulerRenew
<1>5. CASE SchedulerRegister \/ SchedulerArm \/ SchedulerLoad \/ SchedulerPanic \/ SchedulerQuery
           \/ SchedulerStore \/ Start \/ ClockTick \/ UNCHANGED vars
  BY <1>0, <1>3, <1>5 DEF SchedulerRegister, Polled, SchedulerArm, SchedulerLoad, SchedulerPanic, SchedulerQuery,
     SchedulerStore, Start, ClockTick, vars
<1>6. ASSUME NEW h \in Handlers, Reading(h) PROVE RootsBounded(f)'
  BY <1>0, <1>3, <1>6, ReadingStep
<1>7. ASSUME NEW h \in Handlers, UnsubscribeOld(h) PROVE RootsBounded(f)'
  BY <1>0, <1>2, <1>3, <1>7 DEF UnsubscribeOld, Step
<1>8. ASSUME NEW h \in Handlers, ActivateNew(h) PROVE RootsBounded(f)'
  <2>1. CASE Activatable(handler[h].id)
    <3>1. handler[h].id \in Ids /\ handler[h].expires_at \in Times
      BY <1>8 DEF ActivateNew, HandlerInv, HandlerOK, StoreInv, StoreTypeOK
    <3>2. renewing[handler[h].id] = NoId
      BY <1>8, <2>1 DEF ActivateNew, HandlerInv, HandlerOK, Activatable
    <3>3. Roots(f)' = Roots(f)
      BY <1>0, <1>8, <2>1, <3>1, <3>2, SameRoots DEF ActivateNew
    <3> QED BY <1>0, <1>1, <1>8, <3>3 DEF ActivateNew, Step
  <2>2. CASE ~Activatable(handler[h].id)
    BY <1>0, <1>3, <1>8, <2>2 DEF ActivateNew, Step
  <2> QED BY <2>1, <2>2
<1>9. CASE RemoveDangling
  BY <1>2, <1>9 DEF RemoveDangling
<1>10. CASE CliUnsubscribe
  BY <1>2, <1>10 DEF CliUnsubscribe
<1>11. CASE StartUpSync
  <2>1. discovering[f] = 0
    BY <1>11 DEF StartUpSync, RootsInv
  <2> QED BY <1>0, <1>11, <2>1, SyncRoots DEF StartUpSync, RootsBounded
<1>12. CASE Reload
  <2>1. reloads' = reloads + 1 /\ Sync(manifest')
    BY <1>12 DEF Reload
  <2>2. /\ IsFiniteSet(Roots(f)') /\ Cardinality(Roots(f)') \in Nat
        /\ Cardinality(Roots(f)') <= Cardinality(Roots(f))
        /\ discovering'[f] \in Nat /\ discovering'[f] <= discovering[f] + 1
    <3>1. \A topics \in SUBSET Topics : Sync(topics) =>
            /\ IsFiniteSet(Roots(f)') /\ Cardinality(Roots(f)') \in Nat
            /\ Cardinality(Roots(f)') <= Cardinality(Roots(f))
            /\ discovering'[f] \in Nat /\ discovering'[f] <= discovering[f] + 1
      BY <1>0, SyncRoots
    <3>2. manifest' \in SUBSET Topics
      BY <1>12 DEF Reload
    <3> QED BY <2>1, <3>1, <3>2
  <2> QED BY <1>0, <2>1, <2>2 DEF RootsBounded
<1>13. ASSUME NEW g \in Feeds, Discovered(g) PROVE RootsBounded(f)'
  <2>1. PICK i \in Ids : Subscribe(i, g)
    BY <1>13 DEF Discovered
  <2>2. discovering' = [discovering EXCEPT ![g] = @ - 1] /\ discovering[g] > 0
        /\ reloads' = reloads
    BY <1>13 DEF Discovered
  <2>3. CASE f = g
    <3>1. Roots(f)' = Roots(f) \cup {i} /\ discovering'[f] = discovering[f] - 1
      BY <1>0, <2>1, <2>2, <2>3, NewRoot
    <3>2. IsFiniteSet(Roots(f)') /\ Cardinality(Roots(f)') \in Nat
          /\ Cardinality(Roots(f)') <= Cardinality(Roots(f)) + 1
      <4>1. IsFiniteSet(Roots(f))
        BY <1>0 DEF RootsBounded
      <4>2. /\ IsFiniteSet(Roots(f) \cup {i})
            /\ Cardinality(Roots(f) \cup {i}) =
                 IF i \in Roots(f) THEN Cardinality(Roots(f)) ELSE Cardinality(Roots(f)) + 1
        BY <4>1, FS_AddElement, Zenon
      <4> QED BY <1>0, <3>1, <4>2
    <3> QED BY <1>0, <2>2, <3>1, <3>2 DEF RootsBounded
  <2>4. CASE f # g
    <3>1. Roots(f)' = Roots(f) /\ discovering'[f] = discovering[f]
      BY <1>0, <2>1, <2>2, <2>4, NewRoot
    <3> QED BY <1>0, <1>1, <2>2, <3>1
  <2> QED BY <2>3, <2>4
<1>14. ASSUME NEW g \in Feeds, NotDiscovered(g) PROVE RootsBounded(f)'
  <2>1. discovering'[f] \in Nat /\ discovering'[f] <= discovering[f]
    BY <1>0, <1>14 DEF NotDiscovered, AppTypeOK
  <2> QED BY <1>3, <1>14, <2>1 DEF NotDiscovered
<1>15. CASE Crash
  BY <1>0, <1>3, <1>15 DEF Crash
<1> QED BY <1>4, <1>5, <1>6, <1>7, <1>8, <1>9, <1>10, <1>11, <1>12, <1>13, <1>14, <1>15
        DEF Next, SchedulerStep, SchedulerPoll, HandlerStep, Reading

\* Discoveries live and die with the process.
LEMMA StepNoneDiscovering ==
  ASSUME TypedInv, RootsInv, [Next]_vars, NEW f \in Feeds, app' # "running"
  PROVE  discovering'[f] = 0
<1> USE DEF RootsInv, appVars, countVars, schedVars
<1>1. CASE SchedulerStep
  BY <1>1 DEF SchedulerStep, SchedulerPoll, SchedulerRegister, Polled, SchedulerArm,
     SchedulerLoad, SchedulerRenew, SchedulerPanic,
     SchedulerQuery, SchedulerStore
<1>2. ASSUME NEW h \in Handlers, VerifySubscribe(h) \/ HandlerStep(h)
      PROVE  discovering'[f] = 0
  BY <1>2, ReadingStep DEF HandlerStep, Reading, UnsubscribeOld, ActivateNew, Step, TypedInv
<1>3. CASE Start \/ RemoveDangling \/ CliUnsubscribe \/ ClockTick \/ UNCHANGED vars
  BY <1>3 DEF Start, RemoveDangling, CliUnsubscribe, ClockTick, vars
<1>4. CASE StartUpSync \/ Reload
  BY <1>4 DEF StartUpSync, Reload
<1>5. CASE Crash
  BY <1>5 DEF Crash
<1>6. ASSUME NEW g \in Feeds, Discovered(g) \/ NotDiscovered(g)
      PROVE  discovering'[f] = 0
  BY <1>6 DEF Discovered, NotDiscovered
<1> QED BY <1>1, <1>2, <1>3, <1>4, <1>5, <1>6 DEF Next

LEMMA StepRoots == TypedInv /\ RootsInv /\ [Next]_vars => RootsInv'
<1> SUFFICES ASSUME TypedInv, RootsInv, [Next]_vars PROVE RootsInv'
  OBVIOUS
<1>1. \A f \in Feeds : RootsBounded(f)'
  BY StepRootsBounded
<1>2. app' # "running" => \A f \in Feeds : discovering'[f] = 0
  BY StepNoneDiscovering
<1> QED BY <1>1, <1>2 DEF RootsInv

\* The active subscriptions of a feed are roots.
LEMMA RootsNoDuplicate == TypedInv /\ RootsInv => NoDuplicateSubscription
<1> SUFFICES ASSUME TypedInv, RootsInv, NEW f \in Feeds
             PROVE  Cardinality({i \in Active : subs[i] = f}) <= 1 + reloads
  BY DEF NoDuplicateSubscription
<1> DEFINE S == {i \in Active : subs[i] = f}
<1>1. RootsBounded(f) /\ discovering[f] \in Nat /\ reloads \in Nat
  BY DEF RootsInv, TypedInv, AppTypeOK
<1>2. S \in SUBSET Roots(f)
  BY DEF TypedInv, StoreInv, StoreConsistent, EachHeldOnce, RenewalsLinked, Roots, Active
<1>3. /\ Cardinality(S) \in Nat /\ Cardinality(Roots(f)) \in Nat
      /\ Cardinality(S) <= Cardinality(Roots(f))
  BY <1>1, <1>2, FS_Subset, FS_CardinalityType DEF RootsBounded
<1> QED BY <1>1, <1>3 DEF RootsBounded

------------------------------------------------------------------------------
(* Results.                                                                  *)

\* Every variable of the subscriber keeps its type.
THEOREM TypeCorrect == Spec => []TypeOK
<1>1. IInv => TypeOK
  BY DEF IInv, TypedInv, StoreInv, TypeOK
<1> QED BY <1>1, Invariance, PTL

\* A subscription is pending or active, never both, and a renewal links two of the same
\* feed, whatever the actors do to the tables they share.
THEOREM TablesConsistent == Spec => []StoreConsistent
<1>1. IInv => StoreConsistent
  BY DEF IInv, TypedInv, StoreInv
<1> QED BY <1>1, Invariance, PTL

\* The scheduler task survives every interleaving that no operator takes part in: the
\* `.unwrap()` of the renewal's transaction (hub.rs:113) does not panic.
THEOREM SchedulerSurvives == Spec => []SchedulerDiesOnlyByCli
<1>1. IInv => SchedulerDiesOnlyByCli
  BY DEF IInv, SchedInv, ExpiringInv, SchedulerDiesOnlyByCli
<1> QED BY <1>1, Invariance, PTL

\* A subscription that a hub was asked to end is gone for good, so `verify_intent`
\* confirms the unsubscription.
THEOREM UnsubscriptionsConfirmed == Spec => []UnsubscribeConfirmed
<1>1. IInv => UnsubscribeConfirmed
  BY DEF IInv, TypedInv, SentInv, UnsubscribeConfirmed
<1> QED BY <1>1, Invariance, PTL

\* What a handler removes as "the old subscription" has a replacement, unless an operator
\* removed the replacement between the handler's two statements about it.
THEOREM OnlyTheOldIsRemoved == Spec => []OldIsReplaced
<1>1. IInv => OldIsReplaced
  BY DEF IInv, TypedInv, HandlerInv, HandlerOK, OldIsReplaced, Undercut, StoreInv,
     StoreConsistent, EachHeldOnce
<1> QED BY <1>1, Invariance, PTL

\* `Handle::hasten` always reaches the sleeping scheduler task: it cannot slip between
\* the task's reading the tick and its going to sleep.
THEOREM WakeupsReach == Spec => []NoLostWakeup
<1>1. IInv => NoLostWakeup
  BY DEF IInv, SchedInv
<1> QED BY <1>1, Invariance, PTL

\* Once a feed is covered by a verified subscription it stays covered: renewals, late
\* verifications, reloads and restarts replace the subscription without a gap, but for
\* the handler that an operator undercuts.
THEOREM RenewedWithoutGap == Spec => ReplacedWithoutGap
<1>1. IInv /\ [Next]_vars =>
        [\A f \in Feeds : Covered(f) =>
             \/ Covered(f)'
             \/ crashes' # crashes \/ clis' # clis
             \/ \E h \in Handlers :
                   Undercut(h) /\ subs[handler[h].old] = f /\ handler'[h] # handler[h]]_vars
  BY StepCovered DEF IInv, Kept
<1> QED BY <1>1, Invariance, PTL DEF Spec, ReplacedWithoutGap

\* No hub delivers a topic twice: renewals, repeated and late verifications, removals by
\* an operator and restarts leave one active subscription for each hub and topic, and a
\* reload adds at most one.
THEOREM NeverSubscribedTwice == Spec => []NoDuplicateSubscription
<1>1. IInv /\ RootsInv /\ [Next]_vars => RootsInv'
  BY StepRoots DEF IInv
<1>2. IInv /\ RootsInv => NoDuplicateSubscription
  BY RootsNoDuplicate DEF IInv
<1> QED BY <1>1, <1>2, InitRoots, Invariance, PTL DEF Spec

==============================================================================
