------------------------------- MODULE WebSub --------------------------------
(***************************************************************************)
(* The WebSub subscriber of pipitor: the life of its subscriptions from    *)
(* discovery to renewal (src/websub, and the parts of src/app.rs and of    *)
(* the `pipitor websub` command that touch them).                          *)
(*                                                                         *)
(* Four kinds of actors share the tables of SubscriptionStore:             *)
(*   - the scheduler task, which renews what is about to expire;           *)
(*   - request handlers, one per connection from a hub, which verify       *)
(*     intents and are not synchronised with the scheduler or each other;  *)
(*   - the application, which starts up, discovers hubs and reloads;       *)
(*   - the command-line tool, another process on the same database.        *)
(* A step is one SQL statement or transaction, or one atomic operation on  *)
(* the tick or the waker of the scheduler's handle: what lies between two  *)
(* of them interleaves.                                                    *)
(***************************************************************************)
EXTENDS SubscriptionStore, FiniteSets

CONSTANTS
    Handlers,     \* connection tasks that may run `verify_intent` at once
    StartTime,    \* where the clock starts
    Margin,       \* `renewal_margin`, in seconds
    Leases,       \* the values hubs send as hub.lease_seconds
    Never,        \* u64::MAX, the tick that means "no tick"
    MaxCrashes,   \* bounds: how often the process dies,
    MaxCli,       \* how often an operator runs `pipitor websub unsubscribe`,
    MaxReloads    \* and how often the manifest is reloaded

\* The Unix times at hand are later than the margin and before u64::MAX, so the
\* unsigned subtraction of `refresh_time` does not wrap.
ASSUME ClockAssumption ==
    /\ StartTime \in Times
    /\ Margin \in Nat
    /\ Leases \subseteq Nat
    /\ Never \in Nat
    /\ \A t \in Times : Margin <= t /\ t < Never
ASSUME BoundsAssumption == {MaxCrashes, MaxCli, MaxReloads} \subseteq Nat

VARIABLES
    now,          \* the clock
    app,          \* "down", "spawned" (scheduler task runs), "opened", "running"
    manifest,     \* topics of the manifest's feed rules
    discovering,  \* feed -> discovery tasks in flight that may still subscribe to it
    crashes, clis, reloads,
    tick,         \* `Handle::next_tick`
    delay,        \* deadline of `Scheduler::delay`, Never for None
    registered,   \* `Handle::task` holds the waker of the scheduler task
    notified,     \* the scheduler task has been woken and not yet polled
    sched,        \* where the scheduler task is: "idle" between polls
    expiring,     \* the rows `renew_subscriptions` has loaded and not yet renewed
    found,        \* the next tick the closure has computed and not yet stored
    handler,      \* what each request handler is doing
    sent          \* requests ever sent to hubs

schedVars == <<tick, delay, registered, notified, sched, expiring, found>>
countVars == <<crashes, clis, reloads>>
vars == <<storeVars, now, app, manifest, discovering, countVars, schedVars, handler, sent>>

HandlerStates ==
    [pc : {"idle", "hasten", "wake", "find_old", "find_hub", "unsubscribe_old", "activate"},
     id : Ids \cup {NoId}, expires_at : Times \cup {NotActive}, old : Ids \cup {NoId},
     feed : Feeds \cup {NoFeed}]
Idle ==
    [pc |-> "idle", id |-> NoId, expires_at |-> NotActive, old |-> NoId, feed |-> NoFeed]

Requests == [mode : {"subscribe", "unsubscribe"}, id : Ids, feed : Feeds]
Request(mode, i) == [mode |-> mode, id |-> i, feed |-> subs[i]]

AppTypeOK ==
    /\ now \in Times
    /\ app \in {"down", "spawned", "opened", "running"}
    /\ manifest \subseteq Topics
    /\ discovering \in [Feeds -> Nat]
    /\ crashes \in Nat /\ clis \in Nat /\ reloads \in Nat
    /\ tick \in Nat /\ delay \in Nat /\ found \in Nat
    /\ registered \in BOOLEAN /\ notified \in BOOLEAN
    /\ sched \in {"down", "idle", "arm", "load", "renew", "query", "store", "dead"}
    /\ expiring \subseteq Ids
    /\ handler \in [Handlers -> HandlerStates]
    /\ sent \subseteq Requests

TypeOK == StoreTypeOK /\ AppTypeOK

Least(S) == IF S = {} THEN Never ELSE CHOOSE t \in S : \A u \in S : t <= u

------------------------------------------------------------------------------
(* The scheduler task: `Scheduler::poll` and the closure `Subscriber::new`   *)
(* gives it.                                                                 *)

\* Faulty variant: operands swapped.
refresh_time_swapped(expires_at) == Margin - expires_at

refresh_time(expires_at) == expires_at - Margin

\* The task is polled: by a wake, or by its timer.
Polled ==
    /\ sched = "idle"
    /\ notified \/ delay <= now
    /\ notified' = FALSE
    /\ UNCHANGED <<storeVars, now, app, manifest, discovering, countVars,
                   tick, expiring, found, handler, sent>>

\* Faulty variant: the tick is read before the waker is registered.
SchedulerPoll_reads_first ==
    \/ /\ Polled
       /\ delay' = Least({delay, tick})
       /\ sched' = "arm"
       /\ UNCHANGED registered
    \/ /\ sched = "arm"
       /\ registered' = TRUE
       /\ sched' = IF delay <= now THEN "load" ELSE "idle"
       /\ UNCHANGED <<storeVars, now, app, manifest, discovering, countVars,
                      tick, delay, notified, expiring, found, handler, sent>>

\* A poll, by a wake or by the timer, first registers the waker.
SchedulerRegister ==
    /\ Polled
    /\ registered' = TRUE
    /\ sched' = "arm"
    /\ UNCHANGED delay

\* Then it re-arms the timer from the handle and, when the timer has elapsed, enters the
\* closure.
SchedulerArm ==
    /\ sched = "arm"
    /\ delay' = Least({delay, tick})
    /\ sched' = IF delay' <= now THEN "load" ELSE "idle"
    /\ UNCHANGED <<storeVars, now, app, manifest, discovering, countVars,
                   tick, registered, notified, expiring, found, handler, sent>>

SchedulerPoll == SchedulerRegister \/ SchedulerArm

\* Faulty variant: rows already being renewed are loaded again.
Expiring_with_renewing == {i \in Active : expiry[i] <= now + Margin + 1}

\* The rows `renew_subscriptions` selects.
Expiring == {i \in Active \ RenewingSubs : expiry[i] <= now + Margin + 1}

SchedulerLoad ==
    /\ sched = "load"
    /\ expiring' = Expiring
    /\ sched' = IF Expiring = {} THEN "query" ELSE "renew"
    /\ UNCHANGED <<storeVars, now, app, manifest, discovering, countVars,
                   tick, delay, registered, notified, found, handler, sent>>

\* Faulty variant: the old subscription is dropped before the new one is verified.
SchedulerRenew_replaces_at_once ==
    /\ sched = "renew"
    /\ \E old \in expiring : DeleteRows({old}) /\ expiring' = expiring \ {old}
    /\ sched' = IF expiring' = {} THEN "query" ELSE "renew"
    /\ UNCHANGED <<now, app, manifest, discovering, countVars,
                   tick, delay, registered, notified, found, handler, sent>>

\* One iteration of its loop: the transaction of `hub::renew`, and the request.
SchedulerRenew ==
    /\ sched = "renew"
    /\ \E old \in expiring, new \in Ids :
        /\ Renewable(old)
        /\ Renew(old, new, subs[old])
        /\ sent' = sent \cup {[mode |-> "subscribe", id |-> new, feed |-> subs[old]]}
        /\ expiring' = expiring \ {old}
        /\ sched' = IF expiring' = {} THEN "query" ELSE "renew"
    /\ UNCHANGED <<now, app, manifest, discovering, countVars,
                   tick, delay, registered, notified, found, handler>>

\* The transaction fails on a constraint and `.unwrap()` panics: the task is gone.
SchedulerPanic ==
    /\ sched = "renew"
    /\ \E old \in expiring : ~Renewable(old)
    /\ sched' = "dead"
    /\ expiring' = {}
    /\ delay' = Never
    /\ UNCHANGED <<storeVars, now, app, manifest, discovering, countVars,
                   tick, registered, notified, found, handler, sent>>

\* The closure's last query: the earliest expiry without a renewal in flight.
NextTick == Least({refresh_time(expiry[i]) : i \in Active \ RenewingSubs})

SchedulerQuery ==
    /\ sched = "query"
    /\ found' = NextTick
    /\ sched' = "store"
    /\ UNCHANGED <<storeVars, now, app, manifest, discovering, countVars,
                   tick, delay, registered, notified, expiring, handler, sent>>

\* Faulty variant: the timer that elapsed is not reset.
SchedulerStore_without_reset ==
    /\ sched = "store"
    /\ tick' = found
    /\ delay' = Never
    /\ found' = Never
    /\ sched' = "idle"
    /\ UNCHANGED <<storeVars, now, app, manifest, discovering, countVars,
                   registered, notified, expiring, handler, sent>>

\* The poll ends by a plain store of the next tick, over whatever is there.
SchedulerStore ==
    /\ sched = "store"
    /\ tick' = found
    /\ delay' = found
    /\ found' = Never
    /\ sched' = "idle"
    /\ UNCHANGED <<storeVars, now, app, manifest, discovering, countVars,
                   registered, notified, expiring, handler, sent>>

SchedulerStep ==
    \/ SchedulerPoll \/ SchedulerLoad \/ SchedulerRenew \/ SchedulerPanic
    \/ SchedulerQuery \/ SchedulerStore

------------------------------------------------------------------------------
(* A request handler: `Service::verify_intent`.  The hub may answer any      *)
(* request it was ever sent, late, repeatedly or never.  An intent that is   *)
(* not confirmed (404) changes nothing and is not a step.                    *)

\* The guard of the Subscribe arm: the row is there, for this topic, not active.
Verifiable(i, topic) == i \in Held \ Active /\ subs[i].topic = topic

\* The handler of h moves to the state s; everything but the tables, the handle and
\* the requests is left alone.
Step(h, s) ==
    /\ handler' = [handler EXCEPT ![h] = s]
    /\ UNCHANGED <<now, app, manifest, discovering, countVars,
                   delay, sched, expiring, found>>

VerifySubscribe(h) ==
    /\ app = "running"
    /\ handler[h] = Idle
    /\ \E r \in sent, lease \in Leases :
        /\ r.mode = "subscribe"
        /\ Verifiable(r.id, r.feed.topic)
        /\ now + lease \in Times
        /\ Step(h, [Idle EXCEPT !.pc = "hasten", !.id = r.id, !.expires_at = now + lease])
    /\ UNCHANGED <<storeVars, tick, registered, notified, sent>>

\* `Handle::hasten`, before the subscription it is for is active: an atomic minimum ...
Hasten(h) ==
    LET t == refresh_time(handler[h].expires_at) IN
    /\ handler[h].pc = "hasten"
    /\ tick' = Least({tick, t})
    /\ Step(h, [handler[h] EXCEPT !.pc = IF t < tick THEN "wake" ELSE "find_old"])
    /\ UNCHANGED <<storeVars, registered, notified, sent>>

\* ... and, if it lowered the tick, `AtomicWaker::wake`, which takes the waker.
Wake(h) ==
    /\ handler[h].pc = "wake"
    /\ notified' = (notified \/ registered)
    /\ registered' = FALSE
    /\ Step(h, [handler[h] EXCEPT !.pc = "find_old"])
    /\ UNCHANGED <<storeVars, tick, sent>>

\* Faulty variant: never a renewal.
FindOld_none(h) ==
    /\ handler[h].pc = "find_old"
    /\ Step(h, [handler[h] EXCEPT !.pc = "activate"])
    /\ UNCHANGED <<storeVars, tick, registered, notified, sent>>

\* Is it a renewal?
FindOld(h) ==
    LET v == handler[h]  old == renewing[v.id] IN
    /\ v.pc = "find_old"
    /\ Step(h, [v EXCEPT !.pc = IF old = NoId THEN "activate" ELSE "find_hub", !.old = old])
    /\ UNCHANGED <<storeVars, tick, registered, notified, sent>>

\* Faulty variant: the request leaves before the old row is deleted.
FindHub_sends(h) ==
    LET v == handler[h] IN
    /\ v.pc = "find_hub" /\ v.id \in Held
    /\ sent' = sent \cup {[mode |-> "unsubscribe", id |-> v.old, feed |-> subs[v.id]]}
    /\ Step(h, [v EXCEPT !.pc = "unsubscribe_old", !.feed = subs[v.id]])
    /\ UNCHANGED <<storeVars, tick, registered, notified>>

\* Then its hub is looked up.  The unwrap panics, and the connection task with it, if the
\* row is gone.
FindHub(h) ==
    LET v == handler[h] IN
    /\ v.pc = "find_hub"
    /\ Step(h, IF v.id \in Held
                 THEN [v EXCEPT !.pc = "unsubscribe_old", !.feed = subs[v.id]]
                 ELSE Idle)
    /\ UNCHANGED <<storeVars, tick, registered, notified, sent>>

\* Faulty variant: the row stays until the hub confirms.
UnsubscribeOld_sends_only(h) ==
    LET v == handler[h] IN
    /\ v.pc = "unsubscribe_old"
    /\ sent' = sent \cup {[mode |-> "unsubscribe", id |-> v.old, feed |-> v.feed]}
    /\ Step(h, [v EXCEPT !.pc = "activate"])
    /\ UNCHANGED <<storeVars, tick, registered, notified>>

\* `hub::unsubscribe` of the old subscription: delete, then send.
UnsubscribeOld(h) ==
    LET v == handler[h] IN
    /\ v.pc = "unsubscribe_old"
    /\ DeleteRows({v.old})
    /\ sent' = sent \cup {[mode |-> "unsubscribe", id |-> v.old, feed |-> v.feed]}
    /\ Step(h, [v EXCEPT !.pc = "activate"])
    /\ UNCHANGED <<tick, registered, notified>>

\* The final transaction; its unwrap panics if another handler was first or if the row
\* is gone.  Either way the handler is done.
ActivateNew(h) ==
    LET v == handler[h] IN
    /\ v.pc = "activate"
    /\ IF Activatable(v.id)
        THEN Activate(v.id, v.expires_at)
        ELSE UNCHANGED storeVars
    /\ Step(h, Idle)
    /\ UNCHANGED <<tick, registered, notified, sent>>

HandlerStep(h) ==
    Hasten(h) \/ Wake(h) \/ FindOld(h) \/ FindHub(h) \/ UnsubscribeOld(h) \/ ActivateNew(h)

------------------------------------------------------------------------------
(* The application: start-up, discovery, reload, death.                      *)

appVars == <<now, manifest, countVars, handler, sent>>

\* `Subscriber::new`: the first tick counts every active row; the task is spawned.
Start ==
    /\ app = "down"
    /\ app' = "spawned"
    /\ tick' = Least({refresh_time(expiry[i]) : i \in Active})
    /\ delay' = tick'
    /\ registered' = FALSE /\ notified' = TRUE
    /\ sched' = "idle"
    /\ UNCHANGED <<storeVars, appVars, discovering, expiring, found>>

\* `remove_dangling_subscriptions`, while the scheduler task already runs.
RemoveDangling ==
    /\ app = "spawned"
    /\ DeleteRows(Held \ Active)
    /\ app' = "opened"
    /\ UNCHANGED <<appVars, discovering, schedVars>>

Subscribed(topics) == {t \in topics : \E i \in Held : subs[i].topic = t}

\* `sync_websub_subscriptions`: look for the hubs of the topics without a subscription
\* and unsubscribe from the subscribed ones that are not in the manifest.  The
\* `subscribed` it works from is already restricted to the topics of the manifest.
Sync(topics) ==
    LET subscribed == Subscribed(topics)
        removed == {i \in Held : subs[i].topic \in subscribed \ topics} IN
    /\ discovering' = [f \in Feeds |->
                          discovering[f] + IF f.topic \in topics \ subscribed THEN 1 ELSE 0]
    /\ DeleteRows(removed)
    /\ sent' = sent \cup {Request("unsubscribe", i) : i \in removed}

StartUpSync ==
    /\ app = "opened"
    /\ Sync(manifest)
    /\ app' = "running"
    /\ UNCHANGED <<now, manifest, countVars, schedVars, handler>>

\* `App::replace_manifest`.
Reload ==
    /\ app = "running"
    /\ reloads < MaxReloads
    /\ reloads' = reloads + 1
    /\ manifest' \in SUBSET Topics
    /\ Sync(manifest')
    /\ UNCHANGED <<now, app, crashes, clis, schedVars, handler>>

\* `discover_and_subscribe`, after the topic was fetched: it links the hub ...
Discovered(f) ==
    /\ discovering[f] > 0
    /\ discovering' = [discovering EXCEPT ![f] = @ - 1]
    /\ \E i \in Ids :
        /\ Subscribe(i, f)
        /\ sent' = sent \cup {[mode |-> "subscribe", id |-> i, feed |-> f]}
    /\ UNCHANGED <<now, app, manifest, countVars, schedVars, handler>>

\* ... or it does not, or could not be fetched: there is no retry.
NotDiscovered(f) ==
    /\ discovering[f] > 0
    /\ discovering' = [discovering EXCEPT ![f] = @ - 1]
    /\ UNCHANGED <<storeVars, app, appVars, schedVars>>

\* The process dies, or is stopped, between any two steps; the tables stay.
Crash ==
    /\ app # "down"
    /\ crashes < MaxCrashes
    /\ crashes' = crashes + 1
    /\ app' = "down"
    /\ discovering' = [f \in Feeds |-> 0]
    /\ tick' = Never /\ delay' = Never /\ registered' = FALSE /\ notified' = FALSE
    /\ sched' = "down" /\ expiring' = {} /\ found' = Never
    /\ handler' = [h \in Handlers |-> Idle]
    /\ UNCHANGED <<storeVars, now, manifest, clis, reloads, sent>>

\* `pipitor websub unsubscribe`: one transaction deletes the rows, then it sends.
CliUnsubscribe ==
    /\ clis < MaxCli
    /\ clis' = clis + 1
    /\ \E S \in SUBSET Held :
        /\ S # {}
        /\ DeleteRows(S)
        /\ sent' = sent \cup {Request("unsubscribe", i) : i \in S}
    /\ UNCHANGED <<now, app, manifest, discovering, crashes, reloads, schedVars, handler>>

ClockTick ==
    /\ now + 1 \in Times
    /\ now' = now + 1
    /\ UNCHANGED <<storeVars, app, manifest, discovering, countVars, schedVars,
                   handler, sent>>

------------------------------------------------------------------------------

Init ==
    /\ StoreInit
    /\ now = StartTime
    /\ app = "down"
    /\ manifest \in SUBSET Topics
    /\ discovering = [f \in Feeds |-> 0]
    /\ crashes = 0 /\ clis = 0 /\ reloads = 0
    /\ tick = Never /\ delay = Never /\ registered = FALSE /\ notified = FALSE
    /\ sched = "down" /\ expiring = {} /\ found = Never
    /\ handler = [h \in Handlers |-> Idle]
    /\ sent = {}

Next ==
    \/ SchedulerStep
    \/ \E h \in Handlers : VerifySubscribe(h) \/ HandlerStep(h)
    \/ Start \/ RemoveDangling \/ StartUpSync \/ Reload \/ Crash
    \/ \E f \in Feeds : Discovered(f) \/ NotDiscovered(f)
    \/ CliUnsubscribe \/ ClockTick

Spec == Init /\ [][Next]_vars

\* The runtime keeps polling woken tasks and the clock goes on; hubs, operators and
\* the network owe nothing.
FairSpec == Spec /\ WF_vars(SchedulerStep) /\ WF_vars(ClockTick)

------------------------------------------------------------------------------
(* Properties.                                                               *)

\* The scheduler task never panics on the transaction of a renewal, however requests
\* and restarts interleave with it: what it loaded stays active and without another
\* renewal until it renews it.  Only an operator who removes a row under it can kill it.
SchedulerDiesOnlyByCli == sched = "dead" => clis > 0

\* Every unsubscription the program asks a hub for is one it will confirm when the hub
\* verifies the intent: the id is gone before the request leaves, and for good.
UnsubscribeConfirmed == \A r \in sent : r.mode = "unsubscribe" => r.id \notin Held

\* A hub does not deliver a topic twice: one active subscription for each hub and
\* topic, whatever restarts, repeated verifications and renewals do.  Each reload may
\* add one, as it does not see the discoveries in flight.
NoDuplicateSubscription ==
    \A f \in Feeds : Cardinality({i \in Active : subs[i] = f}) <= 1 + reloads

\* A hastened tick reaches the timer, although the tick and the waker are read and written
\* one by one on both sides: when the scheduler task sleeps, with no wake on its way, its
\* timer fires no later than the tick in its handle.
NoLostWakeup ==
    sched = "idle" /\ ~notified /\ (\A h \in Handlers : handler[h].pc # "wake")
        => delay <= tick

\* The handler of h has looked up the hub of its new subscription and will remove the old
\* one, but the new one is gone.
Undercut(h) == handler[h].pc = "unsubscribe_old" /\ handler[h].id \notin Held

\* The old subscription that a handler is about to remove is still the one its new
\* subscription replaces, or is gone already, although the handler read it statements
\* before.  Only an operator who removes the new one under it makes it remove a
\* subscription that nothing replaces.
OldIsReplaced ==
    \A h \in Handlers :
        LET v == handler[h] IN
        v.pc = "unsubscribe_old" /\ v.old \in Active =>
            renewing[v.id] = v.old \/ (Undercut(h) /\ clis > 0)

\* A feed is covered by an active subscription, or by a verified one that a handler is
\* about to make active in its place.
Covered(f) ==
    \/ \E i \in Active : subs[i] = f
    \/ \E h \in Handlers :
          handler[h].pc = "activate" /\ handler[h].id \in pending /\ subs[handler[h].id] = f

\* A subscription once established stays: renewals replace it without a gap.  It ends only
\* if the process dies between removing the old and activating the new one, if an operator
\* removes it, or if one removed the new one between the handler's two statements about
\* the old one.
ReplacedWithoutGap ==
    [][\A f \in Feeds : Covered(f) =>
           \/ Covered(f)'
           \/ crashes' # crashes \/ clis' # clis
           \/ \E h \in Handlers :
                 Undercut(h) /\ subs[handler[h].old] = f /\ handler'[h] # handler[h]]_vars

\* The scheduler sleeps with a timer that is early enough for subscription i.
Armed(i) ==
    /\ sched = "idle"
    /\ i \in Active \ RenewingSubs
    /\ delay <= refresh_time(expiry[i])

\* What is armed is renewed (or goes): a timer that fires for another subscription, or
\* is hastened, is set again in time for this one.  Ids may run out in a small instance.
ArmedIsRenewed ==
    \A i \in Ids :
        Armed(i) ~> \/ i \notin Active \/ i \in RenewingSubs
                    \/ sched \in {"down", "dead"} \/ used = Ids

\* CONFIG.md:82-89: "the subscriber server will send a renewal request of the
\* subscription to the hub at" the margin before its expiration.  So whenever the
\* program is at rest, its timer is early enough for every subscription that is active,
\* not being renewed and not yet due.
RenewalScheduled ==
    /\ app = "running" /\ sched = "idle" /\ ~notified
    /\ \A h \in Handlers : handler[h] = Idle
    => \A i \in Active \ RenewingSubs : refresh_time(expiry[i]) > now => Armed(i)

\* The same at start-up: once the dangling subscriptions are gone and the scheduler
\* sleeps, the active ones it found in the database are scheduled (scheduler.rs:18-20:
\* it "resets the next tick based on the WebSub subscription's expiration time in the
\* database").
RestartScheduled ==
    app = "opened" /\ sched = "idle" /\ ~notified
        => \A i \in Active \ RenewingSubs : Armed(i)

\* app.rs:231-232: a reload "takes care of keeping the `App`'s state consistent with
\* the new manifest".  So a reload leaves no subscription of a topic the manifest no
\* longer has.
ReloadDropsRemovedTopics ==
    [][reloads' # reloads => \A i \in Held' : subs'[i].topic \in manifest']_vars

==============================================================================
