# Verification of pipitor

Pipitor is a bot that receives tweets (Streaming API, list timeline) and feed
entries (WebSub) and retweets or posts them through Twitter accounts, as the
routes of a manifest say. This directory holds TLA+ models of it, TLC runs over
small instances and proofs checked by TLAPS. Paths below are relative to the
repository's root.

## Inventory

| Component | State | Operations | What is hard |
|---|---|---|---|
| WebSub tables (`migrations/*websub*`, `src/websub/hub.rs`, `src/query.rs`) | subscriptions; which are pending, active until when, replaced by which | subscribe, renew, unsubscribe, activate | rows shared by the scheduler task, connection tasks, start-up and another process; crashes between transactions |
| Scheduler (`src/websub/subscriber/scheduler.rs`) | next tick (atomic), waker, timer | poll, hasten | lost wakes, overwritten ticks |
| Subscriber service (`src/websub/subscriber/service.rs`) | callback, margin, channel | verify_intent, discover, renew, receive content | a handler's reads are stale when it writes; hubs answer late, repeatedly or never |
| Start-up and reload (`src/app.rs`) | manifest, discoveries in flight | init_websub, sync_websub_subscriptions, replace_manifest | starts tasks before the tables are clean; discoveries outlive a reload |
| Sender (`src/app/sender.rs`) | tweets, entries, ongoing_retweets, last_tweet; the connections its posts hold | send_feed, send_tweet(s), retweet | check, asynchronous post, record: duplicates and losses; a post keeps its connection while the main thread waits for another |
| Shutdown (`src/app/shutdown.rs`) | Arc count, waker | poll, Handle::drop, handle | drops on worker threads race with the wait |
| List timeline (`src/twitter/list_timeline.rs`, `.../interval.rs`) | since_id, backfill, interval | poll_next, backfill, send | gaps after a crash, rate limits |
| Life cycle (`src/app.rs`, `src/app/core.rs`, `src/bin/pipitor/run.rs`) | manifest, pool, tokens, streams, router; the phase of `main` | start, reset, reload with rollback, shutdown | failed half way, while an operator edits the manifest and logs users in |
| `run` beside other processes (`src/bin/pipitor/run.rs`, `.../common/ipc.rs`) | lock on the manifest, IPC socket, requests and answers | lock, bind, serve, remove | the lock follows the file, the socket the path; crashes leave the socket behind |
| Router, manifest, feed parsing | none | `Router::from_manifest`, `route_*`, `Manifest` and its parts, `Entry::from_*`, `RawFeed::parse` | precedence of what may be missing or repeated |
| Utilities | none | encodings | edge cases |
| CLI (`src/bin/pipitor`) | the same database | websub unsubscribe, login, list sync | runs beside the bot |

Interactions: `App::poll` takes tweets from the stream and the list timeline and
feeds from the subscriber's channel and hands them to the sender, which spawns
tasks holding a shutdown handle. Connection tasks and the scheduler task share
the database and the scheduler's handle and nothing else. `run` selects between
the application, a signal and IPC requests (reload, shutdown). `pipitor websub`
works on the same database from another process.

What makes each correct: every topic of the manifest keeps an active
subscription at each of its hubs, renewed before it expires, replaced without a
gap and without duplicates; hubs are asked to end only what has been replaced or
removed; a feed entry is tried until it is on record and never after, a retweet is
asked for at most once; what a hub delivers is authentic; no tweet is skipped over
a restart; a shutdown waits for every post in flight and then ends; after a reload,
done or failed, router, database and tokens are those of the manifest in force.

## Plan

| | Module | Status |
|---|---|---|
| A | `SubscriptionStore` (the tables and their transactions), `WebSub` made of them, proofs | done |
| B | `Shutdown`, proofs | done |
| C | `ListTimeline` with its interval, and the rows `last_tweet` and `tweets` through which a restart continues; proofs | done |
| D | `Manifest` and `Feed` (pure), `Content` (from the hub's request to the channel), `Broadcast` (abstract), `Sender` implementing it; proofs | done |
| E | `Instances` (locks and sockets of several processes), `Lifecycle` composing it with `Shutdown` and `Manifest`; proofs | done |

What would come next: a reload that exchanges the database under the subscriber; the set
difference of the list synchronisation. No module declares a recursive operator.

How the modules compose:

    SubscriptionStore <- WebSub          (EXTENDS: the actors share these transactions)
    Manifest <- Feed <- Content <- Sender (EXTENDS, the channel is shared state)
    Broadcast <= Sender                  (INSTANCE WITH a refinement mapping)
    Shutdown, Instances, Manifest <- Lifecycle (EXTENDS; Lifecycle => both specifications)
    ListTimeline                         (with the rows it shares with the sender)

## Modules

### SubscriptionStore

The persistent state, as functions over subscription ids: `subs` (hub and topic of
a row), `pending`, `expiry` (of the active rows), `renewing` (new to old), and
`used`, the ids ever drawn. The actions are the committed transactions:
`Subscribe`, `Renew`, `DeleteRows` with the cascades of the schema, `Activate`. A
transaction that would break a key is not enabled: `Renewable` and `Activatable` say
when it commits.

Left out: the secret and `created_at`. An id is drawn at random from 63 bits and
retried while it is in the table; that an id which was removed comes back later is
assumed not to happen.

### WebSub

One action for each SQL statement or transaction, and for each atomic operation on
the scheduler's handle, because between two of them every other actor may move:

| Code | Actions |
|---|---|
| `Scheduler::poll` and its closure (`subscriber.rs:81-96`) | `SchedulerRegister` (the waker), `SchedulerArm` (re-arm from the handle, see whether the timer elapsed), `SchedulerLoad` (select the expiring rows), `SchedulerRenew` once a row (transaction and request) or `SchedulerPanic` (its unwrap), `SchedulerQuery` (next tick), `SchedulerStore` (plain store, timer reset) |
| `Service::verify_intent` | `VerifySubscribe` (the guard, and the expiry from the lease), `Hasten` (the atomic minimum), `Wake`, `FindOld`, `FindHub` (of the new subscription, or a panic where it is gone), `UnsubscribeOld` (delete, request), `ActivateNew` (final transaction, or its panic) |
| `Subscriber::new`, `remove_dangling_subscriptions`, `sync_websub_subscriptions` at start-up | `Start`, `RemoveDangling`, `StartUpSync` |
| `replace_manifest` | `Reload` |
| `discover_and_subscribe` | `Discovered`, `NotDiscovered`, for the discoveries counted by `Sync` |
| `pipitor websub unsubscribe` | `CliUnsubscribe` |
| end of the process | `Crash`; `Start` is also the restart |

`sent` remembers every request ever sent: a hub may verify any of them, at any time,
any number of times, or never; a request lost on the way is one no hub answers. The
arm of `verify_intent` that confirms an unsubscription, and the 404 answers, change
nothing and are not actions. A handler whose unwrap panics is idle again: only its
connection task dies. Where two calls are one action, nobody can tell them apart: the
deletion and the request of `hub::unsubscribe`, since hubs ask about a request only
after it was sent, and the load of the tick and the setting of the timer, since only the
scheduler touches the timer. `WebSub` is not claimed to refine `SubscriptionStore`: its
actions use those transactions, so there would be nothing to show.

The clock counts seconds, as `now_unix().as_secs()` does. `Times` lies above the
margin and below `u64::MAX` (`ClockAssumption`), so `refresh_time` does not wrap and
the saturation of `expires_at` is not reached. A feed document that links the same hub
twice, and a failing database (`SQLITE_BUSY` after the timeout, a full disk), are left
out. A failed reload rolls back before it touches subscriptions and is not an action.

### Shutdown

`count` is the Arc's strong count, `waker` the AtomicWaker, `woken` the pending wake
of the main task. Dropping a handle is three steps: `Drop` reads the count, `Wake`
follows if it read 2, `Release` is the Arc's own decrement after `Handle::drop` has
returned. The wait is two: `Check`, then `Register`. `OtherWake` is a wake by
anything else the main task waits for. `Finish` returns to service after
`App::reset`, or exits.

### ListTimeline

A tweet is its id, and its id is the time it was posted: a Snowflake. `at` says when the
list shows it, up to `K` later; it is chosen once, at the start, so a run covers every
order. An answer is what the list showed at some time between the request and now, cut
to the newest 200 (`Newest`).

| Code | Actions |
|---|---|
| `Core::init_twitter_list`, `ListTimeline::new` | `Start` |
| `Interval::poll_next` when the timer elapses | `IntervalPoll`: takes the rate limit from the handle; the timer is postponed, or the interval is ready |
| its reset of the timer, `RequestSender::send`, and the next `poll_next` of `for_each` | `IntervalFire`: the poll leaves, and a rate limit that came since `IntervalPoll` moves the new deadline |
| the future of `send` | `Arrive`, `Fail`, either with a rate limit |
| `Backfill::poll` | `BackfillArrive`, `BackfillFail`, either with a rate limit that is dropped |
| `App::poll` and `poll_shutdown` handing a batch to `Sender::send_tweets` | `Deliver`; `CutDelivery` when the process ends in the middle |
| `ListTimeline::shutdown`, the end of `poll_shutdown` | `Shutdown`, `Stopped` |

`IntervalAlive` is the upgrade of the interval's weak reference: after a shutdown it still
succeeds while a request or the backfill holds the sender. `set_since_id` and the send on
the channel are one step: nobody reads one without the other except a poll, whose answer
may come in either order anyway. Two polls in one tick with the same `since_id` count as
one. `told` records the rate limits that the process was told of and whether a poll or the
backfill was told (history); `heard` those told before the interval last took its limit. The
backfill requests the same endpoint as the polls but keeps only the data of an answer
(`list_timeline.rs:180-187`): its limits reach neither the handle nor its own next page. `Deliver` is one step because nothing else reads the two rows while the process is
up; `CutDelivery` breaks it at every statement.

Time: the clock does not pass a due timer by more than `Lag`, nor a request by more than
`Latency`; both are parameters. The tweets are original tweets some route takes, with
`skip_duplicate` off; the Streaming API, and the reload that replaces the timeline, are
left out, and so is a failing database.

### Manifest and Feed

Operators only. An optional value is a set of at most one element, a tree that serde reads
is a node `[t, v]`, a regular expression the set of texts it matches, a path the sequence
of its components. `ManifestOf` is the deserialization of a document with its validation,
`RouterOf` and `RouteEntry`, `RouteTweet` the router; `FromAtom`, `FromRss`, `MediaType` and
`Parse` lead from what the XML parsers return to entries. An order that the code takes from
a `BTreeMap` is the order of the sequence.

### Content

| Code | Actions |
|---|---|
| `Service::call` up to the answer 200 | `Call`, if `Readable` |
| the task that reads, verifies and parses the body | `BodyArrives`, `BodyFails` |
| `Service::discover` | `Fetch`, then `Fetched` (of the document that `Unhubbed` leaves) or `FetchFails` |
| rows that come and go (WebSub has the detail) | `MakeSubscription`, `RemoveSubscription` |
| `Subscriber::poll_next` | `Receive` |

Requests differ in the prefix of the path, the id, the query, the media type, the parts of
the signature header, and the body. A secret is known by the id of its subscription and a
MAC is the pair of key and contents: that nobody forges one is what the cryptography gives.
`made` is a history variable.

### Sender

| Code | Actions |
|---|---|
| `App::poll` taking from the list, the channel and the stream, in this order | `PollList`, `PollWebSub`, `PollStream` |
| `send_entry` | `SkipEntry` (no link, or processed), `SendEntry` (the look-up and the first posts), `SendNext` (the next post, when a connection is free) |
| the task of a post | `PostAccepted` (Twitter), `PostRecorded` (`replace_into`), `PostFails` |
| `send_tweet_` | `SkipTweet`, `LookUpTweet` (and the row of `last_tweet`), `PassOver` (a retweet, or with `skip_duplicate` no route), `SendTweet` (the transaction of `retweet`) |
| the look for a duplicate | `DuplicateShown`, `DuplicateNotShown` |
| the task of a retweet | `RetweetAsked` (Twitter), `RetweetSettled` (the row goes), `RetweetFails` |
| `?` on an error in a batch | `GiveUp` |
| start, reload, end of the stream, reset, end of the process | `Start`, `Reload`, `StreamEnds`, `Reset`, `Crash` |

The main thread blocks in `core.conn()` while all connections are out: an action that takes
one needs it in `Free`. `entries` has the key (topic, id) and the look-up goes by that key
or by the link; a row without an id never conflicts. A retweet that Twitter refuses as
"already retweeted" or unknown keeps its row while any other refusal drops it
(`sender.rs:229-245`): the model does the same. Tweets' texts and lengths are left out.

`subscriber` is `App.websub`, made once with the manifest of the start (`app.rs:141`): a reload
neither makes nor removes it (`app.rs:404-409`). The tables stay as they are in a reload, though it
may put another database in their place.

### Broadcast

The promise: an entry may be tried again until it is on record, and never after; a record
rests on at least one accepted tweet, whatever became of the other outboxes; a tweet is on
record before any of its retweets is asked for, and each is asked for at most once.
Exactly-once is not promised and not kept: the same entry delivered twice before the first
post is recorded is posted twice, and so is one whose process dies between post and
record.

`Sender` maps its state to it: `Trying` are the posts that wait for an answer and those
that the entry in hand still wants, `Pending` the retweets held or sent and not yet seen by
Twitter, `recorded` and `accepted` the keys and tweets of the tables.

### Instances

One step for each system call of a process: open the manifest, lock what was opened, bind
the socket, give up on it, close, remove, unlock. `ReplaceFile` puts a new inode at the
manifest's path (as editors do), so that two processes can hold locks at once; `Killed`
leaves the socket behind, as `Stale`.

### Lifecycle

`phase` is where `main` of `run.rs` waits: it awaits one thing at a time, so a reload, a
reset and a shutdown exclude each other and the requests queue. Operators edit the file
among the named documents, log users in, and call `pipitor ctl`.

| Code | Actions |
|---|---|
| `main` until the application runs | `ReadManifest`, `OpenLock`, `TryLock`, `StartServer`, `NewCore`, `Started` or `StartFails` |
| tasks of the sender, waits | `SpawnTask`, `TaskStep`, `Wait` (the steps of Shutdown) |
| `App::poll` returning, `reset` | `AppReturns`, `Reconnected`, `Restarted`, `ResetFails` |
| `poll_shutdown` | `ExhaustList`, then `Wait` |
| signal, request, answer, end | `Signal`, `TakeShutdown`, `Quit`, `Exit`, `Crash` |
| `replace_manifest` until it awaits Twitter, and after | `TakeReload` or `RejectReload`; `Reloaded`, `ReloadFails` (with `RolledBack`) |

After a failed reload `run.rs` exits; the model also lets the application go on, as another
caller of `replace_manifest` may, so that the rollback is put to use. The stream and the list
are Booleans; whether a database can be opened depends on its URL alone.

## Runs

| Run | Instance | Shows |
|---|---|---|
| `websub` | 3 ids, 1 hub, 1 topic, 2 handlers, 4 seconds, lease 2, margin 1, one crash, one reload, one operator command | all safety properties |
| `websub_live` | 4 ids, 2 hubs, 1 handler, 5 seconds, leases 2 and 3 | `ArmedIsRenewed` under fairness |
| `renewal_scheduled` | 3 ids, 2 hubs, 1 handler | violated: the store of the next tick overwrites a hastened one |
| `restart_scheduled` | 3 ids, 1 hub, one crash | violated: the scheduler starts before the dangling rows go |
| `reload_drops_topics` | 3 ids, 1 hub, one reload | violated: dropped topics stay subscribed |
| `lifecycle` | 2 tasks, 2 processes, 5 documents, 2 databases, 1 request waiting (`MaxRequests`), 2 edits or logins (`MaxChanges`), 1 replaced file (`MaxReplacements`) | `WaitsForAll`, `ServerIsReachable`, `TokensCoverRouter`, `Consistent`, `AnsweredMeansDone` |
| `shutdown_wake` | 2 tasks | violated: the last handle goes and nobody wakes the application |
| `list_timeline` | 3 tweets, disorder 2, interval 1, delay 5, answers within 1, pages of 1, up to two failures or limits of 2 lengths a process, 2 starts, one crash | `BackfillComplete`, `CaughtInTime`, `RateLimitObeyed` |
| `documented_delay` | 3 tweets, half-second ticks, disorder, interval and delay 2 | violated: a delay equal to the disorder skips a tweet |
| `sender` | 2 tweets of one text and a retweet, 1 topic with 2 Atom entries or 2 RSS items, 2 manifests (one with a user, and with `websub`, which the other does not have), 2 connections, 2 deliveries, 1 reload, 1 failure or crash | `BroadcastSpec`, `UnaskedIsOngoing`, `RecordsAreKept`, `RoutedByEveryRule`, `PostsTheAlternateLink`, `ExcludedIsNotPosted`, `TokensAtHand`; under fairness `WorkDrains` |
| `content` | 2 subscriptions, 13 requests, 2 updates on their way (`MaxUpdates`) | `UpdatesAreSigned` |
| `suspension` | as `list_timeline`, 3 starts, no failures | violated: a crash during the backfill loses what it had not recorded |

Why the bounds are enough. A renewal involves an old and a new subscription; the third
id is a duplicate or a renewal of the renewal, and in `websub_live`, with two hubs, the
other hub's, so that a timer serves one while another is renewed. There, four ids and two
leases let the timer fire for one subscription and be set again for the other: one
`renew_subscriptions` takes all that expire within a second of the margin, so with one
lease it would take both. Two handlers are enough for two verifications of one id, the
only way handlers meet. The clock reaches one lease and the renewal inside it. One crash
puts a restart after every prefix. The proofs drop these bounds for every safety property
of `WebSub`. The instances stop when ids and clock run
out, so deadlock is not checked; the shut down process stops as well.

In `list_timeline`, three tweets give a backfill of two pages and a tweet shown out of
order between two polls; answers may be as slow as the interval, so polls overlap; two
starts put a backfill after every way to end. `Lag` is 0 there: a late timer acts on
`CaughtInTime` as a longer interval. Two overlapping polls may each tell a limit, the shorter one
after the longer, before, between and after the two steps of the interval.

In `sender`, two deliveries (`MaxDeliveries`) bring the same entry or tweet again before,
between and after the steps of the first, and list and stream in either order; two
outboxes and two connections make a post wait for the connection that another holds while
the batch goes on. `MaxReloads` gives the tables to a second router, and `MaxFaults` puts
one failure, error in the batch or crash anywhere. `Content` runs inside with
fetches only; its own run has the hubs. In `lifecycle`, one request at a time is no loss,
as `main` serves one at a time and the queue only delays; two changes give a login between
an edit and the reload, or an edit between reload and reset; the documents are two bots
with different users and databases, one without Twitter, one whose database does not open
and one malformed. The proofs drop these bounds for every safety property
they state (only the tasks at once and the connections stay finite).

What each property says is in the comment above it. The ones to know:

* `ReplacedWithoutGap`: a feed with an active subscription always has one, or a
  verified one whose handler is about to activate it. It ends by a crash in that window, by
  an operator's command, or late by one: if `pipitor websub unsubscribe` removes the new
  subscription after its handler has looked up its hub (`service.rs:395`), the handler
  goes on to remove the old one (`service.rs:402`), which nothing replaces (`Undercut`).
* `SchedulerDiesOnlyByCli`: the unwrap at `hub.rs:113` is safe against handlers and
  restarts.
* `OldIsReplaced`, `UnsubscribeConfirmed`: stale reads in `verify_intent` never make it
  remove the wrong subscription, except in that case, or one that comes back.
* `NoLostWakeup`: the handle's tick reaches the timer, with minimum and wake on one side and
  registration and arming on the other step by step. `RenewalScheduled` then shows what
  is lost before the handle: the tick itself.
* `BackfillComplete`: pages, polls beside them and a shutdown never leave out a tweet the
  restart has to catch up with. `SuspensionIsBackfilled` shows that a crash does.
* `BroadcastSpec`: crashes, repeated deliveries, the two keys of an entry and the four steps
  of a post never make the sender try what is on record, record what no one accepted, or
  ask for a retweet twice.
* `UnaskedIsOngoing`: a retweet that was due and that Twitter never heard of has its row.
* `RoutedByEveryRule`, `ExcludedIsNotPosted`: at the moment of the request, exactly the users of
  the rules that let a tweet pass, and only those of rules that let an entry pass, whatever was
  reloaded while it waited.
* `UpdatesAreSigned`: the row read with the head of a request still stands for its body.
* `WorkDrains`: every batch and every task of the sender ends, though posts hold the connections
  that the main thread waits for and a task holds a retweet back while it looks for a duplicate;
  so what a reset or a shutdown waits for comes about once the deliveries end. No more is claimed
  of them: that the waiter is woken is what `WokenWhenAllDropped` refutes, and nothing bounds how
  long the list goes on in `poll_shutdown`.
* `TokensCoverRouter`: the `unwrap`s of tokens are safe after any reloads and rollbacks, as long
  as the sender asks for no others, which is `TokensAtHand`.
* `AnsweredMeansDone`, `ServerIsReachable`: what `pipitor ctl` relies on.
* `CaughtInTime`: it is enough that `twitter.list.delay` covers `K + Period + Lag`, and one more
  interval for each poll that fails.
* `RateLimitObeyed`: a limit told by one poll while others are out, and between the two steps of
  the interval, still postpones the next poll. It speaks of limits told to polls: what the
  backfill is told postpones nothing, a gap in the code that no documentation denies, recorded
  among the hazards.

### Fairness

In `WebSub`, `FairSpec` asks weak fairness of the scheduler's steps (the runtime polls a woken
task, and the closure does not block) and of the clock. Nothing is asked of hubs, of
the network, of discoveries, of handlers or of operators. In `Sender`, `Fairness` asks that the
main thread goes on with its batch when it can, and that
requests to Twitter come to an end, in success or failure: while there are any, some task ends.
The runtime polls its tasks, and a connection that breaks is an error. Nothing is asked of deliveries, of the
stream or of Twitter's verdict. `ArmedIsRenewed` ends with
the renewal sent: whether the hub answers is its own affair, and the code has no retry.

## Proofs

`SubscriptionStoreProofs`: `StoreInv` (types and `StoreConsistent`) is inductive for the
four transactions. A renewing row needs a pending new and an active old end of the same
feed; the cascades remove it with either.

`WebSubProofs` proves, for any constants that satisfy the assumptions:

| Theorem | Statement |
|---|---|
| `TypeCorrect` | `Spec => []TypeOK` |
| `TablesConsistent` | `Spec => []StoreConsistent` |
| `SchedulerSurvives` | `Spec => []SchedulerDiesOnlyByCli` |
| `UnsubscriptionsConfirmed` | `Spec => []UnsubscribeConfirmed` |
| `OnlyTheOldIsRemoved` | `Spec => []OldIsReplaced` |
| `WakeupsReach` | `Spec => []NoLostWakeup` |
| `RenewedWithoutGap` | `Spec => ReplacedWithoutGap` |
| `NeverSubscribedTwice` | `Spec => []NoDuplicateSubscription` |

The inductive invariant `IInv` adds to the types what a handler may rely on
(`HandlerInv`): the renewing row it read is as it was, or the old subscription is gone
with it, or an operator has removed the new one (`GoneByCli`); once it is past the removal,
there is no renewing row at all. It holds because
ids do not come back and because the row of a new subscription disappears only with one
of its ends or when the new one is activated, which some handler does only after the
removal (`ActivatedAfterOld`). From it, what the scheduler loaded stays renewable
(`ExpiringInv`): handlers delete only subscriptions that are being renewed, and the
scheduler loads only others; an operator's command may undo that, which is why
`SchedulerDiesOnlyByCli` says what it says. `WakeInv`, that a scheduler task that lives has
its waker registered or a wake pending, carries `NoLostWakeup` through the separate minimum,
wake, registration and arming. `SentInv` keeps ids named in requests gone. The gap-free
renewal is a step lemma in two halves: `ActiveKept` for a feed covered by an active
subscription, `VerifiedKept` for one covered by a handler about to activate. The minimum
operator rests on the well-foundedness of the naturals. For duplicates, `RootsInv` counts
for each feed the subscriptions that replace no other, with the discoveries in flight: at
most one more than the reloads. A renewal adds none; where an old subscription goes, the
one that was to replace it takes its place, an injection (`DeletedRoots`); a start-up or a
reload discovers only where there is none. The active ones are among them.

The assumptions: `ClockAssumption`, `NoIdAssumption`, `NoFeedAssumption`,
`TimesAssumption`, `BoundsAssumption`, which TLC evaluates in every run. `Handlers`,
`Ids`, `Hubs` and `Topics` are arbitrary, even infinite, and so are the bounds on
crashes, commands and reloads.

`ShutdownProofs`: `ShutdownTypeCorrect` and `ShutdownWaitsForAll`, from
`count = 1 + Cardinality(Live)` and from nobody cloning a handle between the check and
the return to service. `TasksAssumption`: finitely many tasks at once.

`ListTimelineProofs`: `ListTypeCorrect`, `RateLimitsObeyed`, `BackfillCompletes` and
`NoTweetMissed` (`Spec => []CaughtInTime` where an answer holds as many tweets as there
are; in the code 200 for those the delay reaches back over). A limit that a poll was told is over, or in the handle, or has reached the timer
(`LimitInv`), and an interval that is ready has heard of none that lasts (`ReadyInv`); those
of the backfill take no part in either. A page is the newest part of what is
asked for, so whatever is wanted above its oldest tweet is in it or came before, and the
rest is what the next page asks for (`BackfillInv`); an empty page leaves nothing, as a
nonempty bounded set of naturals has a largest element. For a tweet shown and not received,
`Timely` counts the polls in flight that will bring it (`Reaching`): each is as early as
the failures and the polls before it allow, and so is the timer, unless enough are in
flight. A failure moves a poll from one count to the other. So if all of them fail the
next poll is still in time, and otherwise the earliest has been answered when
`CaughtInTime` says so. Assumptions: `TimeAssumption`,
`DelayAssumption` (the clock is later than the delay, as Unix time is) and
`SizeAssumption`.

`InstancesProofs`: `ListenersReachable`. Whoever listens is the one behind the socket, because
a bind fails while there is anything at the path, and only a listener removes it.

`LifecycleProofs`: `ImplementsShutdown` and `ImplementsInstances` show that each step of the
life cycle is a step or a stutter of its two parts, so `LifecycleWaitsForAll` and
`LifecycleReachable` follow from their theorems. `TokensAlwaysCover` and `AlwaysConsistent`
rest on `AppInv`: while the application is up, manifest, router, pool and tokens are
`Settled`; during a reload what was `saved` is settled still, because tokens only grow
until the reload is done. `AnswerComesLast` and `LifecycleTypeCorrect` have invariants of
their own. Assumptions: `LifecycleAssumption`, `DocumentsAssumption`, `TasksAssumption`,
`InstancesAssumption`. Validation matters: `Valid` is what puts a user's token behind every
outbox.

`BroadcastProofs`: `AskedOnce`, `RecordsAreOfPosts`. A pending retweet is of an accepted tweet, and a
tweet is accepted once.

`SenderProofs`: `ImplementsBroadcast`, `PromiseKept`, `UnaskedLeavesTrace`, `RecordsNeverLost`,
`TypeCorrect`, `RoutedAsTheRulesSay`, `ExcludedIsNeverPosted`, `PostsAlternateLinks`,
`TokensAreAtHand`, and for Content `HubsAreAuthentic` and `ContentTypeCorrect`. The inductive
invariant has a part for each place that state is in: `ContentInv` (what is on its way is a parsed
document), `ProcessInv`, `HandInv` (the batch in hand, and that a tweet looked up is not on
record), `PostsInv` (a connection carries one post, and an accepted one is in the history),
`RetweetsInv` (a retweet in flight was due, its tweet is on record, no two tasks carry the same),
`JobsInv` (what was due was asked for or has its row, and its tweet is on record). `PromiseKept`
states what `AskedOnce` and `RecordsAreOfPosts` promise of the sender's own state: a retweet is
asked for at most once however often list, stream and restarts hand over its tweet, and what is on
record was posted. For content, `SignedInv` carries the signature from the request to the channel.

Where things go is proved in three layers. `FlattenSeq` and the first of some options are what the
operators fold with: `Flattens` and `FirstPresentIs` say what they yield, the former by looking
at the least beginning of the sequence for which it would not hold (`UpTo`), since an induction
theorem cannot be instantiated. On them rest the lemmas about operators, for every manifest and
document: `TweetRoutes` and `EntryRoutes` (the router names a user if and only if a rule about the
topic lets the tweet or entry pass and has that user), `AtomPage` and `RssPage` (the link is one
of the pages), `DescriptionTaken` (the description is that of a content where contents are
described). The third layer is the state: `JobsInv` makes the jobs of a tweet those of the step that
recorded it, and `OutsInv` says that the outboxes left over are named by the manifest that there
is, although a reload can come between any two batches: the invariant is that it does not come
within one, and that a process that is down has none. `PostStep` then traces each post to the entry
in hand or to a post that was there. `TokensAreAtHand` adds `Valid`: whoever is named has a token that
the manifest demands, so with `TokensAlwaysCover` the sender's `unwrap`s
(`twitter_request_ext.rs:34`, `sender.rs:180`) never panic.

Assumptions: `SenderAssumption`, `ContentAssumption`, `DocumentsAssumption` (what the XML parsers
return are finite sequences) and `ManifestsAssumption` (so are rules, topics and outboxes, and the
manifest is valid). `ManifestsAreWellFormed` proves the last of whatever `ManifestOf` makes of a
document, so it excludes no manifest that the code accepts.

Only model-checked: `ArmedIsRenewed` and `WorkDrains` (liveness is out of the
prover's reach), and the violations. Every other property of the runs is a theorem.

## Findings

Six disagreements between the code and its documentation, each with a run that
TLC finds violated: a hastened tick overwritten before its subscription is active; a
renewal begun before start-up has cleaned the tables; topics dropped by a reload that
stay subscribed; a shutdown that can sleep past the last handle; a
delay that the documentation calls sufficient and that skips tweets; a crash during a
backfill that loses tweets. `PROJECT.json` gives
the lines. Another is textual: `Handle::hasten` (`scheduler.rs:113`) is documented to do
nothing "if the current next tick is after the specified time"; it does nothing if it is
before, which is what the callers need.

Three more are in the hazards. The backfill drops the rate limits it is told of
(`list_timeline.rs:180`). `discover` moves the namespaces out of an RSS channel before it
makes entries of it (`service.rs:131`), so a `media:description` counts for the filters
(`CONFIG.md:188`) only in what hubs deliver, and `ExcludedIsNotPosted` holds for Atom alone. And a relative
`database_url` is resolved against the manifest's own path, file name included
(`common.rs:75`), where the tests of `resolve_database_uri` pass a directory.

## Not modelled

* The codec of callback ids, the sanitizing of tweet texts, character ranges and the other
  helpers of `src/util.rs`: encodings of a single value, with nothing concurrent or stored.
* `twitter-list-sync`: a set difference sent to Twitter once; the interactive part of
  `twitter-login` (a login is what it leaves in the table).
* Sockets, HTTP clients, TLS, the framing over the IPC socket, Twitter's API types, the XML and
  TOML parsers: I/O or libraries.
* `setup` and `migration`: they run a library against a database nobody else has open.
* A database that fails in the middle of service, except where a batch gives up or a reset
  fails; a reload that exchanges the database under the WebSub subscriber, which keeps the
  old one.
* The deserialization of durations and credentials.
