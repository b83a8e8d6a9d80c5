----------------------------- MODULE ListTimeline ----------------------------
(***************************************************************************)
(* The list timeline of pipitor (src/twitter/list_timeline.rs and          *)
(* .../interval.rs), with the part of the sender that records the tweets   *)
(* it hands over (src/app/sender.rs) and the row `last_tweet` from which a *)
(* later process continues (src/app/core.rs).                              *)
(*                                                                         *)
(* A tweet's id is its Snowflake, that is the time it was posted; the list *)
(* shows it up to `K` later, so ids need not appear in order.  The process *)
(* polls the list from `since` on, and at its start pages back to the last *)
(* tweet of the process before it (the backfill).                          *)
(*                                                                         *)
(* Time is discrete, and passes only as far as the timing assumptions let  *)
(* it: a due timer is polled within `Lag`, a request is answered within    *)
(* `Latency`.                                                              *)
(***************************************************************************)
EXTENDS Integers, FiniteSets, Sequences

CONSTANTS
    StartTime, EndTime, \* the times considered
    Tweets,             \* the ids posted, besides 0 for none
    K,                  \* by how much the list may show a tweet late
    Period,             \* `twitter.list.interval`
    Delay,              \* `twitter.list.delay`
    Lag, Latency,
    PollCount,          \* tweets in an answer to a poll (200 in the code)
    PageSize,           \* tweets in a page of the backfill (200 in the code)
    Limits,             \* the times until which a rate limit may last
    MaxFailures,        \* failed requests and exhausted limits per process
    MaxStarts, MaxCrashes

Times == StartTime .. EndTime
Never == EndTime + 1

ASSUME TimeAssumption ==
    /\ StartTime \in Nat /\ EndTime \in Nat /\ StartTime <= EndTime
    /\ Tweets \subseteq Times
    /\ Limits \subseteq Nat

ASSUME DelayAssumption == Delay \in Nat /\ Delay < StartTime

ASSUME SizeAssumption ==
    /\ K \in Nat /\ Period \in Nat \ {0} /\ Lag \in Nat /\ Latency \in Nat
    /\ PollCount \in Nat \ {0} /\ PageSize \in Nat \ {0}
    /\ MaxFailures \in Nat /\ MaxStarts \in Nat /\ MaxCrashes \in Nat

VARIABLES
    now,        \* the clock
    at,         \* when the list shows each tweet
    state,      \* of the process: "down", "up" or "stopping"
    since,      \* `RequestSender::since_id`
    deadline,   \* the deadline of the interval's timer
    interval,   \* of its task: "asleep", or "ready" when it is about to send a poll
    limit,      \* `Handle::next_tick`, 0 if none
    requests,   \* the polls in flight
    backfill,   \* the page of the backfill in flight, or NoBackfill
    queue,      \* the channel from the timeline to the application
    last,       \* the row of `last_tweet`
    seen,       \* the rows of `tweets`
    failures, starts, crashes, \* counted against the bounds
    \* History, read by the properties only:
    from,       \* when the process first knew a tweet to poll from
    told,       \* the rate limits the process was told of, and by what
    heard,      \* those of them told before the interval last took its limit
    stoppedAt,  \* when the last process ended
    wanted,     \* what the backfill of this process is to bring
    suspended   \* the tweets posted while no process was up, that a start found to backfill

timeline == <<since, deadline, interval, limit, requests, backfill>>
database == <<last, seen>>
history == <<from, told, heard, stoppedAt, wanted, suspended>>
bounds == <<failures, starts, crashes>>
vars == <<now, at, state, timeline, queue, database, bounds, history>>

Max2(a, b) == IF a < b THEN b ELSE a
Min2(a, b) == IF a < b THEN a ELSE b

\* The n largest elements of S: how the API truncates an answer.
Newest(S, n) == {x \in S : Cardinality({y \in S : x < y}) < n}

Visible(t) == {id \in Tweets : at[id] <= t}

NoBackfill == [since |-> 0, max |-> 0, sent |-> 0]
Received == seen \cup UNION {queue[i] : i \in DOMAIN queue}

Init ==
    /\ now = StartTime
    /\ at \in [Tweets -> Times \cup {Never}]
    /\ \A id \in Tweets : at[id] \in (id .. id + K) \cup {Never}
    /\ state = "down"
    /\ since = 0 /\ deadline = 0 /\ interval = "asleep" /\ limit = 0
    /\ requests = {} /\ backfill = NoBackfill /\ queue = <<>>
    /\ last = 0 /\ seen = {}
    /\ failures = 0 /\ starts = 0 /\ crashes = 0
    /\ from = Never /\ told = {} /\ heard = {}
    /\ stoppedAt = Never /\ wanted = {} /\ suspended = {}

\* The end of a process: what it kept in memory is gone.
Ends ==
    /\ state' = "down"
    /\ since' = 0 /\ deadline' = 0 /\ interval' = "asleep" /\ limit' = 0
    /\ requests' = {} /\ backfill' = NoBackfill /\ queue' = <<>>
    /\ failures' = 0 /\ from' = Never /\ told' = {} /\ heard' = {}
    /\ stoppedAt' = now
    /\ UNCHANGED <<now, at, starts, suspended>>

------------------------------------------------------------------------------
(* Start.                                                                    *)

\* The last tweet is passed on if there is one.
HasLast == last > 0

\* Faulty variant: the row 0 of a new database passes for a tweet.
Start_from_zero ==
    /\ state = "down" /\ starts < MaxStarts
    /\ state' = "up" /\ starts' = starts + 1
    /\ deadline' = now
    /\ backfill' = [since |-> last, max |-> EndTime, sent |-> now]
    /\ wanted' = {id \in Visible(now) : id > last}
    /\ suspended' = suspended \cup {id \in wanted' : id > stoppedAt}
    /\ stoppedAt' = Never
    /\ UNCHANGED <<now, at, since, interval, limit, requests, queue, database, failures,
                   crashes, from, told, heard>>

\* `Core::init_twitter_list` reads the row of the last tweet and `ListTimeline::new` asks
\* for the first page of the backfill and starts the interval, due at once.
Start ==
    /\ state = "down" /\ starts < MaxStarts
    /\ state' = "up" /\ starts' = starts + 1
    /\ deadline' = now
    /\ backfill' = IF HasLast THEN [since |-> last, max |-> EndTime, sent |-> now]
                              ELSE NoBackfill
    /\ wanted' = IF HasLast THEN {id \in Visible(now) : id > last} ELSE {}
    /\ suspended' = suspended \cup {id \in wanted' : id > stoppedAt}
    /\ stoppedAt' = Never
    /\ UNCHANGED <<now, at, since, interval, limit, requests, queue, database, failures,
                   crashes, from, told, heard>>

------------------------------------------------------------------------------
(* The interval and its requests.                                            *)

\* The interval's task ends once nobody holds the sender: the timeline, a request, the
\* backfill, or that task itself while it polls.
IntervalAlive ==
    \/ state = "up"
    \/ state = "stopping" /\ (requests # {} \/ backfill # NoBackfill \/ interval = "ready")

\* Faulty variant: the delay is left out.
SinceParam_without_delay == since

\* The parameters of a poll: without a tweet to poll from, it asks for the newest only.
SinceParam == IF since = 0 THEN 0 ELSE Min2(since, now - Delay)

\* `RequestSender::send`.
send == [sent |-> now, since |-> SinceParam]
Count(r) == IF r.since = 0 THEN 1 ELSE PollCount

\* Faulty variant: the rate limit is taken from the handle after the timer was polled.
IntervalPoll_limit_late ==
    /\ IntervalAlive /\ interval = "asleep" /\ deadline <= now
    /\ interval' = "ready"
    /\ heard' = told
    /\ UNCHANGED <<now, at, state, since, deadline, limit, requests, backfill, queue,
                   database, bounds, from, told, stoppedAt, wanted, suspended>>

\* The timer elapses.  `Interval::poll_next` takes the rate limit from the handle; if that
\* does not postpone the deadline, a poll is due.
IntervalPoll ==
    /\ IntervalAlive /\ interval = "asleep" /\ deadline <= now
    /\ limit' = 0
    /\ deadline' = Max2(deadline, limit)
    /\ IF deadline' <= now THEN interval' = "ready" /\ heard' = told
                           ELSE UNCHANGED <<interval, heard>>
    /\ UNCHANGED <<now, at, state, since, requests, backfill, queue, database, bounds,
                   from, told, stoppedAt, wanted, suspended>>

\* Then the timer is set again and `RequestSender::send` polls; `for_each` polls the
\* interval once more, which takes what rate limit has come in between.
IntervalFire ==
    /\ interval = "ready"
    /\ interval' = "asleep"
    /\ requests' = requests \cup {send}
    /\ deadline' = Max2(Max2(deadline + Period, now), limit)
    /\ limit' = 0
    /\ heard' = {}
    /\ UNCHANGED <<now, at, state, since, backfill, queue, database, bounds,
                   from, told, stoppedAt, wanted, suspended>>

\* `RequestSender::set_since_id`.
set_since_id(id) ==
    /\ since' = Max2(since, id)
    /\ from' = IF since = 0 THEN now ELSE from

\* An answer or an error carries an exhausted rate limit.
Told(l, by) ==
    /\ failures < MaxFailures
    /\ failures' = failures + 1
    /\ told' = told \cup {[until |-> l, by |-> by]}

\* If it is that of a poll, `Handle::delay` notes it.
RateLimit(l) == Told(l, "poll") /\ limit' = Max2(limit, l)

NoRateLimit == UNCHANGED <<failures, limit, told>>

\* A poll is answered with what the list showed at some time t since it was sent.
Arrive(r, t) ==
    LET tweets == Newest({id \in Visible(t) : id > r.since}, Count(r)) IN
    /\ t \in r.sent .. now
    /\ requests' = requests \ {r}
    /\ \/ /\ tweets = {}
          /\ UNCHANGED <<queue, since, from>>
       \/ \E id \in Newest(tweets, 1) :
            /\ queue' = Append(queue, tweets)
            /\ set_since_id(id)
    /\ NoRateLimit \/ \E l \in Limits : l > now /\ RateLimit(l)
    /\ UNCHANGED <<now, at, state, deadline, interval, backfill, database, starts, crashes,
                   heard, stoppedAt, wanted, suspended>>

\* A poll fails. The next one is its retry.
Fail(r) ==
    /\ requests' = requests \ {r}
    /\ \/ /\ failures < MaxFailures
          /\ failures' = failures + 1
          /\ UNCHANGED <<limit, told>>
       \/ \E l \in Limits : l > now /\ RateLimit(l)
    /\ UNCHANGED <<now, at, state, since, deadline, interval, backfill, queue, database,
                   starts, crashes, from, heard, stoppedAt, wanted, suspended>>

------------------------------------------------------------------------------
(* The backfill.  It drops the rate limit that an answer or an error carries: *)
(* the interval is not told, and the next page is asked for at once.         *)

DroppedLimit == \E l \in Limits : l > now /\ Told(l, "backfill")

\* `Backfill::poll`: an empty page ends it; otherwise the next page is asked for, and
\* this one goes to the application.
BackfillArrive(t) ==
    LET page == Newest({id \in Visible(t) : id > backfill.since /\ id <= backfill.max},
                       PageSize) IN
    /\ backfill # NoBackfill /\ t \in backfill.sent .. now
    /\ \/ /\ page = {}
          /\ backfill' = NoBackfill
          /\ UNCHANGED <<queue, since, from>>
       \/ \E first \in page, oldest \in page :
            /\ \A id \in page : oldest <= id /\ id <= first
            /\ set_since_id(first)
            /\ backfill' = [backfill EXCEPT !.max = oldest - 1, !.sent = now]
            /\ queue' = Append(queue, page)
    /\ UNCHANGED <<failures, told>> \/ DroppedLimit
    /\ UNCHANGED <<now, at, state, deadline, interval, limit, requests, database, starts,
                   crashes, heard, stoppedAt, wanted, suspended>>

\* "Just discard the backfill."
BackfillFail ==
    /\ backfill # NoBackfill
    /\ \/ failures < MaxFailures /\ failures' = failures + 1 /\ UNCHANGED told
       \/ DroppedLimit
    /\ backfill' = NoBackfill
    /\ wanted' = {}
    /\ UNCHANGED <<now, at, state, since, deadline, interval, limit, requests, queue,
                   database, starts, crashes, from, heard, stoppedAt, suspended>>

------------------------------------------------------------------------------
(* The application takes a batch from the channel, `Sender::send_tweets`: from the oldest *)
(* tweet to the newest, each is skipped if its row exists; the newest moves the last      *)
(* tweet; then the row is written.                                                        *)

MovesLast(batch, id) == id \in Newest(batch, 1) /\ id \notin seen

Deliver ==
    /\ state \in {"up", "stopping"} /\ queue # <<>>
    /\ \E id \in Newest(Head(queue), 1) :
        last' = IF MovesLast(Head(queue), id) THEN Max2(last, id) ELSE last
    /\ seen' = seen \cup Head(queue)
    /\ queue' = Tail(queue)
    /\ UNCHANGED <<now, at, state, timeline, bounds, history>>

\* The process ends while it sends tweet id of a batch: before the last tweet is moved,
\* or between that and the row.
CutDelivery ==
    /\ queue # <<>>
    /\ \E id \in Head(queue) :
        /\ seen' = seen \cup {x \in Head(queue) : x < id}
        /\ \/ UNCHANGED last
           \/ MovesLast(Head(queue), id) /\ last' = Max2(last, id)

------------------------------------------------------------------------------
(* The end of the process.                                                   *)

\* `ListTimeline::shutdown` drops its sender; `App::poll_shutdown` then exhausts the
\* channel, which ends when nothing holds the sender any more.
Shutdown ==
    /\ state = "up"
    /\ state' = "stopping"
    /\ UNCHANGED <<now, at, timeline, queue, database, bounds, history>>

\* Faulty variant: the backfill is not exhausted.
Stopped_early ==
    /\ state = "stopping"
    /\ requests = {} /\ interval = "asleep" /\ queue = <<>>
    /\ Ends
    /\ UNCHANGED <<database, crashes, wanted>>

Stopped ==
    /\ state = "stopping"
    /\ requests = {} /\ backfill = NoBackfill /\ interval = "asleep" /\ queue = <<>>
    /\ Ends
    /\ UNCHANGED <<database, crashes, wanted>>

Crash ==
    /\ state # "down" /\ crashes < MaxCrashes
    /\ crashes' = crashes + 1
    /\ UNCHANGED database \/ CutDelivery
    /\ Ends
    /\ wanted' = {}

------------------------------------------------------------------------------
(* Time passes, but not past a timer or a request that is due.               *)

ClockTick ==
    /\ now < EndTime
    /\ IntervalAlive => now < deadline + Lag
    /\ \A r \in requests : now < r.sent + Latency
    /\ backfill # NoBackfill => now < backfill.sent + Latency
    /\ now' = now + 1
    /\ UNCHANGED <<at, state, timeline, queue, database, bounds, history>>

Next ==
    \/ Start \/ IntervalPoll \/ IntervalFire
    \/ \E r \in requests : Fail(r) \/ \E t \in Times : Arrive(r, t)
    \/ \E t \in Times : BackfillArrive(t)
    \/ BackfillFail
    \/ Deliver \/ Shutdown \/ Stopped \/ Crash
    \/ ClockTick

Spec == Init /\ [][Next]_vars

------------------------------------------------------------------------------
(* Properties.                                                               *)

TypeOK ==
    /\ now \in Times
    /\ at \in [Tweets -> Times \cup {Never}]
    /\ state \in {"down", "up", "stopping"}
    /\ since \in Tweets \cup {0} /\ last \in Tweets \cup {0}
    /\ deadline \in Nat /\ interval \in {"asleep", "ready"} /\ limit \in Limits \cup {0}
    /\ requests \subseteq [sent : Times, since : Nat]
    /\ backfill \in [since : Tweets, max : Nat, sent : Times] \cup {NoBackfill}
    /\ queue \in Seq(SUBSET Tweets) /\ seen \subseteq Tweets
    /\ failures \in 0 .. MaxFailures /\ starts \in 0 .. MaxStarts
    /\ crashes \in 0 .. MaxCrashes
    /\ from \in Times \cup {Never} /\ stoppedAt \in Times \cup {Never}
    /\ told \subseteq [until : Limits, by : {"poll", "backfill"}] /\ heard \subseteq told
    /\ wanted \subseteq Tweets /\ suspended \subseteq Tweets

\* A backfill that has come to its end, or whose process ended in order, has brought every
\* tweet newer than the last one of the process before that the list showed at the start:
\* no page boundary, poll in between or shutdown loses one.
BackfillComplete == backfill = NoBackfill => wanted \subseteq Received

\* No poll is sent before a rate limit is over that the answer or the error of a poll told
\* before the interval last took its limit, whichever of the polls in flight it was,
\* however many there were and wherever the timer stood.  A limit told to the backfill is
\* dropped: polls and pages go on into it.
RateLimitObeyed ==
    [][requests' \subseteq requests
         \/ \A l \in heard : l.until <= now \/ l.by = "backfill"]_vars

\* The time by which the first poll that a tweet shown at time t can answer has come back,
\* when as many polls as have failed failed in between.
AnsweredBy(t) == t + (failures + 1) * (Period + Lag) + Latency

\* No rate limit keeps the process from polling.
Unlimited == \A l \in told : l.by = "backfill"

Caught ==
    state = "up" /\ Unlimited =>
        \A id \in Tweets :
            at[id] > from /\ now > AnsweredBy(at[id]) => id \in Received

\* Once the process has a tweet to poll from, no tweet is missed, though ids appear out
\* of order, requests overlap and some of them fail: provided that the delay covers the
\* disorder, the interval and the failed polls.
CaughtInTime == Delay > K + (failures + 1) * (Period + Lag) => Caught

\* CONFIG.md, `twitter.list.delay`: a delay of the K by which ids are sorted suffices.
DocumentedDelaySuffices == Delay >= K /\ failures = 0 => Caught

\* README.md: when the bot is suspended, it retrieves the tweets posted meanwhile on a
\* later restart.
SuspensionIsBackfilled ==
    state = "up" /\ backfill = NoBackfill /\ failures = 0 => suspended \subseteq Received

==============================================================================
