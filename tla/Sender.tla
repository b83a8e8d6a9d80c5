------------------------------- MODULE Sender --------------------------------
(***************************************************************************)
(* The sender of pipitor (src/app/sender.rs): it tweets about the entries  *)
(* of feeds and retweets the tweets of the topics, through the outboxes    *)
(* the router names, and keeps what it has processed in the database.      *)
(*                                                                         *)
(* `App::poll` (src/app.rs) hands it one batch at a time, in the main      *)
(* task.  The requests to Twitter are made by tasks on other threads, and  *)
(* each post holds one of the pool's connections until it is over.  A step *)
(* is one statement or transaction, or what Twitter makes of a request;    *)
(* between any two of them the process may crash.                          *)
(*                                                                         *)
(* The list timeline is that of ListTimeline: here, a source of batches.   *)
(***************************************************************************)
EXTENDS Content

CONSTANTS
    Conns,         \* the connections of the pool
    Manifests,     \* those the process may be started with
    AllTweets,     \* the tweets there are
    Batches,       \* what the list may hand over, the newest first
    AllUsers,
    MaxDeliveries, MaxReloads, MaxFaults  \* bounds

ASSUME SenderAssumption ==
    /\ IsFiniteSet(Conns)
    /\ {MaxDeliveries, MaxReloads, MaxFaults} \subseteq Nat
    /\ Batches \subseteq Seq(AllTweets) /\ \A t \in AllTweets : t.id \in Nat

\* The documents that the application may get to see, and the entries in them.
Served == {Unhubbed(p.document) : p \in Published} \cup {req.body : req \in Requests}
ServedFeeds == UNION {Parse(k, d) : k \in {"Atom", "Rss", "Xml"}, d \in Served}
Entries == UNION {ToSet(f) : f \in ServedFeeds}

AtomEntriesServed == UNION {UNION {ToSet(f.entries) : f \in d.atom} : d \in Served}
RssItemsServed == UNION {UNION {ToSet(f.entries) : f \in d.rss} : d \in Served}

\* The Media RSS contents of an Atom entry, in groups or not.
Contents(entry) ==
    UNION {ToSet(m.content) \cup UNION {ToSet(g.content) : g \in ToSet(m.group)} :
               m \in {n \in ToSet(entry.extensions) : n.mrss}}

IsSequence(s) == s \in Seq(ToSet(s))

ASSUME DocumentsAssumption ==
    /\ \A d \in Served : \A f \in d.atom \cup d.rss : IsSequence(f.entries)
    /\ \A e \in AtomEntriesServed :
        /\ IsSequence(e.links) /\ IsSequence(e.extensions)
        /\ \A m \in ToSet(e.extensions) :
            /\ IsSequence(m.content) /\ IsSequence(m.group)
            /\ \A g \in ToSet(m.group) : IsSequence(g.content)
        /\ \A c \in Contents(e) : IsSequence(c.description)

\* A manifest's rules list topics, and users to post for, and it has been validated.
ASSUME ManifestsAssumption ==
    \A m \in Manifests :
        /\ IsSequence(m.rule) /\ Valid(m)
        /\ \A rule \in ToSet(m.rule) : IsSequence(rule.topics) /\ rule.outbox \in Seq(AllUsers)

VARIABLES
    main,       \* the main task: "down", "serving" or "resetting"
    manifest,   \* that of the process
    subscriber, \* `App.websub`: made once, with the manifest of the start
    list,       \* the list timeline has not ended
    todo,       \* the rest of the batch that is being sent
    outs,       \* outboxes of the entry in hand that are still to be posted to
    looked,     \* the tweet in hand has been looked up and `last_tweet` updated
    entries, tweets, ongoing, last,  \* the tables
    posts,      \* connection -> the task that posts and holds it, or {}
    showing,    \* tweets whose duplicate is being looked for
    retweets,   \* the requests of the tasks that retweet
    posted, asked, jobs, \* history: posts Twitter accepted, retweets asked for or ever due
    deliveries, reloads, faults  \* counted against the bounds

tables == <<entries, tweets, ongoing, last>>
hand == <<todo, outs, looked>>
tasks == <<posts, showing, retweets>>
history == <<posted, asked, jobs>>
counts == <<deliveries, reloads, faults>>
vars == <<contentVars, main, manifest, subscriber, list, hand, tables, tasks, history, counts>>

------------------------------------------------------------------------------
(* What the sender works with.                                               *)

EntryWork(topic, entry) == [kind |-> "entry", topic |-> topic, entry |-> entry]
TweetWork(tweet, newest) == [kind |-> "tweet", tweet |-> tweet, newest |-> newest]

FeedWork(update) == [i \in DOMAIN update.feed |-> EntryWork(update.topic, update.feed[i])]

\* `send_tweets`: the oldest first, and only the newest updates `last_tweet`.
BatchWork(batch) ==
    [i \in DOMAIN batch |-> TweetWork(Reverse(batch)[i], i = Len(batch))]

\* The row of an entry: its primary key is the topic and the id, unless that is NULL.
Row(work) == [topic |-> work.topic, id |-> work.entry.id, link |-> work.entry.link]
SameKey(r, s) == r.topic = s.topic /\ r.id = s.id /\ r.id # {}

\* An entry is on record by its id or by its link, whatever the topic of that link.
Processed(work) == \E r \in entries : SameKey(r, Row(work)) \/ r.link = work.entry.link

ReplaceInto(row) == {r \in entries : ~SameKey(r, row)} \cup {row}

\* What an entry is told apart by.
KeyOf(row) == IF row.id = {} THEN [link |-> row.link] ELSE [topic |-> row.topic, id |-> row.id]

Router == RouterOf(manifest)
Free == {c \in Conns : posts[c] = {}}

Retweet(t, n, user, phase) == [tweet |-> t, n |-> n, user |-> user, phase |-> phase]
Job(r) == [tweet |-> r.tweet, n |-> r.n, user |-> r.user]
Pending == {Job(r) : r \in {q \in retweets : q.phase \in {"held", "sent"}}}

------------------------------------------------------------------------------
(* The process.                                                              *)

Init ==
    /\ ContentInit
    /\ main = "down" /\ manifest \in Manifests /\ subscriber = FALSE /\ list = FALSE
    /\ todo = <<>> /\ outs = <<>> /\ looked = FALSE
    /\ entries = {} /\ tweets = {} /\ ongoing = {} /\ last = 0
    /\ posts = [c \in Conns |-> {}] /\ showing = {} /\ retweets = {}
    /\ posted = {} /\ asked = {} /\ jobs = {}
    /\ deliveries = 0 /\ reloads = 0 /\ faults = 0

\* `App::new`: every feed of the manifest is fetched, subscribed to or not.
Start ==
    /\ main = "down"
    /\ manifest' \in Manifests
    /\ main' = "serving"
    /\ list' = \E t \in manifest'.twitter : t.list
    /\ subscriber' = (manifest'.websub # {})
    /\ fetching' = IF subscriber' THEN FeedTopics(manifest') \cap Urls ELSE {}
    /\ UNCHANGED <<subs, made, calls, channel, hand, tables, tasks, history, counts>>

\* Faulty variant: a batch that is being sent does not hold up a reload.
Reload_amid ==
    /\ main = "serving" /\ reloads < MaxReloads
    /\ reloads' = reloads + 1
    /\ manifest' \in Manifests
    /\ list' = IF HasUpdates(manifest, manifest') THEN \E t \in manifest'.twitter : t.list ELSE list
    /\ fetching' = IF subscriber THEN fetching \cup (FeedTopics(manifest') \cap Urls) ELSE fetching
    /\ UNCHANGED <<subs, made, calls, channel, main, subscriber, hand, tables, tasks, history,
                   deliveries, faults>>

\* A reload that succeeds, as in Lifecycle: the feeds are fetched anew, and the list
\* timeline may be replaced by that of the new manifest.
Reload ==
    /\ main = "serving" /\ todo = <<>> /\ reloads < MaxReloads
    /\ reloads' = reloads + 1
    /\ manifest' \in Manifests
    /\ list' = IF HasUpdates(manifest, manifest') THEN \E t \in manifest'.twitter : t.list ELSE list
    /\ fetching' = IF subscriber THEN fetching \cup (FeedTopics(manifest') \cap Urls) ELSE fetching
    /\ UNCHANGED <<subs, made, calls, channel, main, subscriber, hand, tables, tasks, history,
                   deliveries, faults>>

\* All that is not in the tables is lost.
Down ==
    /\ main' = "down" /\ subscriber' = FALSE /\ list' = FALSE
    /\ todo' = <<>> /\ outs' = <<>> /\ looked' = FALSE
    /\ posts' = [c \in Conns |-> {}] /\ showing' = {} /\ retweets' = {}
    /\ calls' = {} /\ fetching' = {} /\ channel' = <<>>
    /\ UNCHANGED <<subs, made, manifest, tables, history, deliveries, reloads>>

Crash ==
    /\ main # "down" /\ faults < MaxFaults
    /\ faults' = faults + 1
    /\ Down

\* The database or its pool fails under the sender: `App::poll` gives up the batch, and
\* the main loop resets the application.  If that was going on already, it exits.
GiveUp ==
    /\ todo # <<>> /\ faults < MaxFaults
    /\ faults' = faults + 1
    /\ \/ /\ main = "serving"
          /\ main' = "resetting"
          /\ todo' = <<>> /\ outs' = <<>> /\ looked' = FALSE
          /\ UNCHANGED <<contentVars, manifest, subscriber, list, tables, tasks, history, deliveries, reloads>>
       \/ main = "resetting" /\ Down

\* The stream ends or fails: `poll_twitter` returns and the main loop resets.
StreamEnds ==
    /\ main = "serving" /\ todo = <<>>
    /\ \E t \in manifest.twitter : t.stream
    /\ main' = "resetting"
    /\ UNCHANGED <<contentVars, manifest, subscriber, list, hand, tables, tasks, history, counts>>

\* `App::reset` has exhausted the list timeline, which ends it, and waited for the tasks.
Reset ==
    /\ main = "resetting" /\ todo = <<>>
    /\ Free = Conns /\ showing = {} /\ retweets = {}
    /\ main' = "serving" /\ list' = FALSE
    /\ UNCHANGED <<contentVars, manifest, subscriber, hand, tables, tasks, history, counts>>

------------------------------------------------------------------------------
(* `App::poll`: what it hands to the sender.                                 *)

Deliver(work) ==
    /\ todo = <<>>
    /\ deliveries < MaxDeliveries
    /\ deliveries' = deliveries + 1
    /\ todo' = work
    /\ UNCHANGED <<subs, made, calls, fetching, main, manifest, subscriber, list, outs, looked,
                   tables, tasks, history, reloads, faults>>

\* Also `poll_shutdown`, in a reset.
PollList(batch) ==
    /\ list /\ main \in {"serving", "resetting"}
    /\ Deliver(BatchWork(batch))
    /\ UNCHANGED channel

PollWebSub ==
    /\ main = "serving" /\ channel # <<>>
    /\ channel' = Tail(channel)
    /\ Deliver(FeedWork(Head(channel)))

\* `poll_twitter`: a tweet of a topic, unless it replies to someone who is not one.
PollStream(tweet) ==
    /\ main = "serving"
    /\ \E t \in manifest.twitter : t.stream
    /\ \A user \in {tweet.user} \cup tweet.reply : HasTopic(manifest, TwitterTopic(user))
    /\ Deliver(<<TweetWork(tweet, TRUE)>>)
    /\ UNCHANGED channel

------------------------------------------------------------------------------
(* Entries: `send_entry`.                                                    *)

InHand(kind) == todo # <<>> /\ Head(todo).kind = kind

SkipEntry ==
    /\ InHand("entry") /\ outs = <<>>
    /\ LET work == Head(todo) IN
        \/ work.entry.link = {}
        \/ /\ Free # {}
           /\ Processed(work) \/ RouteEntry(Router, work.topic, work.entry) = <<>>
    /\ todo' = Tail(todo)
    /\ UNCHANGED <<contentVars, main, manifest, subscriber, list, outs, looked, tables, tasks, history, counts>>

\* Faulty variant: the posts of an entry share the connection of its lookup.
SpawnPosts_share(outboxes) ==
    /\ \E c \in Conns :
        posts' = [posts EXCEPT ![c] = @ \cup {[row |-> Row(Head(todo)), user |-> Head(outboxes),
                                              phase |-> "sent"]}]
    /\ outs' = Tail(outboxes)
    /\ todo' = IF outs' = <<>> THEN Tail(todo) ELSE todo
    /\ UNCHANGED <<contentVars, main, manifest, subscriber, list, looked, tables, showing, retweets,
                   history, counts>>

\* The posts of an entry are separate tasks, and wait for a connection each.  Which one
\* of those that are free makes no difference.
SpawnPosts(outboxes) ==
    /\ Free # {}
    /\ posts' = [posts EXCEPT ![CHOOSE c \in Free : TRUE] =
                    {[row |-> Row(Head(todo)), user |-> Head(outboxes), phase |-> "sent"]}]
    /\ outs' = Tail(outboxes)
    /\ todo' = IF outs' = <<>> THEN Tail(todo) ELSE todo
    /\ UNCHANGED <<contentVars, main, manifest, subscriber, list, looked, tables, showing, retweets,
                   history, counts>>

SendEntry ==
    /\ InHand("entry") /\ outs = <<>>
    /\ LET work == Head(todo)
           outboxes == RouteEntry(Router, work.topic, work.entry)
       IN  /\ work.entry.link # {} /\ ~Processed(work)
           /\ outboxes # <<>>
           /\ SpawnPosts(outboxes)

SendNext ==
    /\ InHand("entry") /\ outs # <<>>
    /\ SpawnPosts(outs)

\* Twitter gets a post and accepts it.
PostAccepted(c) ==
    /\ \E p \in posts[c] :
        /\ p.phase = "sent"
        /\ posts' = [posts EXCEPT ![c] = {[p EXCEPT !.phase = "accepted"]}]
        /\ posted' = posted \cup {[key |-> KeyOf(p.row), user |-> p.user]}
    /\ UNCHANGED <<contentVars, main, manifest, subscriber, list, hand, tables, showing, retweets,
                   asked, jobs, counts>>

\* Faulty variant: the entry is recorded whatever the answer.
PostRecorded_always(c) ==
    /\ \E p \in posts[c] : entries' = ReplaceInto(p.row)
    /\ posts' = [posts EXCEPT ![c] = {}]
    /\ UNCHANGED <<contentVars, main, manifest, subscriber, list, hand, tweets, ongoing, last,
                   showing, retweets, history, counts>>

\* Its answer makes the task record the entry.
PostRecorded(c) ==
    /\ \E p \in posts[c] : p.phase = "accepted" /\ entries' = ReplaceInto(p.row)
    /\ posts' = [posts EXCEPT ![c] = {}]
    /\ UNCHANGED <<contentVars, main, manifest, subscriber, list, hand, tweets, ongoing, last,
                   showing, retweets, history, counts>>

\* Faulty variant: a failed post keeps its connection.
PostFails_leaks(c) ==
    /\ posts[c] # {}
    /\ posts' = [posts EXCEPT ![c] = {[p EXCEPT !.phase = "failed"] : p \in @}]
    /\ UNCHANGED <<contentVars, main, manifest, subscriber, list, hand, tables, showing, retweets,
                   history, counts>>

\* A request or its answer is lost or says no, or the row cannot be written.
PostFails(c) ==
    /\ posts[c] # {}
    /\ posts' = [posts EXCEPT ![c] = {}]
    /\ UNCHANGED <<contentVars, main, manifest, subscriber, list, hand, tables, showing, retweets,
                   history, counts>>

------------------------------------------------------------------------------
(* Tweets: `send_tweet_` and `retweet`.                                      *)

Known(tweet) == \E t \in tweets : t.id = tweet.id

SkipTweet ==
    /\ InHand("tweet") /\ ~looked /\ Free # {}
    /\ Known(Head(todo).tweet)
    /\ todo' = Tail(todo)
    /\ UNCHANGED <<contentVars, main, manifest, subscriber, list, outs, looked, tables, tasks, history, counts>>

\* Faulty variant: a tweet on record is processed again.
LookUpTweet_anew ==
    /\ InHand("tweet") /\ ~looked /\ Free # {}
    /\ looked' = TRUE
    /\ last' = IF Head(todo).newest /\ last < Head(todo).tweet.id
               THEN Head(todo).tweet.id ELSE last
    /\ UNCHANGED <<contentVars, main, manifest, subscriber, list, todo, outs, entries, tweets, ongoing,
                   tasks, history, counts>>

\* Faulty variant: `last_tweet` follows the latest answer.
LookUpTweet_back ==
    /\ InHand("tweet") /\ ~looked /\ Free # {}
    /\ ~Known(Head(todo).tweet)
    /\ looked' = TRUE
    /\ last' = IF Head(todo).newest THEN Head(todo).tweet.id ELSE last
    /\ UNCHANGED <<contentVars, main, manifest, subscriber, list, todo, outs, entries, tweets, ongoing,
                   tasks, history, counts>>

LookUpTweet ==
    /\ InHand("tweet") /\ ~looked /\ Free # {}
    /\ ~Known(Head(todo).tweet)
    /\ looked' = TRUE
    /\ last' = IF Head(todo).newest /\ last < Head(todo).tweet.id
               THEN Head(todo).tweet.id ELSE last
    /\ UNCHANGED <<contentVars, main, manifest, subscriber, list, todo, outs, entries, tweets, ongoing,
                   tasks, history, counts>>

\* Retweets are not processed, nor, with `skip_duplicate`, tweets without an outbox.
PassOver ==
    /\ InHand("tweet") /\ looked
    /\ \/ Head(todo).tweet.retweet
       \/ manifest.skip_duplicate /\ RouteTweet(Router, Head(todo).tweet) = <<>>
    /\ todo' = Tail(todo) /\ looked' = FALSE
    /\ UNCHANGED <<contentVars, main, manifest, subscriber, list, outs, tables, tasks, history, counts>>

Duplicates(tweet) == {t \in tweets : t.user = tweet.user /\ t.text = tweet.text}

\* The transaction of `retweet`.
Recorded(tweet, outboxes) ==
    /\ tweets' = tweets \cup {tweet}
    /\ ongoing' = ongoing \cup {[tweet |-> tweet, user |-> u] : u \in ToSet(outboxes)}

\* The connection of the lookup is still held when `retweet` takes another.  With
\* `skip_duplicate`, the requests are held back while a duplicate is looked for.
SendTweet ==
    /\ InHand("tweet") /\ looked /\ Cardinality(Free) >= 2
    /\ LET tweet == Head(todo).tweet
           outboxes == RouteTweet(Router, tweet)
           duplicate == manifest.skip_duplicate /\ Duplicates(tweet) # {}
           due == {Retweet(tweet, n, outboxes[n], IF duplicate THEN "held" ELSE "sent") :
                       n \in DOMAIN outboxes}
       IN  /\ ~tweet.retweet
           /\ manifest.skip_duplicate => outboxes # <<>>
           /\ Recorded(tweet, outboxes)
           /\ retweets' = retweets \cup due
           /\ jobs' = jobs \cup {Job(r) : r \in due}
           /\ showing' = IF duplicate THEN showing \cup {tweet} ELSE showing
    /\ todo' = Tail(todo) /\ looked' = FALSE
    /\ UNCHANGED <<contentVars, main, manifest, subscriber, list, outs, entries, last, posts,
                   posted, asked, counts>>

\* Faulty variant: that future lives on, with its handle.
DuplicateShown_holds(t) ==
    /\ t \in showing
    /\ showing' = showing \ {t}
    /\ UNCHANGED <<contentVars, main, manifest, subscriber, list, hand, tables, posts, retweets,
                   history, counts>>

\* Twitter still shows the duplicate: the future that would retweet is dropped.
DuplicateShown(t) ==
    /\ t \in showing
    /\ showing' = showing \ {t}
    /\ retweets' = {r \in retweets : r.tweet # t}
    /\ UNCHANGED <<contentVars, main, manifest, subscriber, list, hand, tables, posts, history, counts>>

\* It does not, or the answer is an error.
DuplicateNotShown(t) ==
    /\ t \in showing
    /\ showing' = showing \ {t}
    /\ retweets' = {IF r.tweet = t THEN [r EXCEPT !.phase = "sent"] ELSE r : r \in retweets}
    /\ UNCHANGED <<contentVars, main, manifest, subscriber, list, hand, tables, posts, history, counts>>

\* Twitter gets the request.
RetweetAsked(r) ==
    /\ r \in retweets /\ r.phase = "sent"
    /\ retweets' = (retweets \ {r}) \cup {[r EXCEPT !.phase = "answered"]}
    /\ asked' = asked \cup {Job(r)}
    /\ UNCHANGED <<contentVars, main, manifest, subscriber, list, hand, tables, posts, showing,
                   posted, jobs, counts>>

\* Its answer deletes the row: a success, or an error of Twitter's other than "already
\* retweeted" and "no such tweet".  (The code tests `!any(is_negligible)` here.)
RetweetSettled(r) ==
    /\ r \in retweets /\ r.phase = "answered"
    /\ retweets' = retweets \ {r}
    /\ ongoing' = ongoing \ {[tweet |-> r.tweet, user |-> r.user]}
    /\ UNCHANGED <<contentVars, main, manifest, subscriber, list, hand, entries, tweets, last,
                   posts, showing, history, counts>>

\* Faulty variant: the row goes with the request, whatever became of it.
RetweetFails_forgets(r) ==
    /\ r \in retweets /\ r.phase \in {"sent", "answered"}
    /\ retweets' = retweets \ {r}
    /\ ongoing' = ongoing \ {[tweet |-> r.tweet, user |-> r.user]}
    /\ UNCHANGED <<contentVars, main, manifest, subscriber, list, hand, entries, tweets, last,
                   posts, showing, history, counts>>

\* The row stays: the request or its answer is lost, the error is one of those two, or
\* the pool has no connection for the task.
RetweetFails(r) ==
    /\ r \in retweets /\ r.phase \in {"sent", "answered"}
    /\ retweets' = retweets \ {r}
    /\ UNCHANGED <<contentVars, main, manifest, subscriber, list, hand, tables, posts, showing,
                   history, counts>>

------------------------------------------------------------------------------
(* The subscriber runs beside the application, in the same process.          *)

Subscriber ==
    /\ subscriber
    /\ ContentNext
    /\ UNCHANGED <<main, manifest, subscriber, list, hand, tables, tasks, history, counts>>

Next ==
    \/ Start \/ Reload \/ Crash \/ GiveUp \/ StreamEnds \/ Reset
    \/ \E batch \in Batches : PollList(batch)
    \/ PollWebSub
    \/ \E t \in AllTweets : PollStream(t)
    \/ SkipEntry \/ SendEntry \/ SendNext
    \/ \E c \in Conns : PostAccepted(c) \/ PostRecorded(c) \/ PostFails(c)
    \/ SkipTweet \/ LookUpTweet \/ PassOver \/ SendTweet
    \/ \E t \in showing : DuplicateShown(t) \/ DuplicateNotShown(t)
    \/ \E r \in retweets : RetweetAsked(r) \/ RetweetSettled(r) \/ RetweetFails(r)
    \/ Subscriber

Spec == Init /\ [][Next]_vars

\* The main thread goes on with its batch, and requests to Twitter come to an end: while
\* there are any, some task ends.
Send ==
    SkipEntry \/ SendEntry \/ SendNext \/ SkipTweet \/ LookUpTweet \/ PassOver \/ SendTweet

TaskEnds ==
    \/ \E c \in Conns : PostRecorded(c) \/ PostFails(c)
    \/ \E t \in showing : DuplicateShown(t) \/ DuplicateNotShown(t)
    \/ \E r \in retweets : RetweetSettled(r) \/ RetweetFails(r)

Fairness == WF_vars(Send) /\ WF_vars(TaskEnds)

FairSpec == Spec /\ Fairness

------------------------------------------------------------------------------
(* The properties.                                                           *)

TypeOK ==
    /\ main \in {"down", "serving", "resetting"}
    /\ manifest \in Manifests /\ subscriber \in BOOLEAN /\ list \in BOOLEAN /\ looked \in BOOLEAN
    /\ \A c \in Conns : Cardinality(posts[c]) <= 1
    /\ tweets \subseteq AllTweets /\ showing \subseteq AllTweets /\ last \in Nat
    /\ jobs \subseteq [tweet : AllTweets, n : Nat, user : AllUsers]
    /\ asked \subseteq jobs /\ Pending \subseteq jobs
    /\ ongoing \subseteq [tweet : AllTweets, user : AllUsers]
    /\ {deliveries, reloads, faults} \subseteq Nat

\* The sender keeps what Broadcast promises: entries at least once, retweets at most once.
Attempt(row, user) == [key |-> KeyOf(row), user |-> user]

Trying ==
    {Attempt(p.row, p.user) : p \in {q \in UNION {posts[c] : c \in Conns} : q.phase = "sent"}}
    \cup {Attempt(Row(Head(todo)), u) : u \in ToSet(outs)}

Rows == {Row(EntryWork(url, e)) : url \in Urls, e \in Entries}

Promise ==
    INSTANCE Broadcast WITH
        Keys <- {KeyOf(r) : r \in Rows}, Tweets <- AllTweets,
        trying <- Trying, recorded <- {KeyOf(r) : r \in entries},
        accepted <- tweets, pending <- Pending

BroadcastSpec == Promise!BroadcastSpec

\* A retweet that Twitter was never asked for still has its row in `ongoing_retweets`,
\* so that a crash or a failure leaves a trace of it.
UnaskedIsOngoing ==
    \A j \in jobs : j \notin asked =>
        \/ [tweet |-> j.tweet, user |-> j.user] \in ongoing
        \/ \E k \in asked : k.tweet = j.tweet /\ k.user = j.user

\* What is on record stays on record, and `last_tweet` never moves back, although list
\* and stream hand over tweets in different orders and the process may crash.
RecordsAreKept ==
    [][/\ last <= last'
       /\ tweets \subseteq tweets'
       /\ {KeyOf(r) : r \in entries} \subseteq {KeyOf(r) : r \in entries'}]_vars

\* A tweet goes to the outboxes of the rules about its author that let it pass, to all of
\* them and to no other, however the router arranges the rules.
TweetPasses(rule, tweet) ==
    /\ TwitterTopic(tweet.user) \in ToSet(rule.topics)
    /\ \A f \in rule.filter : MatchesTweet(f, tweet)
    /\ \A x \in rule.exclude : ~MatchesTweet(x, tweet)

RoutedByEveryRule ==
    [][\A t \in tweets' \ tweets : \A u \in AllUsers :
        (\E j \in jobs' : j.tweet = t /\ j.user = u)
        <=> \E rule \in ToSet(manifest.rule) :
                TweetPasses(rule, t) /\ u \in ToSet(rule.outbox)]_vars

AllPosts == UNION {posts[c] : c \in Conns}

\* What is posted about an entry is a page that somebody says it stands for, not whatever
\* else it links to: an alternate link of an Atom entry of that id, if it has one, or the
\* link or permalink of an RSS item.
AlternateHrefs(entry) == {l.href : l \in {m \in ToSet(entry.links) : m.rel = "alternate"}}
Pages(entry) ==
    IF AlternateHrefs(entry) # {} THEN AlternateHrefs(entry) ELSE {l.href : l \in ToSet(entry.links)}
ItemPages(item) == item.link \cup {g.value : g \in {h \in item.guid : h.permalink}}

PostsTheAlternateLink ==
    \A p \in AllPosts :
        /\ p.row.link # {}
        /\ \/ \E e \in AtomEntriesServed : p.row.id = {e.id} /\ p.row.link \subseteq Pages(e)
           \/ \E item \in RssItemsServed :
                /\ p.row.id = {g.value : g \in item.guid}
                /\ p.row.link \subseteq ItemPages(item)

\* A post that begins is for an outbox of a rule about its topic that lets the entry pass, by
\* the manifest of that moment.  If the entry has no summary and its media contents do have
\* descriptions, it is by these that the rule does not exclude it.
EntryPasses(rule, topic, entry) ==
    /\ FeedTopic(topic) \in ToSet(rule.topics)
    /\ \A f \in rule.filter : MatchesEntry(f, entry)
    /\ \A x \in rule.exclude : ~MatchesEntry(x, entry)

ContentDescriptions(entry) ==
    UNION {UNION {d.value : d \in ToSet(c.description)} : c \in Contents(entry)}

\* Every description of a content is one, and there is such a content.
ContentsDescribed(entry) ==
    /\ \E c \in Contents(entry) : c.description # <<>>
    /\ \A c \in Contents(entry) : \A d \in ToSet(c.description) : d.value # {}

ExcludedIsNotPosted ==
    [][\A c \in Conns : posts[c] = {} => \A p \in posts'[c] :
        \E rule \in ToSet(manifest.rule) :
            /\ p.user \in ToSet(rule.outbox)
            /\ EntryPasses(rule, p.row.topic, Head(todo).entry)
            /\ \A e \in AtomEntriesServed :
                Head(todo).entry = FromAtom(e) /\ e.summary = {} /\ ContentsDescribed(e)
                => \A x \in rule.exclude : \A text \in x.text : ~(ContentDescriptions(e) \subseteq text)]_vars

\* The sender takes the token of each user that it posts or retweets for, and that of its own
\* account to look for a duplicate, and panics without one.  It does so only for those whose
\* tokens the manifest of that moment demands: that these are there is TokensCoverRouter.
TokensAtHand ==
    [][LET Demanded == IF manifest.twitter = {} THEN {} ELSE TokenUsers(manifest)
       IN  /\ \A c \in Conns : posts[c] = {} => {p.user : p \in posts'[c]} \subseteq Demanded
           /\ {j.user : j \in jobs' \ jobs} \subseteq Demanded
           /\ Demanded = {} => showing' \subseteq showing]_vars

Quiet == todo = <<>> /\ Free = Conns /\ showing = {} /\ retweets = {}

\* No batch and no task goes on for ever: although posts hold the connections that the main
\* thread waits for, and retweets are held back, all work ends once the deliveries do
\* (MaxDeliveries).  What `App::shutdown` waits for comes about then, in a reset in
\* particular; that the waiter is woken is another matter (WokenWhenAllDropped), and so is
\* whether the list stops handing over batches.
WorkDrains == main # "down" ~> Quiet \/ main = "down"

==============================================================================
