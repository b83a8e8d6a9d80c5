------------------------------ MODULE Broadcast ------------------------------
(***************************************************************************)
(* What the sender of pipitor promises (the abstract side of Sender), in   *)
(* spite of crashes, lost requests and repeated deliveries:                *)
(*   - an entry of a feed may be tried again and again until a tweet about *)
(*     it that Twitter accepted is on record, and never after that;        *)
(*   - a tweet is on record before any of its retweets is asked for, and   *)
(*     each of them is asked for at most once.                             *)
(***************************************************************************)
CONSTANTS
    Keys,      \* what tells entries apart
    Tweets

VARIABLES
    trying,    \* tweets about entries on their way to Twitter: [key, user]
    posted,    \* those Twitter ever accepted
    recorded,  \* the entries on record
    accepted,  \* the tweets on record
    pending,   \* retweets not yet asked for: [tweet, n, user]
    asked      \* retweets Twitter was ever asked for

entryVars == <<trying, posted, recorded>>
tweetVars == <<accepted, pending, asked>>
broadcastVars == <<entryVars, tweetVars>>

BroadcastTypeOK ==
    /\ \A a \in trying \cup posted : a.key \in Keys
    /\ recorded \subseteq Keys /\ accepted \subseteq Tweets
    /\ \A r \in pending \cup asked : r.tweet \in Tweets

BroadcastInit ==
    /\ trying = {} /\ posted = {} /\ recorded = {}
    /\ accepted = {} /\ pending = {} /\ asked = {}

\* An entry is tried at all of its outboxes, if it is not on record.
Try(k) ==
    /\ k \notin recorded
    /\ trying \subseteq trying'
    /\ \A a \in trying' \ trying : a.key = k
    /\ UNCHANGED <<posted, recorded, tweetVars>>

Post(a) ==
    /\ a \in trying
    /\ trying' \in {trying, trying \ {a}}  \* the same may be tried twice at a time
    /\ posted' = posted \cup {a}
    /\ UNCHANGED <<recorded, tweetVars>>

Record(k) ==
    /\ \E a \in posted : a.key = k
    /\ recorded' = recorded \cup {k}
    /\ UNCHANGED <<trying, posted, tweetVars>>

Accept(t) ==
    /\ t \notin accepted
    /\ accepted' = accepted \cup {t}
    /\ pending \subseteq pending'
    /\ \A r \in pending' \ pending : r.tweet = t
    /\ UNCHANGED <<entryVars, asked>>

Ask(r) ==
    /\ r \in pending
    /\ pending' = pending \ {r}
    /\ asked' = asked \cup {r}
    /\ UNCHANGED <<entryVars, accepted>>

\* A request is lost or given up, or all that was in flight is lost in a crash.
Lose ==
    /\ trying' \subseteq trying /\ pending' \subseteq pending
    /\ UNCHANGED <<posted, recorded, accepted, asked>>

BroadcastNext ==
    \/ \E k \in Keys : Try(k) \/ Record(k)
    \/ \E a \in trying : Post(a)
    \/ \E t \in Tweets : Accept(t)
    \/ \E r \in pending : Ask(r)
    \/ Lose

BroadcastSpec == BroadcastInit /\ [][BroadcastNext]_broadcastVars

------------------------------------------------------------------------------

\* Nothing that Twitter was asked for waits to be asked for again: no tweet is retweeted
\* to an outbox twice.
AskedAtMostOnce == pending \cap asked = {}

\* An entry on record was tweeted by at least one outbox.
RecordedWasPosted == \A k \in recorded : \E a \in posted : a.key = k

==============================================================================
