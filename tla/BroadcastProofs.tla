--------------------------- MODULE BroadcastProofs ---------------------------
(***************************************************************************)
(* What the promise of Broadcast amounts to, for any entries and tweets.   *)
(*                                                                         *)
(* A retweet, whether still to be asked for or not, is of a tweet on       *)
(* record (OfAccepted); so a tweet that gets on record brings no retweet   *)
(* that was ever asked for.                                                *)
(***************************************************************************)
EXTENDS Broadcast, TLAPS

OfAccepted == \A r \in pending \cup asked : r.tweet \in accepted

BroadcastIInv == BroadcastTypeOK /\ OfAccepted /\ AskedAtMostOnce /\ RecordedWasPosted

LEMMA BroadcastInitInv == BroadcastInit => BroadcastIInv
BY DEF BroadcastInit, BroadcastIInv, BroadcastTypeOK, OfAccepted, AskedAtMostOnce,
       RecordedWasPosted

LEMMA BroadcastStepInv == BroadcastIInv /\ [BroadcastNext]_broadcastVars => BroadcastIInv'
<1> SUFFICES ASSUME BroadcastIInv, [BroadcastNext]_broadcastVars PROVE BroadcastIInv'
  OBVIOUS
<1> USE DEF BroadcastIInv, BroadcastTypeOK, OfAccepted, AskedAtMostOnce, RecordedWasPosted,
            entryVars, tweetVars
<1>1. ASSUME NEW k \in Keys, Try(k) PROVE BroadcastIInv'
  BY <1>1 DEF Try
<1>2. ASSUME NEW k \in Keys, Record(k) PROVE BroadcastIInv'
  BY <1>2 DEF Record
<1>3. ASSUME NEW a \in trying, Post(a) PROVE BroadcastIInv'
  BY <1>3 DEF Post
<1>4. ASSUME NEW t \in Tweets, Accept(t) PROVE BroadcastIInv'
  BY <1>4 DEF Accept
<1>5. ASSUME NEW r \in pending, Ask(r) PROVE BroadcastIInv'
  BY <1>5 DEF Ask
<1>6. CASE Lose
  BY <1>6 DEF Lose
<1>7. CASE UNCHANGED broadcastVars
  BY <1>7 DEF broadcastVars
<1> QED BY <1>1, <1>2, <1>3, <1>4, <1>5, <1>6, <1>7 DEF BroadcastNext

LEMMA BroadcastInvariant == BroadcastSpec => []BroadcastIInv
BY BroadcastInitInv, BroadcastStepInv, PTL DEF BroadcastSpec

\* No tweet is retweeted to an outbox twice.
THEOREM AskedOnce == BroadcastSpec => []AskedAtMostOnce
<1>1. BroadcastIInv => AskedAtMostOnce
  BY DEF BroadcastIInv
<1> QED BY <1>1, BroadcastInvariant, PTL

\* No entry counts as processed that Twitter never accepted a tweet about.
THEOREM RecordsAreOfPosts == BroadcastSpec => []RecordedWasPosted
<1>1. BroadcastIInv => RecordedWasPosted
  BY DEF BroadcastIInv
<1> QED BY <1>1, BroadcastInvariant, PTL

==============================================================================
