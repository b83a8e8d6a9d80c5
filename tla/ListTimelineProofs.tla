------------------------- MODULE ListTimelineProofs --------------------------
(***************************************************************************)
(* ListTimeline keeps its types, brings in every tweet its backfill is to  *)
(* bring, misses none later and obeys rate limits, for any tweets, delays  *)
(* of the list, page sizes, timings and numbers of restarts, crashes and   *)
(* failures.                                                               *)
(*                                                                         *)
(* The argument for the backfill: a page is the newest part of what is     *)
(* asked for (NewestUp), so what is wanted above the oldest tweet of a     *)
(* page is in that page or in one before it, and the next page is asked    *)
(* for from there (BackfillInv).  An empty page means that nothing is left *)
(* (NewestEmpty).                                                          *)
(*                                                                         *)
(* The argument for the polls: of those sent since a tweet was shown, each *)
(* is in flight or has failed; counted together they are as early as the   *)
(* interval allows (Timely), so one of them asks from before the tweet.    *)
(***************************************************************************)
EXTENDS ListTimeline, FiniteSetTheorems, SequenceTheorems, WellFoundedInduction, TLAPS

------------------------------------------------------------------------------
(* Newest.                                                                   *)

LEMMA MinNat ==
  ASSUME NEW S \in SUBSET Nat, S # {}
  PROVE  \E x \in S : \A y \in S : x <= y
<1> DEFINE R == OpToRel(<, Nat)
<1>1. IsWellFoundedOn(R, Nat)
  BY NatLessThanWellFounded
<1>2. \A x, y \in Nat : ~(<<y, x>> \in R) => x <= y
  <2>1. \A x, y \in Nat : y < x => <<y, x>> \in R
    BY Zenon DEF OpToRel
  <2>2. \A x, y \in Nat : ~(y < x) => x <= y
    OBVIOUS
  <2> QED BY <2>1, <2>2, Zenon
<1> HIDE DEF R
<1>3. \E x \in S : \A y \in S : ~(<<y, x>> \in R)
  BY <1>1, WFMin, Zenon
<1> QED BY <1>2, <1>3, Zenon

LEMMA MaxNat ==
  ASSUME NEW S \in SUBSET Nat, S # {}, NEW b \in Nat, \A x \in S : x <= b
  PROVE  \E x \in S : \A y \in S : y <= x
<1> DEFINE T == {b - x : x \in S}
<1>1. T \in SUBSET Nat /\ T # {}
  <2>1. \A x \in S : b - x \in Nat
    OBVIOUS
  <2> QED BY <2>1
<1>2. PICK m \in T : \A y \in T : m <= y
  BY <1>1, MinNat
<1>3. PICK x \in S : m = b - x
  OBVIOUS
<1>4. \A y \in S : y <= x
  BY <1>2, <1>3
<1> QED BY <1>4

LEMMA TweetsNat == Tweets \subseteq Nat /\ \A S \in SUBSET Tweets : IsFiniteSet(S)
<1>1. Tweets \subseteq Nat
  BY TimeAssumption DEF Times
<1>2. IsFiniteSet(Times)
  BY TimeAssumption, FS_Interval DEF Times
<1> QED BY <1>1, <1>2, TimeAssumption, FS_Subset

\* Whatever is newer than one of the newest is one of the newest.
LEMMA NewestUp ==
  ASSUME NEW S \in SUBSET Tweets, NEW n \in Nat,
         NEW m \in Newest(S, n), NEW x \in S, m <= x
  PROVE  x \in Newest(S, n)
<1> DEFINE A == {y \in S : m < y}
           B == {y \in S : x < y}
<1>1. B \subseteq A
  <2>1. m \in Nat /\ x \in Nat /\ \A y \in S : y \in Nat
    BY TweetsNat DEF Newest
  <2>2. \A y \in S : x < y => m < y
    BY <2>1
  <2> QED BY <2>2
<1>2. IsFiniteSet(A) /\ IsFiniteSet(B)
  BY TweetsNat
<1>3. Cardinality(B) <= Cardinality(A) /\ Cardinality(A) \in Nat /\ Cardinality(B) \in Nat
  BY <1>1, <1>2, FS_Subset, FS_CardinalityType
<1>4. Cardinality(A) < n
  BY DEF Newest
<1> HIDE DEF A, B
<1>5. Cardinality(B) < n
  BY <1>3, <1>4
<1> QED BY <1>5 DEF Newest, B

\* Only an empty set has no newest element.
LEMMA NewestEmpty ==
  ASSUME NEW S \in SUBSET Tweets, NEW n \in Nat \ {0}, Newest(S, n) = {}
  PROVE  S = {}
<1> SUFFICES ASSUME S # {} PROVE FALSE
  OBVIOUS
<1>1. \A y \in S : y \in Nat /\ y <= EndTime
  BY TimeAssumption DEF Times
<1>2. PICK x \in S : \A y \in S : y <= x
  BY <1>1, MaxNat, TimeAssumption
<1>3. {y \in S : x < y} = {}
  BY <1>1, <1>2
<1>4. Cardinality({y \in S : x < y}) < n
  BY <1>3, FS_EmptySet
<1> QED BY <1>4 DEF Newest

LEMMA NewestSubset ==
  ASSUME NEW S, NEW n
  PROVE  Newest(S, n) \subseteq S
BY DEF Newest

------------------------------------------------------------------------------
(* What the process has received.                                            *)

LEMMA ReceivedAppend ==
  ASSUME queue \in Seq(SUBSET Tweets), NEW b \in SUBSET Tweets,
         queue' = Append(queue, b), UNCHANGED seen
  PROVE  Received' = Received \cup b
<1>1. /\ DOMAIN queue' = 1 .. Len(queue) + 1 /\ DOMAIN queue = 1 .. Len(queue)
      /\ \A i \in 1 .. Len(queue) : queue'[i] = queue[i]
      /\ queue'[Len(queue) + 1] = b
      /\ Len(queue) \in Nat
  BY AppendProperties
<1> DEFINE Q == UNION {queue[i] : i \in DOMAIN queue}
<1>2. Q' = Q \cup b
  <2>1. \A x \in Q' : x \in Q \cup b
    <3> SUFFICES ASSUME NEW i \in DOMAIN queue', NEW x \in queue'[i] PROVE x \in Q \cup b
      OBVIOUS
    <3>1. i \in 1 .. Len(queue) \/ i = Len(queue) + 1
      BY <1>1
    <3> QED BY <1>1, <3>1
  <2>2. \A x \in Q \cup b : x \in Q'
    <3>1. \A x \in b : x \in Q'
      <4>1. Len(queue) + 1 \in DOMAIN queue'
        BY <1>1
      <4> QED BY <1>1, <4>1
    <3>2. ASSUME NEW i \in DOMAIN queue, NEW x \in queue[i] PROVE x \in Q'
      <4>1. i \in DOMAIN queue' /\ queue'[i] = queue[i]
        BY <1>1
      <4> QED BY <4>1
    <3> QED BY <3>1, <3>2
  <2> QED BY <2>1, <2>2
<1> QED BY <1>2 DEF Received

LEMMA ReceivedDeliver ==
  ASSUME queue \in Seq(SUBSET Tweets), queue # <<>>,
         queue' = Tail(queue), seen' = seen \cup Head(queue)
  PROVE  Received \subseteq Received'
<1>1. /\ Len(queue') = Len(queue) - 1 /\ queue' \in Seq(SUBSET Tweets)
      /\ \A i \in 1 .. Len(queue') : queue'[i] = queue[i + 1]
      /\ Head(queue) = queue[1]
  BY HeadTailProperties
<1>2. DOMAIN queue' = 1 .. Len(queue) - 1 /\ DOMAIN queue = 1 .. Len(queue) /\ Len(queue) \in Nat
  BY <1>1
<1>3. ASSUME NEW i \in DOMAIN queue, NEW x \in queue[i] PROVE x \in Received'
  <2>1. CASE i = 1
    BY <1>1, <1>3, <2>1 DEF Received
  <2>2. CASE i # 1
    <3>1. i - 1 \in DOMAIN queue' /\ queue'[i - 1] = queue[i]
      BY <1>1, <1>2, <2>2
    <3> QED BY <1>3, <3>1 DEF Received
  <2> QED BY <2>1, <2>2
<1>4. \A x \in seen : x \in Received'
  BY DEF Received
<1> QED BY <1>3, <1>4 DEF Received

------------------------------------------------------------------------------
(* Types.                                                                    *)

LEMMA MaxMin ==
  ASSUME NEW S \in SUBSET Int, NEW a \in S, NEW b \in S
  PROVE  Max2(a, b) \in S /\ Min2(a, b) \in S /\ a <= Max2(a, b) /\ b <= Max2(a, b)
BY DEF Max2, Min2

\* What a step may do to the limits and what counts them.
LimitsTyped ==
    /\ failures' \in 0 .. MaxFailures /\ limit' \in Limits \cup {0}
    /\ told' \subseteq [until : Limits, by : {"poll", "backfill"}] /\ told \subseteq told'

LEMMA RateLimitType ==
  ASSUME TypeOK, NEW l \in Limits, RateLimit(l)
  PROVE  LimitsTyped
<1>1. /\ failures < MaxFailures /\ failures' = failures + 1 /\ limit' = Max2(limit, l)
      /\ told' = told \cup {[until |-> l, by |-> "poll"]}
  BY DEF RateLimit, Told
<1> QED BY <1>1, SizeAssumption DEF LimitsTyped, TypeOK, Max2

LEMMA DroppedLimitType ==
  ASSUME TypeOK, DroppedLimit, UNCHANGED limit
  PROVE  LimitsTyped
<1>1. PICK l \in Limits : Told(l, "backfill")
  BY DEF DroppedLimit
<1>2. /\ failures < MaxFailures /\ failures' = failures + 1
      /\ told' = told \cup {[until |-> l, by |-> "backfill"]}
  BY <1>1 DEF Told
<1> QED BY <1>2, SizeAssumption DEF LimitsTyped, TypeOK

\* What an answer to a poll does to the types.
LEMMA ArriveType ==
  ASSUME TypeOK, NEW r \in requests, NEW t \in Times, Arrive(r, t)
  PROVE  TypeOK'
<1> DEFINE tweets == Newest({id \in Visible(t) : id > r.since}, Count(r))
           Typed == /\ queue' \in Seq(SUBSET Tweets) /\ since' \in Tweets \cup {0}
                    /\ from' \in Times \cup {Never}
<1>1. tweets \in SUBSET Tweets
  BY DEF Newest, Visible
<1>2. Typed
  <2>1. CASE UNCHANGED <<queue, since, from>>
    BY <2>1 DEF TypeOK
  <2>2. ASSUME NEW id \in Newest(tweets, 1), queue' = Append(queue, tweets), set_since_id(id)
        PROVE  Typed
    <3>1. id \in Tweets
      BY <1>1, NewestSubset
    <3>2. queue' \in Seq(SUBSET Tweets)
      BY <1>1, <2>2, AppendProperties DEF TypeOK
    <3>3. since' \in Tweets \cup {0}
      BY <2>2, <3>1 DEF TypeOK, set_since_id, Max2
    <3>4. from' \in Times \cup {Never}
      BY <2>2 DEF TypeOK, set_since_id
    <3> QED BY <3>2, <3>3, <3>4
  <2> HIDE DEF tweets
  <2> QED BY <2>1, <2>2 DEF Arrive, tweets
<1>3. LimitsTyped
  <2>1. CASE NoRateLimit
    BY <2>1 DEF NoRateLimit, LimitsTyped, TypeOK
  <2> QED BY <2>1, RateLimitType DEF Arrive
<1>4. UNCHANGED heard
  BY DEF Arrive
<1> QED BY <1>2, <1>3, <1>4 DEF Arrive, TypeOK, LimitsTyped, database

LEMMA FailType ==
  ASSUME TypeOK, NEW r \in requests, Fail(r)
  PROVE  TypeOK'
<1>1. LimitsTyped
  <2>1. CASE failures < MaxFailures /\ failures' = failures + 1 /\ UNCHANGED <<limit, told>>
    BY <2>1, SizeAssumption DEF LimitsTyped, TypeOK
  <2> QED BY <2>1, RateLimitType DEF Fail
<1>2. UNCHANGED heard
  BY DEF Fail
<1> QED BY <1>1, <1>2 DEF Fail, TypeOK, LimitsTyped, database

\* What a page of the backfill does to the types; a page that is not empty is above the
\* tweet the backfill goes back to.
LEMMA BackfillArriveType ==
  ASSUME TypeOK, NEW t \in Times, BackfillArrive(t)
  PROVE  TypeOK'
<1> DEFINE S == {id \in Visible(t) : id > backfill.since /\ id <= backfill.max}
           page == Newest(S, PageSize)
           Typed ==
             /\ queue' \in Seq(SUBSET Tweets) /\ since' \in Tweets \cup {0}
             /\ from' \in Times \cup {Never}
             /\ backfill' \in [since : Tweets, max : Nat, sent : Times] \cup {NoBackfill}
<1>1. page \in SUBSET Tweets /\ S \in SUBSET Tweets
  BY DEF Newest, Visible
<1>2. backfill \in [since : Tweets, max : Nat, sent : Times]
  BY DEF TypeOK, BackfillArrive
<1>3. Typed
  <2>1. CASE backfill' = NoBackfill /\ UNCHANGED <<queue, since, from>>
    BY <2>1 DEF TypeOK
  <2>2. ASSUME NEW first \in page, NEW oldest \in page,
               set_since_id(first), queue' = Append(queue, page),
               backfill' = [backfill EXCEPT !.max = oldest - 1, !.sent = now]
        PROVE  Typed
    <3>1. first \in Tweets /\ oldest \in S
      BY <1>1, NewestSubset
    <3>2. queue' \in Seq(SUBSET Tweets)
      BY <1>1, <2>2, AppendProperties DEF TypeOK
    <3>3. since' \in Tweets \cup {0}
      BY <2>2, <3>1 DEF TypeOK, set_since_id, Max2
    <3>4. from' \in Times \cup {Never}
      BY <2>2 DEF TypeOK, set_since_id
    <3>5. oldest - 1 \in Nat
      <4>1. oldest \in Nat /\ backfill.since \in Nat /\ oldest > backfill.since
        BY <1>1, <1>2, <3>1, TweetsNat
      <4> QED BY <4>1
    <3>6. backfill' \in [since : Tweets, max : Nat, sent : Times]
      BY <1>2, <2>2, <3>5 DEF TypeOK
    <3> QED BY <3>2, <3>3, <3>4, <3>6
  <2> HIDE DEF page
  <2> QED BY <2>1, <2>2 DEF BackfillArrive, page
<1>4. LimitsTyped /\ UNCHANGED heard
  <2>1. CASE UNCHANGED <<failures, told>>
    BY <2>1 DEF BackfillArrive, LimitsTyped, TypeOK
  <2> QED BY <2>1, DroppedLimitType DEF BackfillArrive
<1> QED BY <1>3, <1>4 DEF BackfillArrive, TypeOK, LimitsTyped, database

LEMMA DeliverType ==
  ASSUME TypeOK, queue # <<>>
  PROVE  /\ Head(queue) \in SUBSET Tweets /\ Tail(queue) \in Seq(SUBSET Tweets)
         /\ \A id \in Head(queue) : Max2(last, id) \in Tweets \cup {0}
<1>1. Head(queue) \in SUBSET Tweets /\ Tail(queue) \in Seq(SUBSET Tweets)
  BY HeadTailProperties DEF TypeOK
<1> QED BY <1>1 DEF TypeOK, Max2

LEMMA EndsType ==
  ASSUME TypeOK, Ends, last' \in Tweets \cup {0}, seen' \in SUBSET Tweets,
         crashes' \in 0 .. MaxCrashes, wanted' \in SUBSET Tweets
  PROVE  TypeOK'
<1>1. <<>> \in Seq(SUBSET Tweets)
  OBVIOUS
<1> QED BY <1>1, SizeAssumption DEF Ends, TypeOK

LEMMA TypeInit == Init => TypeOK
<1>1. <<>> \in Seq(SUBSET Tweets)
  OBVIOUS
<1>2. StartTime \in Times
  BY TimeAssumption DEF Times
<1> QED BY <1>1, <1>2, SizeAssumption, TimeAssumption DEF Init, TypeOK

LEMMA TypeStep == TypeOK /\ [Next]_vars => TypeOK'
<1> SUFFICES ASSUME TypeOK, [Next]_vars PROVE TypeOK'
  OBVIOUS
<1>1. CASE Start
  <2>1. backfill' \in [since : Tweets, max : Nat, sent : Times] \cup {NoBackfill}
    BY <1>1, TimeAssumption DEF Start, HasLast, TypeOK
  <2>2. wanted' \in SUBSET Tweets /\ suspended' \in SUBSET Tweets
    BY <1>1 DEF Start, HasLast, TypeOK, Visible
  <2>3. starts' \in 0 .. MaxStarts /\ deadline' \in Nat
    BY <1>1, SizeAssumption, TimeAssumption DEF Start, TypeOK, Times
  <2> QED BY <1>1, <2>1, <2>2, <2>3 DEF Start, TypeOK, database
<1>2. CASE IntervalPoll
  <2>1. now \in Nat /\ limit \in Nat /\ deadline \in Nat /\ Period \in Nat
    BY TimeAssumption, SizeAssumption DEF TypeOK, Times
  <2>2. deadline' \in Nat /\ limit' \in Limits \cup {0}
    BY <1>2, <2>1 DEF IntervalPoll, Max2
  <2>3. interval' \in {"asleep", "ready"} /\ heard' \subseteq told' /\ told' = told
    BY <1>2 DEF IntervalPoll, TypeOK
  <2> QED BY <1>2, <2>2, <2>3 DEF IntervalPoll, TypeOK, database, bounds
<1>3. ASSUME NEW r \in requests, NEW t \in Times, Arrive(r, t) PROVE TypeOK'
  BY <1>3, ArriveType
<1>4. ASSUME NEW r \in requests, Fail(r) PROVE TypeOK'
  BY <1>4, FailType
<1>5. ASSUME NEW t \in Times, BackfillArrive(t) PROVE TypeOK'
  BY <1>5, BackfillArriveType
<1>6. CASE BackfillFail
  <2>1. LimitsTyped /\ UNCHANGED heard
    <3>1. CASE failures < MaxFailures /\ failures' = failures + 1 /\ UNCHANGED told
      BY <1>6, <3>1, SizeAssumption DEF BackfillFail, LimitsTyped, TypeOK
    <3> QED BY <1>6, <3>1, DroppedLimitType DEF BackfillFail
  <2> QED BY <1>6, <2>1 DEF BackfillFail, TypeOK, LimitsTyped, database
<1>7. CASE Deliver
  <2>1. last' \in Tweets \cup {0}
    BY <1>7, DeliverType, NewestSubset DEF Deliver, TypeOK
  <2>2. queue' \in Seq(SUBSET Tweets) /\ seen' \in SUBSET Tweets
    BY <1>7, DeliverType DEF Deliver, TypeOK
  <2> QED BY <1>7, <2>1, <2>2 DEF Deliver, TypeOK, timeline, bounds, history
<1>8. CASE Shutdown
  BY <1>8 DEF Shutdown, TypeOK, timeline, database, bounds, history
<1>9. CASE Stopped
  <2>1. Ends /\ UNCHANGED <<last, seen, crashes, wanted>>
    BY <1>9 DEF Stopped, database
  <2> QED BY <2>1, EndsType DEF TypeOK
<1>10. CASE Crash
  <2>1. last' \in Tweets \cup {0} /\ seen' \in SUBSET Tweets
    BY <1>10, DeliverType DEF Crash, CutDelivery, database, TypeOK
  <2>2. crashes' \in 0 .. MaxCrashes /\ wanted' \in SUBSET Tweets /\ Ends
    BY <1>10, SizeAssumption DEF Crash, TypeOK
  <2> QED BY <2>1, <2>2, EndsType
<1>11. CASE ClockTick
  BY <1>11, TimeAssumption DEF ClockTick, TypeOK, Times, timeline, database, bounds, history
<1>12. CASE UNCHANGED vars
  BY <1>12 DEF vars, TypeOK, timeline, database, bounds, history
<1>13. CASE IntervalFire
  <2>1. now \in Nat /\ limit \in Nat /\ deadline \in Nat /\ Period \in Nat
    BY TimeAssumption, SizeAssumption DEF TypeOK, Times
  <2>2. deadline' \in Nat /\ limit' \in Limits \cup {0}
    BY <1>13, <2>1 DEF IntervalFire, Max2
  <2>3. SinceParam \in Nat
    BY <2>1, TweetsNat, TimeAssumption, DelayAssumption DEF SinceParam, Min2, TypeOK, Times
  <2>4. requests' \subseteq [sent : Times, since : Nat]
    BY <1>13, <2>3 DEF IntervalFire, send, TypeOK
  <2> QED BY <1>13, <2>2, <2>4 DEF IntervalFire, TypeOK, database, bounds
<1> QED BY <1>1, <1>2, <1>3, <1>4, <1>5, <1>6, <1>7, <1>8, <1>9, <1>10, <1>11, <1>12, <1>13
        DEF Next

\* The variables have their types.
THEOREM ListTypeCorrect == Spec => []TypeOK
BY TypeInit, TypeStep, PTL DEF Spec

------------------------------------------------------------------------------
(* Rate limits.                                                              *)

\* A rate limit of a poll is either still in the handle or has reached the timer.
LimitInv ==
    /\ \A l \in told : l.by = "poll" => l.until <= Max2(deadline, limit)
    /\ state = "down" => told = {}

\* When a poll is about to be sent, the timer and the limits it took are over.
ReadyInv ==
    interval = "ready" =>
        /\ deadline <= now
        /\ \A l \in heard : l.by = "poll" => l.until <= now

LEMMA Numbers ==
  ASSUME TypeOK
  PROVE  /\ now \in Nat /\ deadline \in Nat /\ limit \in Nat /\ Period \in Nat
         /\ \A l \in told : l.until \in Nat
<1>1. \A l \in told : l.until \in Limits
  BY DEF TypeOK
<1>2. \A l \in told : l.until \in Nat
  BY <1>1, TimeAssumption
<1>3. now \in Nat
  BY TimeAssumption DEF TypeOK, Times
<1>4. deadline \in Nat /\ limit \in Nat
  BY TimeAssumption DEF TypeOK
<1> QED BY <1>2, <1>3, <1>4, SizeAssumption

\* The limits that the backfill drops are not those of a poll.
LEMMA PollLimits ==
  ASSUME UNCHANGED told \/ DroppedLimit
  PROVE  told \subseteq told' /\ \A l \in told' : l.by = "poll" => l \in told
<1>1. CASE UNCHANGED told
  BY <1>1
<1>2. ASSUME NEW u \in Limits, Told(u, "backfill")
      PROVE  told \subseteq told' /\ \A l \in told' : l.by = "poll" => l \in told
  <2>1. told' = told \cup {[until |-> u, by |-> "backfill"]}
    BY <1>2 DEF Told
  <2> QED BY <2>1
<1> QED BY <1>1, <1>2 DEF DroppedLimit

\* While no poll is told of a limit and the timer is not set back.
LEMMA LimitKept ==
  ASSUME TypeOK, TypeOK', LimitInv, \A l \in told' : l.by = "poll" => l \in told,
         Max2(deadline, limit) <= Max2(deadline', limit'), state' # "down"
  PROVE  LimitInv'
<1>1. Max2(deadline, limit) \in Nat /\ Max2(deadline', limit') \in Nat
  BY Numbers, TimeAssumption DEF TypeOK, Max2
<1>2. \A l \in told' : l.by = "poll" => l.until \in Nat /\ l.until <= Max2(deadline', limit')
  BY <1>1, Numbers DEF LimitInv
<1> QED BY <1>2 DEF LimitInv

LEMMA RateLimitStep ==
  ASSUME TypeOK, LimitInv, NEW u \in Limits, RateLimit(u), UNCHANGED <<deadline, state>>,
         state # "down"
  PROVE  LimitInv'
<1>1. u \in Nat /\ limit \in Nat /\ deadline \in Nat
  BY Numbers, TimeAssumption
<1>2. /\ told' = told \cup {[until |-> u, by |-> "poll"]} /\ limit' = Max2(limit, u)
      /\ deadline' = deadline /\ state' = state
  BY DEF RateLimit, Told
<1>3. u <= Max2(deadline, Max2(limit, u))
  BY <1>1 DEF Max2
<1>4. ASSUME NEW l \in told, l.by = "poll" PROVE l.until <= Max2(deadline, Max2(limit, u))
  <2>1. l.until \in Nat /\ l.until <= Max2(deadline, limit)
    BY <1>4, Numbers DEF LimitInv
  <2> QED BY <1>1, <2>1 DEF Max2
<1> QED BY <1>2, <1>3, <1>4 DEF LimitInv

\* Requests, pages and the interval's task belong to a process.
InFlightInv ==
    state = "down" => requests = {} /\ backfill = NoBackfill /\ interval = "asleep"

LEMMA InFlightStep == InFlightInv /\ [Next]_vars => InFlightInv'
<1> SUFFICES ASSUME InFlightInv, [Next]_vars PROVE InFlightInv'
  OBVIOUS
<1>1. CASE Stopped \/ Crash
  BY <1>1 DEF Stopped, Crash, Ends, InFlightInv
<1>2. CASE Start
  BY <1>2 DEF Start, InFlightInv
<1>3. CASE IntervalPoll \/ IntervalFire
  BY <1>3 DEF IntervalPoll, IntervalFire, IntervalAlive, InFlightInv
<1>4. ASSUME NEW r \in requests, NEW t \in Times, Arrive(r, t) PROVE InFlightInv'
  BY <1>4 DEF Arrive, InFlightInv
<1>5. ASSUME NEW t \in Times, BackfillArrive(t) PROVE InFlightInv'
  BY <1>5 DEF BackfillArrive, InFlightInv
<1>6. CASE BackfillFail \/ Deliver \/ Shutdown \/ ClockTick \/ UNCHANGED vars
  BY <1>6 DEF BackfillFail, Deliver, Shutdown, ClockTick, vars, timeline, InFlightInv
<1>7. ASSUME NEW r \in requests, Fail(r) PROVE InFlightInv'
  BY <1>7 DEF Fail, InFlightInv
<1> QED BY <1>1, <1>2, <1>3, <1>4, <1>5, <1>6, <1>7 DEF Next

LEMMA LimitStep == TypeOK /\ TypeOK' /\ InFlightInv /\ LimitInv /\ [Next]_vars => LimitInv'
<1> SUFFICES ASSUME TypeOK, TypeOK', InFlightInv, LimitInv, [Next]_vars PROVE LimitInv'
  OBVIOUS
<1>0. /\ now \in Nat /\ deadline \in Nat /\ limit \in Nat /\ Period \in Nat
      /\ deadline' \in Nat /\ limit' \in Nat
  BY Numbers, TimeAssumption DEF TypeOK
<1>1. CASE Start
  BY <1>1 DEF Start, LimitInv
<1>2. CASE IntervalPoll
  <2>1. deadline' = Max2(deadline, limit) /\ limit' = 0 /\ UNCHANGED <<told, state>>
        /\ state # "down"
    BY <1>2 DEF IntervalPoll, IntervalAlive
  <2>2. Max2(deadline, limit) <= Max2(deadline', limit')
    BY <1>0, <2>1 DEF Max2
  <2> QED BY <2>1, <2>2, LimitKept
<1>3. ASSUME NEW r \in requests, NEW t \in Times, Arrive(r, t) PROVE LimitInv'
  <2>1. CASE NoRateLimit
    BY <1>3, <2>1 DEF Arrive, NoRateLimit, LimitInv
  <2>2. ASSUME NEW l \in Limits, RateLimit(l) PROVE LimitInv'
    BY <1>3, <2>2, RateLimitStep DEF Arrive, InFlightInv
  <2> QED BY <1>3, <2>1, <2>2 DEF Arrive
<1>4. ASSUME NEW r \in requests, Fail(r) PROVE LimitInv'
  <2>1. CASE UNCHANGED <<limit, told>>
    BY <1>4, <2>1 DEF Fail, LimitInv
  <2>2. ASSUME NEW l \in Limits, RateLimit(l) PROVE LimitInv'
    BY <1>4, <2>2, RateLimitStep DEF Fail, InFlightInv
  <2> QED BY <1>4, <2>1, <2>2 DEF Fail
<1>5. CASE Stopped \/ Crash
  BY <1>5 DEF Stopped, Crash, Ends, LimitInv
<1>6. CASE Shutdown
  BY <1>6 DEF Shutdown, timeline, history, LimitInv
<1>7. ASSUME \/ \E t \in Times : BackfillArrive(t)
             \/ BackfillFail
      PROVE  LimitInv'
  <2>1. /\ UNCHANGED told \/ DroppedLimit
        /\ UNCHANGED <<deadline, limit, state>> /\ backfill # NoBackfill
    BY <1>7 DEF BackfillArrive, BackfillFail
  <2>2. state' # "down" /\ Max2(deadline, limit) <= Max2(deadline', limit')
    BY <1>0, <2>1 DEF InFlightInv, Max2
  <2> QED BY <2>1, <2>2, PollLimits, LimitKept
<1>8. CASE Deliver \/ ClockTick \/ UNCHANGED vars
  BY <1>8 DEF Deliver, ClockTick, vars, timeline, history, LimitInv
<1>9. CASE IntervalFire
  <2>1. /\ deadline' = Max2(Max2(deadline + Period, now), limit) /\ limit' = 0
        /\ UNCHANGED <<told, state>> /\ state # "down"
    BY <1>9 DEF IntervalFire, InFlightInv
  <2>2. Max2(deadline, limit) <= Max2(deadline', limit')
    BY <1>0, <2>1 DEF Max2
  <2> QED BY <2>1, <2>2, LimitKept
<1> QED BY <1>1, <1>2, <1>3, <1>4, <1>5, <1>6, <1>7, <1>8, <1>9 DEF Next

LEMMA ReadyStep == TypeOK /\ InFlightInv /\ LimitInv /\ ReadyInv /\ [Next]_vars => ReadyInv'
<1> SUFFICES ASSUME TypeOK, InFlightInv, LimitInv, ReadyInv, [Next]_vars PROVE ReadyInv'
  OBVIOUS
<1>0. now \in Nat /\ deadline \in Nat /\ \A l \in heard : l \in told /\ l.until \in Nat
  BY Numbers DEF TypeOK
<1>1. CASE IntervalPoll
  <2>1. deadline' = Max2(deadline, limit) /\ UNCHANGED now
    BY <1>1 DEF IntervalPoll
  <2>2. CASE deadline' <= now /\ heard' = told
    <3>1. Max2(deadline, limit) \in Nat /\ Max2(deadline, limit) <= now
      BY <2>1, <2>2, Numbers DEF Max2
    <3>2. ASSUME NEW l \in told, l.by = "poll" PROVE l.until <= now
      <4>1. l.until \in Nat /\ l.until <= Max2(deadline, limit)
        BY <3>2, Numbers DEF LimitInv
      <4> QED BY <1>0, <3>1, <4>1
    <3> QED BY <2>1, <2>2, <3>2 DEF ReadyInv
  <2>3. CASE ~(deadline' <= now) /\ UNCHANGED interval
    BY <1>1, <2>3 DEF IntervalPoll, ReadyInv
  <2> QED BY <1>1, <2>2, <2>3 DEF IntervalPoll
<1>2. CASE IntervalFire \/ Stopped \/ Crash
  BY <1>2 DEF IntervalFire, Stopped, Crash, Ends, ReadyInv
<1>3. CASE Start
  BY <1>3 DEF Start, InFlightInv, ReadyInv
<1>4. ASSUME UNCHANGED <<interval, deadline, heard>>, now' = now \/ now' = now + 1
      PROVE  ReadyInv'
  BY <1>0, <1>4 DEF ReadyInv
<1>5. ASSUME NEW r \in requests, NEW t \in Times, Arrive(r, t) PROVE ReadyInv'
  BY <1>4, <1>5 DEF Arrive
<1>6. ASSUME NEW r \in requests, Fail(r) PROVE ReadyInv'
  BY <1>4, <1>6 DEF Fail
<1>7. ASSUME NEW t \in Times, BackfillArrive(t) PROVE ReadyInv'
  BY <1>4, <1>7 DEF BackfillArrive
<1>8. CASE BackfillFail \/ Deliver \/ Shutdown \/ ClockTick \/ UNCHANGED vars
  BY <1>4, <1>8 DEF BackfillFail, Deliver, Shutdown, ClockTick, vars, timeline, history
<1> QED BY <1>1, <1>2, <1>3, <1>5, <1>6, <1>7, <1>8 DEF Next

\* The limits that the interval has taken and that a poll told are over.
Obeyed == \A l \in heard : l.until <= now \/ l.by = "backfill"

LEMMA PollObeys == TypeOK /\ ReadyInv /\ [Next]_vars => requests' \subseteq requests \/ Obeyed
<1> SUFFICES ASSUME TypeOK, ReadyInv, [Next]_vars
             PROVE  requests' \subseteq requests \/ Obeyed
  OBVIOUS
<1>1. CASE IntervalFire
  <2>1. \A l \in heard : l.by \in {"poll", "backfill"}
    BY DEF TypeOK
  <2> QED BY <1>1, <2>1 DEF IntervalFire, ReadyInv, Obeyed
<1>2. ASSUME NEW r \in requests, NEW t \in Times, Arrive(r, t)
      PROVE  requests' \subseteq requests
  BY <1>2 DEF Arrive
<1>3. ASSUME NEW r \in requests, Fail(r) PROVE requests' \subseteq requests
  BY <1>3 DEF Fail
<1>4. CASE Stopped \/ Crash
  BY <1>4 DEF Stopped, Crash, Ends
<1>5. ASSUME NEW t \in Times, BackfillArrive(t) PROVE requests' \subseteq requests
  BY <1>5 DEF BackfillArrive
<1>6. CASE \/ Start \/ IntervalPoll \/ BackfillFail \/ Deliver \/ Shutdown \/ ClockTick
           \/ UNCHANGED vars
  BY <1>6 DEF Start, IntervalPoll, BackfillFail, Deliver, Shutdown, ClockTick, vars, timeline
<1> QED BY <1>1, <1>2, <1>3, <1>4, <1>5, <1>6 DEF Next

\* No poll is sent before a rate limit is over that a poll told before the interval last
\* took its limit; the limits the backfill is told of are not obeyed.
THEOREM RateLimitsObeyed == Spec => RateLimitObeyed
<1>1. Init => InFlightInv /\ LimitInv /\ ReadyInv
  BY DEF Init, InFlightInv, LimitInv, ReadyInv
<1>2. TypeOK /\ ReadyInv /\ [Next]_vars
        => [requests' \subseteq requests
              \/ \A l \in heard : l.until <= now \/ l.by = "backfill"]_vars
  BY PollObeys DEF Obeyed
<1> QED BY <1>1, <1>2, ListTypeCorrect, InFlightStep, LimitStep, ReadyStep, PTL
        DEF Spec, RateLimitObeyed

------------------------------------------------------------------------------
(* The backfill.                                                             *)

\* What is wanted has been received, or is in what the backfill still asks for and was
\* shown when it asked.
BackfillInv ==
    \A id \in wanted :
        \/ id \in Received
        \/ /\ backfill # NoBackfill
           /\ id > backfill.since /\ id <= backfill.max
           /\ at[id] <= backfill.sent

\* While the page in flight stays the same, receiving more preserves the invariant.
LEMMA BackfillKept ==
  ASSUME BackfillInv, Received \subseteq Received', wanted' \subseteq wanted,
         UNCHANGED <<backfill, at>>
  PROVE  BackfillInv'
BY DEF BackfillInv, NoBackfill

LEMMA PageStep ==
  ASSUME TypeOK, BackfillInv, NEW t \in Times, BackfillArrive(t)
  PROVE  BackfillInv'
<1> DEFINE S == {id \in Visible(t) : id > backfill.since /\ id <= backfill.max}
           page == Newest(S, PageSize)
<1>1. page \in SUBSET Tweets /\ S \in SUBSET Tweets /\ page \subseteq S
  BY DEF Newest, Visible
<1>2. backfill \in [since : Tweets, max : Nat, sent : Times]
  BY DEF TypeOK, BackfillArrive
<1>3. backfill.sent <= t /\ t <= now /\ t \in Nat /\ backfill.sent \in Nat /\ now \in Nat
  <2>1. t \in backfill.sent .. now
    BY DEF BackfillArrive
  <2>2. backfill.sent \in Times
    BY <1>2
  <2>3. backfill.sent \in Nat /\ now \in Nat
    BY <2>2, Numbers, TimeAssumption DEF Times
  <2> QED BY <2>1, <2>3
<1>4. \A id \in wanted : id \in Received \/ id \in S
  <2> SUFFICES ASSUME NEW id \in wanted, id \notin Received PROVE id \in S
    OBVIOUS
  <2>1. id \in Tweets /\ at[id] \in Nat
    BY TimeAssumption DEF TypeOK, Times, Never
  <2>2. id > backfill.since /\ id <= backfill.max /\ at[id] <= backfill.sent
    BY DEF BackfillInv
  <2>3. at[id] <= t
    BY <1>3, <2>1, <2>2
  <2> QED BY <2>1, <2>2, <2>3 DEF Visible
<1>5. UNCHANGED <<wanted, at, seen>>
  BY DEF BackfillArrive, database
<1>6. CASE page = {} /\ backfill' = NoBackfill /\ UNCHANGED <<queue, since, from>>
  <2>1. S = {}
    BY <1>1, <1>6, NewestEmpty, SizeAssumption
  <2>2. Received' = Received
    BY <1>5, <1>6 DEF Received
  <2> QED BY <1>4, <1>5, <2>1, <2>2 DEF BackfillInv
<1>7. ASSUME NEW oldest \in page, queue' = Append(queue, page),
             backfill' = [backfill EXCEPT !.max = oldest - 1, !.sent = now]
      PROVE  BackfillInv'
  <2>1. Received' = Received \cup page
    BY <1>1, <1>5, <1>7, ReceivedAppend DEF TypeOK
  <2>2. /\ backfill'.since = backfill.since /\ backfill'.max = oldest - 1
        /\ backfill'.sent = now
    BY <1>2, <1>7
  <2>3. backfill' # NoBackfill
    <3>1. now > 0
      BY TimeAssumption, DelayAssumption DEF TypeOK, Times
    <3>2. NoBackfill.sent = 0
      BY DEF NoBackfill
    <3> QED BY <1>3, <2>2, <3>1, <3>2
  <2>4. ASSUME NEW id \in S, id \notin page PROVE id <= oldest - 1
    <3>1. oldest \in S /\ oldest \in Nat /\ id \in Nat
      BY <1>1, TweetsNat
    <3>2. ~(oldest <= id)
      BY <1>1, <2>4, NewestUp, SizeAssumption
    <3> QED BY <3>1, <3>2
  <2>5. ASSUME NEW id \in S PROVE id > backfill.since /\ at[id] <= now
    <3>1. id \in Tweets /\ id > backfill.since /\ at[id] <= t /\ at[id] \in Nat
      BY TimeAssumption DEF TypeOK, Times, Never, Visible
    <3> QED BY <1>3, <3>1
  <2> HIDE DEF page, S
  <2> QED BY <1>4, <1>5, <2>1, <2>2, <2>3, <2>4, <2>5 DEF BackfillInv
<1> HIDE DEF page, S
<1> QED BY <1>6, <1>7 DEF BackfillArrive, page, S

LEMMA BackfillStep == TypeOK /\ InFlightInv /\ BackfillInv /\ [Next]_vars => BackfillInv'
<1> SUFFICES ASSUME TypeOK, InFlightInv, BackfillInv, [Next]_vars PROVE BackfillInv'
  OBVIOUS
<1>1. CASE Start
  <2>1. CASE last > 0
    <3>1. /\ backfill' = [since |-> last, max |-> EndTime, sent |-> now]
          /\ wanted' = {id \in Visible(now) : id > last} /\ at' = at
      BY <1>1, <2>1 DEF Start, HasLast
    <3>2. backfill' # NoBackfill
      BY <3>1, TimeAssumption, DelayAssumption DEF TypeOK, Times, NoBackfill
    <3>3. \A id \in wanted' : id > last /\ id <= EndTime /\ at[id] <= now
      BY <3>1, TimeAssumption DEF Visible, Times
    <3> QED BY <3>1, <3>2, <3>3 DEF BackfillInv
  <2>2. CASE ~(last > 0)
    BY <1>1, <2>2 DEF Start, HasLast, BackfillInv
  <2> QED BY <2>1, <2>2
<1>2. CASE IntervalPoll \/ IntervalFire \/ Shutdown \/ ClockTick \/ UNCHANGED vars
  <2>1. UNCHANGED <<queue, seen, wanted, backfill, at>>
    BY <1>2 DEF IntervalPoll, IntervalFire, Shutdown, ClockTick, vars, timeline, database, history
  <2> QED BY <2>1, BackfillKept DEF Received
<1>3. ASSUME NEW r \in requests, NEW t \in Times, Arrive(r, t) PROVE BackfillInv'
  <2> DEFINE tweets == Newest({id \in Visible(t) : id > r.since}, Count(r))
  <2>1. tweets \in SUBSET Tweets
    BY DEF Newest, Visible
  <2>2. UNCHANGED queue \/ queue' = Append(queue, tweets)
    BY <1>3 DEF Arrive
  <2>3. UNCHANGED <<seen, wanted, backfill, at>>
    BY <1>3 DEF Arrive, database
  <2> HIDE DEF tweets
  <2>4. Received \subseteq Received'
    <3>1. CASE UNCHANGED queue
      BY <2>3, <3>1 DEF Received
    <3>2. CASE queue' = Append(queue, tweets)
      BY <2>1, <2>3, <3>2, ReceivedAppend DEF TypeOK
    <3> QED BY <2>2, <3>1, <3>2
  <2> QED BY <2>3, <2>4, BackfillKept
<1>4. ASSUME NEW r \in requests, Fail(r) PROVE BackfillInv'
  <2>1. UNCHANGED <<queue, seen, wanted, backfill, at>>
    BY <1>4 DEF Fail, database
  <2> QED BY <2>1, BackfillKept DEF Received
<1>5. ASSUME NEW t \in Times, BackfillArrive(t) PROVE BackfillInv'
  BY <1>5, PageStep
<1>6. CASE BackfillFail \/ Crash
  BY <1>6 DEF BackfillFail, Crash, BackfillInv
<1>7. CASE Deliver
  <2>1. Received \subseteq Received'
    BY <1>7, ReceivedDeliver DEF Deliver, TypeOK
  <2> QED BY <1>7, <2>1, BackfillKept DEF Deliver, timeline, history
<1>8. CASE Stopped
  <2>1. UNCHANGED <<queue, seen, wanted, backfill, at>>
    BY <1>8 DEF Stopped, Ends, database
  <2> QED BY <2>1, BackfillKept DEF Received
<1> QED BY <1>1, <1>2, <1>3, <1>4, <1>5, <1>6, <1>7, <1>8 DEF Next

\* A backfill that has come to its end has brought all it was to bring.
THEOREM BackfillCompletes == Spec => []BackfillComplete
<1>1. Init => InFlightInv /\ BackfillInv
  BY DEF Init, InFlightInv, BackfillInv
<1>2. BackfillInv => BackfillComplete
  BY DEF BackfillInv, BackfillComplete
<1> QED BY <1>1, <1>2, ListTypeCorrect, InFlightStep, BackfillStep, PTL DEF Spec

------------------------------------------------------------------------------
(* No tweet is missed.                                                       *)

\* A poll is sent no later than the timer allows and is answered in time; it asks for
\* the ids above a point that lies the delay back, unless it is from before the process
\* knew a tweet.
PollInv ==
    /\ IsFiniteSet(requests)
    /\ \A id \in Tweets : at[id] <= id + K \/ at[id] = Never
    /\ from = Never <=> since = 0
    /\ state = "down" => since = 0 /\ limit = 0
    /\ \A r \in requests :
          /\ r.sent <= now /\ now <= r.sent + Latency
          /\ r.since + Delay <= r.sent
          /\ r.since = 0 => r.sent <= from
    /\ state = "up" =>
          /\ now <= deadline + Lag
          /\ Unlimited => limit = 0 /\ deadline <= now + Period

LEMMA PollParam ==
  ASSUME TypeOK, PollInv
  PROVE  /\ send.sent = now /\ send.since \in Nat /\ send.since + Delay <= now
         /\ send.since = 0 => now <= from
<1>1. /\ now \in Nat /\ since \in Nat /\ Delay \in Nat /\ Delay < now
      /\ now <= Never
  BY TimeAssumption, DelayAssumption, TweetsNat DEF TypeOK, Times, Never
<1>2. CASE since = 0
  BY <1>1, <1>2 DEF send, SinceParam, PollInv
<1>3. CASE since # 0
  <2>1. SinceParam \in Nat \ {0} /\ SinceParam + Delay <= now
    BY <1>1, <1>3 DEF SinceParam, Min2
  <2> QED BY <2>1 DEF send
<1> QED BY <1>2, <1>3

\* What an answer does to the tweet to poll from.
LEMMA SinceStep ==
  ASSUME TypeOK, PollInv, UNCHANGED now,
         UNCHANGED <<since, from>> \/ \E id \in Tweets : set_since_id(id)
  PROVE  /\ from' = Never <=> since' = 0
         /\ from' = from \/ (from = Never /\ from' = now)
         /\ \A s \in Nat : s <= now /\ s <= from => s <= from'
<1>1. /\ now \in Nat /\ now < Never /\ from \in Nat /\ since \in Nat
      /\ \A id \in Tweets : id \in Nat \ {0}
  BY TimeAssumption, DelayAssumption, TweetsNat DEF TypeOK, Times, Never
<1>2. CASE UNCHANGED <<since, from>>
  BY <1>2 DEF PollInv
<1>3. ASSUME NEW id \in Tweets, set_since_id(id)
      PROVE  /\ from' = Never <=> since' = 0
             /\ from' = from \/ (from = Never /\ from' = now)
             /\ \A s \in Nat : s <= now /\ s <= from => s <= from'
  <2>1. since' \in Nat \ {0}
    BY <1>1, <1>3 DEF set_since_id, Max2
  <2> QED BY <1>1, <1>3, <2>1 DEF set_since_id, PollInv
<1> QED BY <1>2, <1>3

LEMMA AnswerSince ==
  ASSUME TypeOK, NEW r \in requests, NEW t \in Times, Arrive(r, t)
  PROVE  UNCHANGED <<since, from>> \/ \E id \in Tweets : set_since_id(id)
<1> DEFINE tweets == Newest({id \in Visible(t) : id > r.since}, Count(r))
<1>1. Newest(tweets, 1) \subseteq Tweets
  BY NewestSubset DEF Newest, Visible
<1> HIDE DEF tweets
<1> QED BY <1>1 DEF Arrive, tweets

LEMMA PageSince ==
  ASSUME TypeOK, NEW t \in Times, BackfillArrive(t)
  PROVE  UNCHANGED <<since, from>> \/ \E id \in Tweets : set_since_id(id)
<1> DEFINE page == Newest({id \in Visible(t) : id > backfill.since /\ id <= backfill.max},
                          PageSize)
<1>1. page \subseteq Tweets
  BY NewestSubset DEF Newest, Visible
<1> HIDE DEF page
<1> QED BY <1>1 DEF BackfillArrive, page

LEMMA LimitedByPoll ==
  ASSUME NEW l \in Limits, RateLimit(l)
  PROVE  ~Unlimited'
<1>1. [until |-> l, by |-> "poll"] \in told'
  BY DEF RateLimit, Told
<1> QED BY <1>1 DEF Unlimited

LEMMA UnlimitedBefore ==
  ASSUME told \subseteq told', Unlimited'
  PROVE  Unlimited
BY DEF Unlimited

\* Requests that go take nothing else with them.
LEMMA PollKept ==
  ASSUME TypeOK, PollInv, requests' \subseteq requests,
         UNCHANGED <<now, at, deadline>>, state # "down",
         state' = state \/ state' = "stopping",
         Unlimited' => UNCHANGED limit /\ Unlimited,
         UNCHANGED <<since, from>> \/ \E id \in Tweets : set_since_id(id)
  PROVE  PollInv'
<1>1. IsFiniteSet(requests')
  BY FS_Subset DEF PollInv
<1>2. /\ from' = Never <=> since' = 0
      /\ \A s \in Nat : s <= now /\ s <= from => s <= from'
  BY SinceStep
<1>3. \A r \in requests' : r.sent \in Nat /\ r \in requests
  BY TimeAssumption DEF TypeOK, Times
<1>4. \A r \in requests' :
          /\ r.sent <= now' /\ now' <= r.sent + Latency
          /\ r.since + Delay <= r.sent
          /\ r.since = 0 => r.sent <= from'
  BY <1>2, <1>3 DEF PollInv
<1>5. Never' = Never
  BY DEF Never
<1> QED BY <1>1, <1>2, <1>4, <1>5 DEF PollInv

LEMMA PollStep == TypeOK /\ InFlightInv /\ ReadyInv /\ PollInv /\ [Next]_vars => PollInv'
<1> SUFFICES ASSUME TypeOK, InFlightInv, ReadyInv, PollInv, [Next]_vars PROVE PollInv'
  OBVIOUS
<1>0. /\ now \in Nat /\ deadline \in Nat /\ limit \in Nat
      /\ Period \in Nat /\ Lag \in Nat /\ Latency \in Nat /\ Never' = Never
  BY Numbers, SizeAssumption DEF Never
<1>1. CASE Start
  <2>1. requests = {}
    BY <1>1 DEF Start, InFlightInv
  <2>2. limit' = 0 /\ deadline' <= now' + Period
    BY <1>0, <1>1 DEF Start, PollInv
  <2> QED BY <1>0, <1>1, <2>1, <2>2 DEF Start, PollInv
<1>2. CASE IntervalPoll
  <2>1. deadline' = Max2(deadline, limit) /\ limit' = 0 /\ state # "down"
        /\ UNCHANGED <<now, at, state, requests, since, from, told>>
    BY <1>2 DEF IntervalPoll, IntervalAlive
  <2>2. state = "up" => now <= deadline' + Lag
    BY <1>0, <2>1 DEF PollInv, Max2
  <2>3. state = "up" /\ Unlimited => deadline' <= now + Period
    BY <1>0, <2>1 DEF PollInv, Max2
  <2>4. Unlimited' = Unlimited
    BY <2>1 DEF Unlimited
  <2> QED BY <1>0, <2>1, <2>2, <2>3, <2>4 DEF PollInv
<1>3. ASSUME NEW r \in requests, NEW t \in Times, Arrive(r, t) PROVE PollInv'
  <2>1. Unlimited' => UNCHANGED limit /\ Unlimited
    BY <1>3, LimitedByPoll, UnlimitedBefore DEF Arrive, NoRateLimit
  <2>2. UNCHANGED <<since, from>> \/ \E id \in Tweets : set_since_id(id)
    BY <1>3, AnswerSince
  <2>3. UNCHANGED <<now, at, state, deadline>> /\ requests' \subseteq requests
        /\ state # "down"
    BY <1>3 DEF Arrive, InFlightInv
  <2> QED BY <2>1, <2>2, <2>3, PollKept
<1>4. ASSUME NEW r \in requests, Fail(r) PROVE PollInv'
  <2>1. Unlimited' => UNCHANGED limit /\ Unlimited
    BY <1>4, LimitedByPoll, UnlimitedBefore DEF Fail
  <2>2. UNCHANGED <<now, at, state, deadline, since, from>> /\ requests' \subseteq requests
        /\ state # "down"
    BY <1>4 DEF Fail, InFlightInv
  <2> QED BY <2>1, <2>2, PollKept
<1>5. ASSUME NEW t \in Times, BackfillArrive(t) PROVE PollInv'
  <2>1. UNCHANGED <<since, from>> \/ \E id \in Tweets : set_since_id(id)
    BY <1>5, PageSince
  <2>2. UNCHANGED <<now, at, state, deadline, limit, requests>> /\ state # "down"
    BY <1>5 DEF BackfillArrive, InFlightInv
  <2>3. Unlimited' => Unlimited
    BY <1>5, PollLimits, UnlimitedBefore DEF BackfillArrive
  <2> QED BY <2>1, <2>2, <2>3, PollKept
<1>6. CASE BackfillFail \/ Deliver \/ Shutdown
  <2>1. /\ UNCHANGED <<now, at, deadline, limit, requests, since, from>>
        /\ state # "down"
        /\ state' = state \/ state' = "stopping"
    BY <1>6 DEF BackfillFail, Deliver, Shutdown, InFlightInv, timeline, history
  <2>2. Unlimited' => Unlimited
    BY <1>6, PollLimits, UnlimitedBefore DEF BackfillFail, Deliver, Shutdown, history
  <2> QED BY <2>1, <2>2, PollKept
<1>7. CASE Stopped \/ Crash
  BY <1>0, <1>7, FS_EmptySet DEF Stopped, Crash, Ends, PollInv
<1>8. CASE ClockTick
  <2>1. \A r \in requests : r.sent \in Nat
    BY TimeAssumption DEF TypeOK, Times
  <2>2. /\ state = "up" => now + 1 <= deadline + Lag
        /\ \A r \in requests : r.sent <= now + 1 /\ now + 1 <= r.sent + Latency
    BY <1>0, <1>8, <2>1 DEF ClockTick, IntervalAlive, PollInv
  <2>3. /\ now' = now + 1
        /\ UNCHANGED <<at, state, since, deadline, limit, requests, from>>
        /\ Unlimited' = Unlimited
    BY <1>8 DEF ClockTick, timeline, history, Unlimited
  <2>4. deadline <= now + Period => deadline <= now + 1 + Period
    BY <1>0
  <2> QED BY <1>0, <2>2, <2>3, <2>4 DEF PollInv
<1>9. CASE UNCHANGED vars
  BY <1>0, <1>9 DEF vars, timeline, history, PollInv, Unlimited
<1>10. CASE IntervalFire
  <2>1. /\ deadline <= now /\ requests' = requests \cup {send} /\ limit' = 0
        /\ deadline' = Max2(Max2(deadline + Period, now), limit)
        /\ UNCHANGED <<now, at, state, since, from, told>> /\ state # "down"
    BY <1>10 DEF IntervalFire, ReadyInv, InFlightInv
  <2>2. deadline' \in Nat /\ now <= deadline' /\ now <= deadline' + Lag
    BY <1>0, <2>1 DEF Max2
  <2>3. state = "up" /\ Unlimited => deadline' <= now + Period
    BY <1>0, <2>1 DEF PollInv, Max2
  <2>4. IsFiniteSet(requests')
    BY <2>1, FS_AddElement DEF PollInv
  <2>5. /\ send.sent <= now /\ now <= send.sent + Latency
        /\ send.since + Delay <= send.sent
        /\ send.since = 0 => send.sent <= from
    BY <1>0, PollParam
  <2>6. \A r \in requests' :
          /\ r.sent <= now /\ now <= r.sent + Latency
          /\ r.since + Delay <= r.sent
          /\ r.since = 0 => r.sent <= from
    BY <2>1, <2>5 DEF PollInv
  <2>7. Unlimited' = Unlimited
    BY <2>1 DEF Unlimited
  <2> QED BY <1>0, <2>1, <2>2, <2>3, <2>4, <2>6, <2>7 DEF PollInv
<1> QED BY <1>1, <1>2, <1>3, <1>4, <1>5, <1>6, <1>7, <1>8, <1>9, <1>10 DEF Next

\* The time that n polls take.
Within(n) == n * (Period + Lag)

LEMMA WithinGrows ==
  ASSUME NEW m \in Nat, NEW n \in Nat
  PROVE  /\ Within(n) \in Nat
         /\ Within(n + 1) = Within(n) + Period + Lag
         /\ m <= n => Within(m) <= Within(n)
<1> DEFINE W == Period + Lag
<1>1. W \in Nat
  BY SizeAssumption
<1> HIDE DEF W
<1>2. n * W \in Nat /\ (n + 1) * W = n * W + W
  BY <1>1
<1>3. m <= n => m * W <= n * W
  <2> SUFFICES ASSUME m <= n PROVE m * W <= n * W
    OBVIOUS
  <2>1. n - m \in Nat /\ (n - m) * W \in Nat /\ m * W \in Nat
    BY <1>1
  <2>2. n * W = m * W + (n - m) * W
    BY <1>1
  <2> QED BY <1>2, <2>1, <2>2
<1> QED BY <1>2, <1>3, SizeAssumption DEF Within, W

\* The polls in flight that will bring the tweet id, and those of them sent before r.
Reaching(id) == {r \in requests : at[id] <= r.sent /\ r.sent + K < at[id] + Delay}
Before(id, r) == {q \in Reaching(id) : q.sent < r.sent}

Outstanding(id) ==
    /\ state = "up" /\ Unlimited
    /\ from < at[id] /\ at[id] <= now
    /\ id \notin Received

\* Every poll since the tweet was shown is in flight or has failed: the polls in flight
\* are as early as the failures allow, and the next one will be, or enough are in flight.
Timely(id) ==
    /\ \A r \in Reaching(id) :
          r.sent <= at[id] + Within(failures + Cardinality(Before(id, r)) + 1)
    /\ \/ deadline + Lag <= at[id] + Within(failures + Cardinality(Reaching(id)) + 1)
       \/ Delay <= K + Within(failures + Cardinality(Reaching(id)) + 1)

CaughtInv == \A id \in Tweets : Outstanding(id) => Timely(id)

LEMMA Clocks ==
  ASSUME TypeOK, NEW id \in Tweets
  PROVE  /\ now \in Nat /\ deadline \in Nat /\ failures \in Nat /\ at[id] \in Nat
         /\ from \in Nat /\ Lag \in Nat /\ Period \in Nat /\ Delay \in Nat /\ K \in Nat
         /\ Latency \in Nat /\ Never \in Nat /\ at[id] <= Never
         /\ \A r \in requests : r.sent \in Nat /\ r.since \in Nat
<1>1. at[id] \in Times \cup {Never} /\ from \in Times \cup {Never} /\ now \in Times
  BY DEF TypeOK
<1>2. \A t \in Times \cup {Never} : t \in Nat /\ t <= Never
  BY TimeAssumption DEF Times, Never
<1>3. failures \in Nat
  BY SizeAssumption DEF TypeOK
<1>4. \A r \in requests : r.sent \in Nat /\ r.since \in Nat
  BY <1>2 DEF TypeOK
<1>5. Never \in Nat
  BY <1>2
<1> QED BY <1>1, <1>2, <1>3, <1>4, <1>5, SizeAssumption, DelayAssumption DEF TypeOK

LEMMA InFlightCounts ==
  ASSUME PollInv, NEW id \in Tweets
  PROVE  /\ IsFiniteSet(Reaching(id)) /\ Cardinality(Reaching(id)) \in Nat
         /\ \A r : IsFiniteSet(Before(id, r)) /\ Cardinality(Before(id, r)) \in Nat
<1>1. IsFiniteSet(Reaching(id))
  BY FS_Subset DEF PollInv, Reaching
<1>2. \A r : IsFiniteSet(Before(id, r))
  BY <1>1, FS_Subset DEF Before
<1> QED BY <1>1, <1>2, FS_CardinalityType

\* A failed poll counts on as a failure.
LEMMA TimelyKept ==
  ASSUME TypeOK, TypeOK', PollInv, NEW id \in Tweets, Timely(id),
         UNCHANGED <<at, deadline>>, Reaching(id)' \subseteq Reaching(id),
         failures + Cardinality(Reaching(id)) <= failures' + Cardinality(Reaching(id)'),
         \A r \in Reaching(id)' : failures + Cardinality(Before(id, r))
                                    <= failures' + Cardinality(Before(id, r)')
  PROVE  Timely(id)'
<1>1. /\ deadline \in Nat /\ at[id] \in Nat /\ Lag \in Nat /\ Delay \in Nat /\ K \in Nat
      /\ failures \in Nat /\ failures' \in Nat
      /\ \A r \in Reaching(id) : r.sent \in Nat
  BY Clocks, SizeAssumption DEF TypeOK, Reaching
<1>2. /\ Cardinality(Reaching(id)) \in Nat
      /\ \A r : Cardinality(Before(id, r)) \in Nat
  BY InFlightCounts
<1>3. IsFiniteSet(Reaching(id)') /\ Cardinality(Reaching(id)') \in Nat
  BY InFlightCounts, FS_Subset, FS_CardinalityType
<1>4. \A r : Cardinality(Before(id, r)') \in Nat
  <2>1. \A r : Before(id, r)' \subseteq Reaching(id)'
    BY DEF Before
  <2> QED BY <1>3, <2>1, FS_Subset, FS_CardinalityType
<1>5. ASSUME NEW r \in Reaching(id)'
      PROVE  r.sent <= at[id] + Within(failures' + Cardinality(Before(id, r)') + 1)
  <2> DEFINE m == failures + Cardinality(Before(id, r)) + 1
             n == failures' + Cardinality(Before(id, r)') + 1
  <2>1. m \in Nat /\ n \in Nat /\ m <= n
    BY <1>1, <1>2, <1>4, <1>5
  <2>2. r.sent <= at[id] + Within(m)
    BY <1>5 DEF Timely
  <2> HIDE DEF m, n
  <2>3. Within(m) \in Nat /\ Within(n) \in Nat /\ Within(m) <= Within(n) /\ r.sent \in Nat
    BY <1>1, <1>5, <2>1, WithinGrows
  <2>4. r.sent <= at[id] + Within(n)
    BY <1>1, <2>2, <2>3
  <2> QED BY <2>4 DEF n
<1>6. \/ deadline + Lag <= at[id] + Within(failures' + Cardinality(Reaching(id)') + 1)
      \/ Delay <= K + Within(failures' + Cardinality(Reaching(id)') + 1)
  <2> DEFINE m == failures + Cardinality(Reaching(id)) + 1
             n == failures' + Cardinality(Reaching(id)') + 1
  <2>1. m \in Nat /\ n \in Nat /\ m <= n
    BY <1>1, <1>2, <1>3
  <2>2. deadline + Lag <= at[id] + Within(m) \/ Delay <= K + Within(m)
    BY DEF Timely
  <2> HIDE DEF m, n
  <2>3. Within(m) \in Nat /\ Within(n) \in Nat /\ Within(m) <= Within(n)
    BY <2>1, WithinGrows
  <2>4. deadline + Lag <= at[id] + Within(n) \/ Delay <= K + Within(n)
    BY <1>1, <2>2, <2>3
  <2> QED BY <2>4 DEF n
<1>7. Within(failures + 1) \in Nat /\ at' = at /\ deadline' = deadline
  BY <1>1, WithinGrows
<1> QED BY <1>5, <1>6, <1>7 DEF Timely, Within

\* While the polls in flight and the timer stay the same.
LEMMA TimelySame ==
  ASSUME TypeOK, TypeOK', PollInv, NEW id \in Tweets, Timely(id),
         UNCHANGED <<at, deadline>>, Reaching(id)' = Reaching(id), failures <= failures'
  PROVE  Timely(id)'
<1>1. \A r : Before(id, r)' = Before(id, r)
  BY DEF Before
<1>2. failures \in Nat /\ failures' \in Nat
  BY SizeAssumption DEF TypeOK
<1>3. /\ failures + Cardinality(Reaching(id)) <= failures' + Cardinality(Reaching(id)')
      /\ \A r : failures + Cardinality(Before(id, r))
                  <= failures' + Cardinality(Before(id, r)')
  BY <1>1, <1>2, InFlightCounts
<1> QED BY <1>3, TimelyKept

LEMMA RemoveOne ==
  ASSUME NEW S, IsFiniteSet(S), NEW q
  PROVE  /\ Cardinality(S) \in Nat /\ Cardinality(S \ {q}) \in Nat
         /\ Cardinality(S) <= Cardinality(S \ {q}) + 1
<1>1. /\ IsFiniteSet(S \ {q})
      /\ Cardinality(S \ {q}) = IF q \in S THEN Cardinality(S) - 1 ELSE Cardinality(S)
  BY FS_RemoveElement, Zenon
<1>2. Cardinality(S) \in Nat /\ Cardinality(S \ {q}) \in Nat
  BY <1>1, FS_CardinalityType, Zenon
<1> QED BY <1>1, <1>2

LEMMA TimelyFail ==
  ASSUME TypeOK, TypeOK', PollInv, NEW id \in Tweets, Timely(id), NEW q \in requests,
         UNCHANGED <<at, deadline>>, requests' = requests \ {q}, failures' = failures + 1
  PROVE  Timely(id)'
<1>1. Reaching(id)' = Reaching(id) \ {q} /\ \A r : Before(id, r)' = Before(id, r) \ {q}
  BY DEF Reaching, Before
<1>2. failures \in Nat
  BY SizeAssumption DEF TypeOK
<1>3. failures + Cardinality(Reaching(id)) <= failures' + Cardinality(Reaching(id)')
  <2> DEFINE S == Reaching(id)
  <2>1. IsFiniteSet(S) /\ Cardinality(S) \in Nat
    BY InFlightCounts
  <2>2. Reaching(id)' = S \ {q}
    BY <1>1
  <2> HIDE DEF S
  <2>3. Cardinality(S \ {q}) \in Nat /\ Cardinality(S) <= Cardinality(S \ {q}) + 1
    BY <2>1, RemoveOne, Zenon
  <2>4. failures + Cardinality(S) <= (failures + 1) + Cardinality(S \ {q})
    BY <1>2, <2>1, <2>3
  <2> QED BY <2>2, <2>4 DEF S
<1>4. ASSUME NEW r
      PROVE  failures + Cardinality(Before(id, r)) <= failures' + Cardinality(Before(id, r)')
  <2> DEFINE S == Before(id, r)
  <2>1. IsFiniteSet(S) /\ Cardinality(S) \in Nat
    BY InFlightCounts
  <2>2. Before(id, r)' = S \ {q}
    BY <1>1
  <2> HIDE DEF S
  <2>3. Cardinality(S \ {q}) \in Nat /\ Cardinality(S) <= Cardinality(S \ {q}) + 1
    BY <2>1, RemoveOne, Zenon
  <2>4. failures + Cardinality(S) <= (failures + 1) + Cardinality(S \ {q})
    BY <1>2, <2>1, <2>3
  <2> QED BY <2>2, <2>4 DEF S
<1> QED BY <1>1, <1>3, <1>4, TimelyKept

\* A poll sent while the tweet may still be asked for joins those in flight, in time.
LEMMA TimelySent ==
  ASSUME TypeOK, TypeOK', PollInv, NEW id \in Tweets, Timely(id), NEW r,
         r.sent = now, at[id] <= now, now <= deadline + Lag,
         UNCHANGED <<at, failures>>, requests' = requests \cup {r},
         deadline' <= now + Period
  PROVE  Timely(id)'
<1> DEFINE R == Reaching(id)
           B == Before(id, r)
           f == failures
<1>1. /\ deadline \in Nat /\ deadline' \in Nat /\ at[id] \in Nat /\ Lag \in Nat
      /\ Delay \in Nat /\ K \in Nat /\ f \in Nat /\ now \in Nat /\ Period \in Nat
      /\ \A q \in R : q.sent \in Nat /\ q.sent <= now
  BY Clocks DEF TypeOK, Reaching, PollInv
<1>2. /\ IsFiniteSet(R) /\ Cardinality(R) \in Nat
      /\ \A q : IsFiniteSet(Before(id, q)) /\ Cardinality(Before(id, q)) \in Nat
  BY InFlightCounts
<1>3. at' = at /\ failures' = f
  OBVIOUS
<1>4. \/ deadline + Lag <= at[id] + Within(f + Cardinality(R) + 1)
      \/ Delay <= K + Within(f + Cardinality(R) + 1)
  BY DEF Timely
<1>5. Within(f + Cardinality(R) + 1) \in Nat
  <2> DEFINE n == f + Cardinality(R) + 1
  <2>1. n \in Nat
    BY <1>1, <1>2
  <2> HIDE DEF n
  <2>2. Within(n) \in Nat
    BY <2>1, WithinGrows
  <2> QED BY <2>2 DEF n
<1>6. CASE now + K < at[id] + Delay
  <2>1. Reaching(id)' = R \cup {r}
    BY <1>6 DEF Reaching
  <2>2. \A q \in Reaching(id)' : Before(id, q)' = Before(id, q)
    BY <1>1, <2>1 DEF Before
  <2>3. now <= at[id] + Within(f + Cardinality(B) + 1)
    <3>1. CASE \E q \in R : q.sent = now
      <4>1. PICK q \in R : q.sent = now
        BY <3>1
      <4>2. Before(id, q) = B
        BY <4>1 DEF Before
      <4> QED BY <4>1, <4>2 DEF Timely
    <3>2. CASE ~ \E q \in R : q.sent = now
      <4>1. B = R
        BY <1>1, <3>2 DEF Before
      <4>2. now <= at[id] + Within(f + Cardinality(R) + 1)
        <5> DEFINE w == Within(f + Cardinality(R) + 1)
        <5>1. w \in Nat /\ (deadline + Lag <= at[id] + w \/ Delay <= K + w)
          BY <1>4, <1>5
        <5> HIDE DEF w, R, B
        <5>2. now <= at[id] + w
          BY <1>1, <1>6, <5>1
        <5> QED BY <5>2 DEF w
      <4> QED BY <4>1, <4>2
    <3> QED BY <3>1, <3>2
  <2>4. /\ Cardinality(Reaching(id)') \in Nat
        /\ Cardinality(B) + 1 <= Cardinality(Reaching(id)')
    <3>1. B \subseteq R /\ r \notin B
      BY <1>1 DEF Before
    <3> HIDE DEF R, B
    <3>2. IsFiniteSet(R \cup {r})
      BY <1>2, FS_AddElement, Zenon
    <3>3. IsFiniteSet(B \cup {r}) /\ Cardinality(B \cup {r}) = Cardinality(B) + 1
      <4>1. IsFiniteSet(B)
        BY <1>2 DEF B
      <4> QED BY <3>1, <4>1, FS_AddElement, Zenon
    <3>4. Cardinality(B \cup {r}) <= Cardinality(R \cup {r})
      <4>1. B \cup {r} \in SUBSET (R \cup {r})
        BY <3>1
      <4> QED BY <3>2, <4>1, FS_Subset, Zenon
    <3>5. Cardinality(R \cup {r}) \in Nat
      BY <3>2, FS_CardinalityType, Zenon
    <3> QED BY <2>1, <3>3, <3>4, <3>5
  <2>5. deadline' + Lag <= at[id] + Within(f + Cardinality(Reaching(id)') + 1)
    <3> DEFINE m == f + Cardinality(B) + 1
               n == f + Cardinality(Reaching(id)') + 1
    <3>1. m \in Nat /\ n \in Nat /\ m + 1 <= n
      BY <1>1, <1>2, <2>4
    <3>2. now <= at[id] + Within(m)
      BY <2>3
    <3> HIDE DEF m, n, R, B
    <3>3. /\ Within(m) \in Nat /\ Within(n) \in Nat
          /\ Within(m + 1) = Within(m) + Period + Lag /\ Within(m + 1) <= Within(n)
      BY <3>1, WithinGrows
    <3>4. deadline' + Lag <= at[id] + Within(n)
      BY <1>1, <3>2, <3>3
    <3> QED BY <3>4 DEF n
  <2>6. \A q \in Reaching(id)' :
          q.sent <= at[id] + Within(f + Cardinality(Before(id, q)') + 1)
    BY <2>1, <2>2, <2>3 DEF Timely
  <2> HIDE DEF R, B
  <2> QED BY <1>3, <2>5, <2>6 DEF Timely, Within
<1>7. CASE ~(now + K < at[id] + Delay)
  <2>1. Reaching(id)' = R
    BY <1>7 DEF Reaching
  <2>2. \A q : Before(id, q)' = Before(id, q)
    BY <2>1 DEF Before
  <2>3. Delay <= K + Within(f + Cardinality(R) + 1)
    <3> DEFINE w == Within(f + Cardinality(R) + 1)
    <3>1. w \in Nat /\ (deadline + Lag <= at[id] + w \/ Delay <= K + w)
      BY <1>4, <1>5
    <3> HIDE DEF w, R, B
    <3>2. Delay <= K + w
      BY <1>1, <1>7, <3>1
    <3> QED BY <3>2 DEF w
  <2>4. \A q \in R : q.sent <= at[id] + Within(f + Cardinality(Before(id, q)) + 1)
    BY DEF Timely
  <2> HIDE DEF R, B
  <2> QED BY <1>3, <2>1, <2>2, <2>3, <2>4 DEF Timely, Within
<1> QED BY <1>6, <1>7

\* When the list shows a tweet, no poll has asked for it yet and the next one is due soon.
LEMMA TimelyShown ==
  ASSUME TypeOK, PollInv, NEW id \in Tweets, state = "up", Unlimited,
         now < at[id], at[id] <= now + 1, UNCHANGED <<at, failures, requests, deadline>>
  PROVE  Timely(id)'
<1>1. /\ deadline \in Nat /\ at[id] \in Nat /\ Lag \in Nat /\ failures \in Nat /\ now \in Nat
      /\ Period \in Nat /\ deadline <= now + Period
      /\ \A q \in requests : q.sent \in Nat /\ q.sent <= now
  BY Clocks DEF PollInv
<1>2. Reaching(id)' = {}
  BY <1>1 DEF Reaching
<1>3. Cardinality(Reaching(id)') = 0
  BY <1>2, FS_EmptySet
<1>4. deadline + Lag <= at[id] + Within(failures + 1)
  <2>1. /\ Within(1) \in Nat /\ Within(failures + 1) \in Nat
        /\ Within(1) <= Within(failures + 1)
    BY <1>1, WithinGrows
  <2>2. Within(1) = Period + Lag
    BY <1>1 DEF Within
  <2> QED BY <1>1, <2>1, <2>2
<1>5. failures + 0 + 1 = failures + 1
  BY <1>1
<1> QED BY <1>2, <1>3, <1>4, <1>5 DEF Timely, Within

\* What the answer to a poll in flight brings: the ids above a point before the tweet,
\* and no more than an answer holds.
LEMMA AnswerBrings ==
  ASSUME TypeOK, PollInv, Cardinality(Tweets) <= PollCount,
         NEW id \in Tweets, Outstanding(id), NEW r \in Reaching(id),
         NEW t \in Times, Arrive(r, t)
  PROVE  id \in Received'
<1> DEFINE asked == {y \in Visible(t) : y > r.since}
           tweets == Newest(asked, Count(r))
<1>1. /\ r \in requests /\ at[id] <= r.sent /\ r.sent + K < at[id] + Delay
      /\ from < at[id] /\ at[id] <= now
  BY DEF Reaching, Outstanding
<1>2. /\ r.sent \in Nat /\ r.since \in Nat /\ at[id] \in Nat /\ K \in Nat /\ Delay \in Nat
      /\ from \in Nat /\ now \in Nat /\ now < Never /\ t \in Nat /\ id \in Nat
  <2>1. now < Never /\ t \in Nat
    BY TimeAssumption DEF TypeOK, Times, Never
  <2> QED BY <1>1, <2>1, Clocks, TweetsNat
<1>3. at[id] <= id + K
  BY <1>1, <1>2 DEF PollInv
<1>4. r.since < id /\ r.since # 0
  BY <1>1, <1>2, <1>3 DEF PollInv
<1>5. at[id] <= t
  BY <1>1, <1>2 DEF Arrive
<1>6. id \in asked /\ asked \in SUBSET Tweets
  BY <1>2, <1>4, <1>5 DEF Visible
<1>7. id \in tweets
  <2> DEFINE newer == {y \in asked : id < y}
  <2>1. newer \in SUBSET (Tweets \ {id}) /\ IsFiniteSet(Tweets)
    BY <1>2, <1>6, TweetsNat
  <2> HIDE DEF newer, asked
  <2>2. /\ IsFiniteSet(Tweets \ {id})
        /\ Cardinality(Tweets \ {id}) = Cardinality(Tweets) - 1
    BY <2>1, FS_RemoveElement
  <2>3. Cardinality(newer) <= Cardinality(Tweets \ {id}) /\ IsFiniteSet(newer)
    BY <2>1, <2>2, FS_Subset, Zenon
  <2>4. Cardinality(newer) \in Nat /\ Cardinality(Tweets) \in Nat
    BY <2>1, <2>3, FS_CardinalityType, Zenon
  <2>5. Cardinality(newer) < PollCount
    BY <2>2, <2>3, <2>4, SizeAssumption
  <2>6. Count(r) = PollCount
    BY <1>4 DEF Count
  <2> QED BY <1>6, <2>5, <2>6 DEF Newest, newer
<1>8. queue' = Append(queue, tweets) /\ seen' = seen
  <2> HIDE DEF asked
  <2>1. tweets # {}
    BY <1>7
  <2> HIDE DEF tweets
  <2>2. \/ tweets = {}
        \/ \E x \in Newest(tweets, 1) : queue' = Append(queue, tweets)
    BY DEF Arrive, tweets, asked
  <2> QED BY <2>1, <2>2 DEF Arrive, database
<1>9. tweets \in SUBSET Tweets
  BY <1>6 DEF Newest
<1> HIDE DEF tweets
<1> QED BY <1>7, <1>8, <1>9, ReceivedAppend DEF TypeOK

\* An answer or a page that makes the process know its first tweet makes no tweet
\* outstanding: those already shown were shown too early.
LEMMA StillOutstanding ==
  ASSUME TypeOK, PollInv, NEW id \in Tweets, Outstanding(id)',
         UNCHANGED <<now, at, state>>, Unlimited' => Unlimited, Received \subseteq Received',
         UNCHANGED <<since, from>> \/ \E x \in Tweets : set_since_id(x)
  PROVE  Outstanding(id)
<1>1. from' = from \/ (from = Never /\ from' = now)
  BY SinceStep
<1>2. now \in Nat /\ at[id] \in Nat
  BY Clocks
<1> QED BY <1>1, <1>2 DEF Outstanding

LEMMA PageReceived ==
  ASSUME TypeOK, NEW t \in Times, BackfillArrive(t)
  PROVE  Received \subseteq Received'
<1> DEFINE page == Newest({id \in Visible(t) : id > backfill.since /\ id <= backfill.max},
                          PageSize)
<1>1. page \in SUBSET Tweets
  BY DEF Newest, Visible
<1>2. UNCHANGED queue \/ queue' = Append(queue, page)
  BY DEF BackfillArrive
<1>3. UNCHANGED seen
  BY DEF BackfillArrive, database
<1> HIDE DEF page
<1> QED BY <1>1, <1>2, <1>3, ReceivedAppend DEF Received, TypeOK

LEMMA AnswerReceived ==
  ASSUME TypeOK, NEW r \in requests, NEW t \in Times, Arrive(r, t)
  PROVE  Received \subseteq Received'
<1> DEFINE tweets == Newest({id \in Visible(t) : id > r.since}, Count(r))
<1>1. tweets \in SUBSET Tweets
  BY DEF Newest, Visible
<1>2. UNCHANGED queue \/ queue' = Append(queue, tweets)
  BY DEF Arrive
<1>3. UNCHANGED seen
  BY DEF Arrive, database
<1> HIDE DEF tweets
<1> QED BY <1>1, <1>2, <1>3, ReceivedAppend DEF Received, TypeOK

LEMMA CaughtStep ==
  ASSUME TypeOK, TypeOK', InFlightInv, ReadyInv, PollInv, CaughtInv, [Next]_vars,
         Cardinality(Tweets) <= PollCount
  PROVE  CaughtInv'
<1> SUFFICES ASSUME NEW id \in Tweets, Outstanding(id)' PROVE Timely(id)'
  BY DEF CaughtInv
<1>0. /\ now \in Nat /\ at[id] \in Nat /\ at[id] <= Never /\ failures \in Nat
      /\ from' < at'[id] /\ at'[id] <= now' /\ state' = "up" /\ Unlimited'
      /\ id \notin Received' /\ Never' = Never
  BY Clocks DEF Outstanding, Never
<1>1. Outstanding(id) => Timely(id)
  BY DEF CaughtInv
<1>2. CASE Start
  <2>1. from' = Never /\ at' = at /\ Never \in Nat
    BY <1>2, Clocks DEF Start, PollInv
  <2> QED BY <1>0, <2>1
<1>3. CASE IntervalPoll
  <2>1. UNCHANGED <<now, at, state, from, told, queue, seen, requests, failures>>
    BY <1>3 DEF IntervalPoll, database, bounds
  <2>2. Outstanding(id)
    BY <1>0, <2>1 DEF Outstanding, Received, Unlimited
  <2>3. deadline' = deadline
    <3>1. limit = 0 /\ deadline' = Max2(deadline, limit)
      BY <1>3, <2>2 DEF IntervalPoll, Outstanding, PollInv
    <3> QED BY <3>1, Numbers DEF Max2
  <2>4. Reaching(id)' = Reaching(id)
    BY <2>1 DEF Reaching
  <2> QED BY <1>0, <1>1, <2>1, <2>2, <2>3, <2>4, TimelySame
<1>10. CASE IntervalFire
  <2>1. /\ UNCHANGED <<now, at, state, from, told, queue, seen, failures>>
        /\ requests' = requests \cup {send}
        /\ deadline' = Max2(Max2(deadline + Period, now), limit)
    BY <1>10 DEF IntervalFire, database, bounds
  <2>2. Outstanding(id)
    BY <1>0, <2>1 DEF Outstanding, Received, Unlimited
  <2>3. limit = 0 /\ deadline <= now /\ now <= deadline + Lag /\ at[id] <= now
    BY <1>10, <2>2 DEF IntervalFire, ReadyInv, Outstanding, PollInv
  <2>4. deadline' <= now + Period
    BY <2>1, <2>3, Numbers DEF Max2
  <2>5. send.sent = now
    BY DEF send
  <2> QED BY <1>1, <2>1, <2>2, <2>3, <2>4, <2>5, TimelySent
<1>4. ASSUME NEW r \in requests, NEW t \in Times, Arrive(r, t) PROVE Timely(id)'
  <2>1. UNCHANGED failures /\ (Unlimited' => Unlimited)
    BY <1>0, <1>4, LimitedByPoll, UnlimitedBefore DEF Arrive, NoRateLimit
  <2>2. UNCHANGED <<now, at, state, deadline>> /\ requests' = requests \ {r}
    BY <1>4 DEF Arrive
  <2>3. Outstanding(id)
    BY <1>4, <2>1, <2>2, StillOutstanding, AnswerReceived, AnswerSince
  <2>4. r \notin Reaching(id)
    BY <1>0, <1>4, <2>3, AnswerBrings
  <2>5. Reaching(id)' = Reaching(id)
    BY <2>2, <2>4 DEF Reaching
  <2> QED BY <1>0, <1>1, <2>1, <2>2, <2>3, <2>5, TimelySame
<1>5. ASSUME NEW r \in requests, Fail(r) PROVE Timely(id)'
  <2>1. failures' = failures + 1 /\ Unlimited
    BY <1>0, <1>5, LimitedByPoll, UnlimitedBefore DEF Fail
  <2>2. /\ UNCHANGED <<now, at, state, deadline, from, queue, seen>>
        /\ requests' = requests \ {r}
    BY <1>5 DEF Fail, database
  <2>3. Outstanding(id)
    BY <1>0, <2>1, <2>2 DEF Outstanding, Received
  <2> QED BY <1>1, <2>1, <2>2, <2>3, TimelyFail
<1>6. ASSUME NEW t \in Times, BackfillArrive(t) PROVE Timely(id)'
  <2>0. failures <= failures'
    <3>1. UNCHANGED <<failures, told>> \/ DroppedLimit
      BY <1>6 DEF BackfillArrive
    <3> QED BY <1>0, <3>1 DEF DroppedLimit, Told
  <2>1. UNCHANGED <<now, at, state, deadline, requests>>
    BY <1>6 DEF BackfillArrive
  <2>2. Outstanding(id)
    BY <1>0, <1>6, <2>1, PollLimits, UnlimitedBefore, StillOutstanding, PageReceived, PageSince
       DEF BackfillArrive
  <2>3. Reaching(id)' = Reaching(id)
    BY <2>1 DEF Reaching
  <2> QED BY <1>0, <1>1, <2>0, <2>1, <2>2, <2>3, TimelySame
<1>7. CASE BackfillFail \/ Deliver \/ UNCHANGED vars
  <2>1. /\ UNCHANGED <<now, at, state, deadline, requests, from>>
        /\ Unlimited
        /\ failures <= failures' /\ Received \subseteq Received'
    <3>1. CASE BackfillFail
      <4>1. Unlimited
        BY <1>0, <3>1, PollLimits, UnlimitedBefore DEF BackfillFail
      <4>2. failures <= failures'
        BY <1>0, <3>1 DEF BackfillFail, DroppedLimit, Told
      <4> QED BY <3>1, <4>1, <4>2 DEF BackfillFail, Received, database
    <3>2. CASE Deliver
      <4>1. Received \subseteq Received'
        BY <3>2, ReceivedDeliver DEF Deliver, TypeOK
      <4> QED BY <1>0, <3>2, <4>1 DEF Deliver, timeline, bounds, history, Unlimited
    <3>3. CASE UNCHANGED vars
      BY <1>0, <3>3 DEF vars, timeline, database, bounds, history, Received, Unlimited
    <3> QED BY <1>7, <3>1, <3>2, <3>3
  <2>2. Outstanding(id)
    BY <1>0, <2>1 DEF Outstanding
  <2>3. Reaching(id)' = Reaching(id)
    BY <2>1 DEF Reaching
  <2> QED BY <1>1, <2>1, <2>2, <2>3, TimelySame
<1>8. CASE Shutdown \/ Stopped \/ Crash
  BY <1>0, <1>8 DEF Shutdown, Stopped, Crash, Ends
<1>9. CASE ClockTick
  <2>1. /\ UNCHANGED <<at, state, deadline, requests, failures, from, queue, seen>>
        /\ now' = now + 1 /\ Unlimited
    BY <1>0, <1>9 DEF ClockTick, timeline, database, bounds, history, Unlimited
  <2>2. CASE at[id] <= now
    <3>1. Outstanding(id)
      BY <1>0, <2>1, <2>2 DEF Outstanding, Received
    <3>2. Reaching(id)' = Reaching(id)
      BY <2>1 DEF Reaching
    <3> QED BY <1>0, <1>1, <2>1, <3>1, <3>2, TimelySame
  <2>3. CASE now < at[id]
    BY <1>0, <2>1, <2>3, TimelyShown
  <2> QED BY <1>0, <2>2, <2>3
<1> QED BY <1>2, <1>3, <1>4, <1>5, <1>6, <1>7, <1>8, <1>9, <1>10 DEF Next

\* With no more failures than the delay allows for, the earliest poll in flight has been
\* answered in time.
LEMMA CaughtEnough == TypeOK /\ PollInv /\ CaughtInv => CaughtInTime
<1> SUFFICES ASSUME TypeOK, PollInv, CaughtInv,
                    Delay > K + (failures + 1) * (Period + Lag),
                    state = "up", Unlimited,
                    NEW id \in Tweets, at[id] > from, now > AnsweredBy(at[id]),
                    id \notin Received
             PROVE  FALSE
  BY DEF CaughtInTime, Caught
<1> DEFINE R == Reaching(id)
           w == Within(failures + 1)
<1>1. /\ now \in Nat /\ deadline \in Nat /\ failures \in Nat /\ at[id] \in Nat
      /\ from \in Nat /\ Lag \in Nat /\ Period \in Nat /\ Delay \in Nat /\ K \in Nat
      /\ Latency \in Nat
      /\ \A r \in requests : r.sent \in Nat
  BY Clocks
<1>2. w \in Nat /\ Delay > K + w /\ now > at[id] + w + Latency
  <2>1. w \in Nat
    BY <1>1, WithinGrows
  <2> QED BY <2>1 DEF Within, AnsweredBy
<1> HIDE DEF w
<1>3. at[id] <= now
  BY <1>1, <1>2
<1>4. Timely(id)
  BY <1>3, <1>1 DEF CaughtInv, Outstanding
<1>5. CASE R = {}
  <2>1. failures + Cardinality(R) + 1 = failures + 1
    BY <1>1, <1>5, FS_EmptySet
  <2>2. deadline + Lag <= at[id] + w \/ Delay <= K + w
    BY <1>4, <2>1 DEF Timely, w
  <2>3. now <= deadline + Lag
    BY DEF PollInv
  <2> QED BY <1>1, <1>2, <2>2, <2>3
<1>6. CASE R # {}
  <2> DEFINE T == {r.sent : r \in R}
  <2>1. T \in SUBSET Nat /\ T # {}
    BY <1>1, <1>6 DEF Reaching
  <2>2. PICK m \in T : \A s \in T : m <= s
    BY <2>1, MinNat
  <2>3. PICK r \in R : r.sent = m
    OBVIOUS
  <2>4. Before(id, r) = {}
    <3>1. \A q \in R : ~(q.sent < r.sent)
      <4> SUFFICES ASSUME NEW q \in R PROVE ~(q.sent < r.sent)
        OBVIOUS
      <4>1. r.sent <= q.sent
        BY <2>2, <2>3
      <4> QED BY <1>1, <4>1 DEF Reaching
    <3> QED BY <3>1 DEF Before
  <2>5. failures + Cardinality(Before(id, r)) + 1 = failures + 1
    BY <1>1, <2>4, FS_EmptySet
  <2>6. r.sent <= at[id] + w
    BY <1>4, <2>5 DEF Timely, w
  <2>7. r \in requests /\ now <= r.sent + Latency
    BY DEF PollInv, Reaching
  <2> QED BY <1>1, <1>2, <2>6, <2>7
<1> QED BY <1>5, <1>6

\* No tweet is missed, though ids appear out of order, requests overlap and come back in
\* any order, and some of them fail: if the delay covers the disorder, the interval and
\* the polls that failed, and an answer holds as many tweets as the delay reaches back
\* over (list_timeline.rs asks for 200).
THEOREM NoTweetMissed ==
  ASSUME Cardinality(Tweets) <= PollCount
  PROVE  Spec => []CaughtInTime
<1>1. Init => InFlightInv /\ LimitInv /\ ReadyInv /\ PollInv /\ CaughtInv
  BY FS_EmptySet, TimeAssumption DEF Init, InFlightInv, LimitInv, ReadyInv, PollInv, CaughtInv,
     Outstanding, Times, Never
<1>2. TypeOK /\ TypeOK' /\ InFlightInv /\ ReadyInv /\ PollInv /\ CaughtInv /\ [Next]_vars
        => CaughtInv'
  BY CaughtStep
<1> QED BY <1>1, <1>2, ListTypeCorrect, InFlightStep, LimitStep, ReadyStep, PollStep,
           CaughtEnough, PTL DEF Spec

==============================================================================
