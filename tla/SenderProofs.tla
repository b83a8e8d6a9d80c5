---------------------------- MODULE SenderProofs -----------------------------
(***************************************************************************)
(* The sender, for any feeds, tweets, manifests and connections.           *)
(***************************************************************************)
EXTENDS Sender, TLAPS, FiniteSetTheorems, SequenceTheorems, WellFoundedInduction

Kinds == {"Atom", "Rss", "Xml"}

------------------------------------------------------------------------------
(* Sequences.                                                                *)

LEMMA MinNat ==
  ASSUME NEW S \in SUBSET Nat, S # {}
  PROVE  Min(S) \in S /\ \A y \in S : Min(S) <= y
<1> DEFINE R == OpToRel(<, Nat)
<1>1. IsWellFoundedOn(R, Nat)
  BY NatLessThanWellFounded
<1>2. \A x, y \in Nat : ~(<<y, x>> \in R) => x <= y
  <2>1. \A x, y \in Nat : y < x => <<y, x>> \in R
    BY Zenon DEF OpToRel
  <2>2. \A x, y \in Nat : ~(y < x) => x <= y
    OBVIOUS
  <2> QED BY <2>1, <2>2, Zenon
<1> HIDE DEF R
<1>3. \E x \in S : \A y \in S : ~(<<y, x>> \in R)
  BY <1>1, WFMin, Zenon
<1>4. \E x \in S : \A y \in S : x <= y
  BY <1>2, <1>3, Zenon
<1> QED BY <1>4 DEF Min

\* A set of naturals that has 1, and with each of 1 .. n - 1 the next, has all up to n.
LEMMA UpTo ==
  ASSUME NEW n \in Nat, NEW S, 1 \in S, \A i \in 1 .. n : i > 1 /\ i - 1 \in S => i \in S
  PROVE  1 .. n \subseteq S
<1> DEFINE T == (1 .. n) \ S
<1>1. SUFFICES ASSUME T # {} PROVE FALSE
  OBVIOUS
<1> DEFINE x == Min(T)
<1>2. x \in T /\ \A y \in T : x <= y
  <2>1. T \in SUBSET Nat
    OBVIOUS
  <2> HIDE DEF T
  <2> QED BY <1>1, <2>1, MinNat
<1>3. x \in 1 .. n /\ x # 1 /\ x \notin S
  BY <1>2
<1>4. x - 1 \in 1 .. n /\ ~(x <= x - 1)
  BY <1>3
<1>5. x - 1 \in S
  BY <1>2, <1>4
<1> QED BY <1>3, <1>5

\* `FlattenSeq` is a recursive function: there is one, as there is for each beginning of `ss`.
Flattening(ss, f) ==
    f = [i \in 1 .. Len(ss) |-> IF i = 1 THEN ss[i] ELSE f[i - 1] \o ss[i]]

LEMMA FlatteningExists ==
  ASSUME NEW ss, Len(ss) \in Nat
  PROVE  \E f : Flattening(ss, f)
<1> DEFINE n == Len(ss)
           P(k, f) == f = [i \in 1 .. k |-> IF i = 1 THEN ss[i] ELSE f[i - 1] \o ss[i]]
           S == {k \in 1 .. n : \E f : P(k, f)}
<1>1. CASE n = 0
  <2> DEFINE f == [i \in 1 .. n |-> ss[i]]
  <2>1. f = [i \in 1 .. n |-> IF i = 1 THEN ss[i] ELSE f[i - 1] \o ss[i]]
    BY <1>1
  <2> QED BY <2>1 DEF Flattening
<1>2. CASE n # 0
  <2>1. 1 \in S
    <3> DEFINE f == [i \in 1 .. 1 |-> ss[i]]
    <3>1. P(1, f)
      OBVIOUS
    <3>2. 1 \in 1 .. n
      BY <1>2
    <3> HIDE DEF n, f, P
    <3> QED BY <3>1, <3>2
  <2>2. ASSUME NEW k \in 1 .. n, k > 1, k - 1 \in S PROVE k \in S
    <3>1. PICK g : P(k - 1, g)
      BY <2>2
    <3> DEFINE f == [i \in 1 .. k |-> IF i = k THEN g[k - 1] \o ss[k] ELSE g[i]]
    <3>2. ASSUME NEW i \in 1 .. k PROVE f[i] = IF i = 1 THEN ss[i] ELSE f[i - 1] \o ss[i]
      <4>1. CASE i = k
        <5>1. k - 1 \in 1 .. k /\ k - 1 # k
          BY <2>2
        <5>2. f[k - 1] = g[k - 1]
          BY <5>1
        <5>3. k \in 1 .. k /\ k # 1
          BY <2>2
        <5>4. f[k] = g[k - 1] \o ss[k]
          BY <5>3, Zenon
        <5> HIDE DEF f
        <5> QED BY <4>1, <5>2, <5>3, <5>4, Zenon
      <4>2. CASE i # k
        <5>1. i \in 1 .. k - 1
          BY <4>2, <2>2
        <5>2. g[i] = IF i = 1 THEN ss[i] ELSE g[i - 1] \o ss[i]
          BY <3>1, <5>1, Zenon
        <5>3. i # 1 => i - 1 \in 1 .. k /\ i - 1 # k
          BY <5>1, <2>2
        <5> QED BY <4>2, <5>2, <5>3
      <4> QED BY <4>1, <4>2
    <3>3. P(k, f)
      BY <3>2
    <3> HIDE DEF n, f, P
    <3> QED BY <3>3
  <2>3. 1 .. n \subseteq S
    <3> HIDE DEF S, n
    <3> QED BY <2>1, <2>2, UpTo, <1>2 DEF n
  <2>4. n \in S
    <3>1. n \in 1 .. n
      BY <1>2
    <3> HIDE DEF S, n
    <3> QED BY <2>3, <3>1
  <2> QED BY <2>4 DEF Flattening
<1> QED BY <1>1, <1>2

\* It yields what is in one of the sequences, and nothing else.
LEMMA Flattens ==
  ASSUME NEW S, NEW ss \in Seq(Seq(S))
  PROVE  FlattenSeq(ss) \in Seq(S) /\ ToSet(FlattenSeq(ss)) = UNION {ToSet(ss[i]) : i \in 1 .. Len(ss)}
<1>1. CASE Len(ss) = 0
  <2>1. FlattenSeq(ss) = <<>>
    BY <1>1, EmptySeq DEF FlattenSeq
  <2> QED BY <1>1, <2>1, EmptySeq DEF ToSet
<1>2. CASE Len(ss) # 0
  <2> DEFINE f == CHOOSE g : Flattening(ss, g)
  <2>1. Flattening(ss, f)
    BY FlatteningExists, LenProperties
  <2>2. FlattenSeq(ss) = f[Len(ss)]
    BY <1>2 DEF FlattenSeq, Flattening
  <2> HIDE DEF f
  <2> DEFINE n == Len(ss)
             G(i) == UNION {ToSet(ss[j]) : j \in 1 .. i}
             T == {i \in 1 .. n : f[i] \in Seq(S) /\ Range(f[i]) = G(i)}
  <2>3. \A i \in 1 .. n : f[i] = IF i = 1 THEN ss[i] ELSE f[i - 1] \o ss[i]
    <3> HIDE DEF n
    <3> QED BY <2>1 DEF Flattening, n
  <2>4. \A i \in 1 .. n : ss[i] \in Seq(S) /\ Range(ss[i]) = ToSet(ss[i])
    BY DEF ToSet, Range
  <2>5. 1 \in T
    BY <1>2, <2>3, <2>4
  <2>6. ASSUME NEW i \in 1 .. n, i > 1, i - 1 \in T PROVE i \in T
    <3>1. f[i - 1] \in Seq(S) /\ Range(f[i - 1]) = G(i - 1) /\ f[i] = f[i - 1] \o ss[i]
      <4>1. i # 1
        BY <2>6
      <4>2. f[i - 1] \in Seq(S) /\ Range(f[i - 1]) = G(i - 1)
        BY <2>6, Zenon
      <4> HIDE DEF G, n
      <4> QED BY <2>3, <4>1, <4>2, Zenon
    <3>2. f[i] \in Seq(S) /\ Range(f[i]) = G(i - 1) \cup ToSet(ss[i])
      <4> HIDE DEF G, n
      <4> QED BY <2>4, <3>1, RangeConcatenation
    <3>3. G(i) = G(i - 1) \cup ToSet(ss[i])
      <4>1. 1 .. i = (1 .. i - 1) \cup {i}
        BY <2>6
      <4> HIDE DEF n
      <4> QED BY <4>1, Zenon
    <3> QED BY <3>2, <3>3
  <2>7. n \in T
    <3>1. n \in Nat /\ (n # 0 => n \in 1 .. n)
      OBVIOUS
    <3> HIDE DEF n, T
    <3> QED BY <1>2, <2>5, <2>6, <3>1, UpTo DEF n
  <2>8. Range(f[n]) = ToSet(f[n])
    BY DEF ToSet, Range
  <2> HIDE DEF n
  <2> QED BY <2>2, <2>7, <2>8 DEF n
<1> QED BY <1>1, <1>2

------------------------------------------------------------------------------
(* What deserialization yields.                                              *)

LEMMA SequenceOf ==
  ASSUME NEW n \in Nat, NEW s, s = [i \in 1 .. n |-> s[i]] PROVE IsSequence(s)
<1>1. \A i \in 1 .. n : s[i] \in ToSet(s)
  BY DEF ToSet
<1> QED BY <1>1 DEF IsSequence

LEMMA Collected ==
  ASSUME NEW n \in Nat, NEW s, DOMAIN s = 1 .. n, NEW r \in Collect(s)
  PROVE  IsSequence(r) /\ \A x \in ToSet(r) : \E i \in 1 .. n : x \in s[i]
<1>1. \A i \in 1 .. n : s[i] # {}
  BY DEF Collect
<1>2. r = [i \in 1 .. n |-> CHOOSE x \in s[i] : TRUE]
  BY DEF Collect
<1>3. \A i \in 1 .. n : r[i] \in s[i]
  BY <1>1, <1>2
<1>4. DOMAIN r = 1 .. n /\ r = [i \in 1 .. n |-> r[i]]
  BY <1>2
<1>5. IsSequence(r)
  BY <1>4, SequenceOf, Zenon
<1>6. \A x \in ToSet(r) : \E i \in 1 .. n : x \in s[i]
  BY <1>3, <1>4 DEF ToSet
<1> QED BY <1>5, <1>6

\* Whatever a document says, if it becomes a manifest then the manifest is one that
\* ManifestsAssumption allows.
THEOREM ManifestsAreWellFormed ==
  ASSUME NEW document, "rule" \in DOMAIN document,
         \A rules \in document.rule :
            /\ IsSequence(rules)
            /\ \A node \in ToSet(rules) :
                IsSequence(node.topics) /\ (node.outbox.t = "seq" => IsSequence(node.outbox.v)),
         NEW m \in ManifestOf(document)
  PROVE  /\ IsSequence(m.rule) /\ Valid(m)
         /\ \A rule \in ToSet(m.rule) : IsSequence(rule.topics) /\ IsSequence(rule.outbox)
<1>1. PICK rules \in document.rule :
        \E rs \in Collect([i \in DOMAIN rules |-> RuleOf(rules[i])]) : m = [document EXCEPT !.rule = rs]
  BY DEF ManifestOf
<1>2. PICK rs \in Collect([i \in DOMAIN rules |-> RuleOf(rules[i])]) : m = [document EXCEPT !.rule = rs]
  BY <1>1
<1>3. m.rule = rs /\ Valid(m)
  BY <1>2 DEF ManifestOf
<1>4. PICK n \in Nat : DOMAIN rules = 1 .. n
  BY DEF IsSequence
<1>5. IsSequence(rs) /\ \A rule \in ToSet(rs) : \E i \in 1 .. n : rule \in RuleOf(rules[i])
  <2> DEFINE s == [i \in 1 .. n |-> RuleOf(rules[i])]
  <2>1. DOMAIN s = 1 .. n /\ rs \in Collect(s) /\ \A i \in 1 .. n : s[i] = RuleOf(rules[i])
    BY <1>4
  <2> HIDE DEF s
  <2> QED BY <2>1, Collected
<1>6. ASSUME NEW node \in ToSet(rules), NEW rule \in RuleOf(node)
      PROVE  IsSequence(rule.topics) /\ IsSequence(rule.outbox)
  <2>1. rule.topics \in Collect([i \in DOMAIN node.topics |-> TopicOf(node.topics[i])])
        /\ rule.outbox \in OutboxesOf(node.outbox)
    BY DEF RuleOf
  <2>2. IsSequence(rule.topics)
    <3> DEFINE s == [i \in DOMAIN node.topics |-> TopicOf(node.topics[i])]
    <3>1. PICK k \in Nat : DOMAIN node.topics = 1 .. k
      BY DEF IsSequence
    <3>2. DOMAIN s = 1 .. k /\ rule.topics \in Collect(s)
      BY <2>1, <3>1
    <3> HIDE DEF s
    <3> QED BY <3>2, Collected
  <2>3. IsSequence(rule.outbox)
    <3>1. CASE node.outbox.t = "int"
      <4>1. rule.outbox = <<node.outbox.v>>
        BY <2>1, <3>1 DEF OutboxesOf
      <4>2. rule.outbox = [i \in 1 .. 1 |-> rule.outbox[i]]
        BY <4>1
      <4> QED BY <4>2, SequenceOf
    <3>2. CASE node.outbox.t = "seq"
      <4> DEFINE s == [i \in DOMAIN node.outbox.v |-> OutboxOf(node.outbox.v[i])]
      <4>1. PICK k \in Nat : DOMAIN node.outbox.v = 1 .. k
        BY <3>2 DEF IsSequence
      <4>2. DOMAIN s = 1 .. k /\ rule.outbox \in Collect(s)
        BY <2>1, <3>2, <4>1 DEF OutboxesOf
      <4> HIDE DEF s
      <4> QED BY <4>2, Collected
    <3>3. CASE node.outbox.t \notin {"int", "seq"}
      BY <2>1, <3>3 DEF OutboxesOf
    <3> QED BY <3>1, <3>2, <3>3
  <2> QED BY <2>2, <2>3
<1>7. \A i \in 1 .. n : rules[i] \in ToSet(rules)
  BY <1>4 DEF ToSet
<1> QED BY <1>3, <1>5, <1>6, <1>7

------------------------------------------------------------------------------
(* The router.                                                               *)

RouteOf(rule) == [filter |-> rule.filter, exclude |-> rule.exclude, outbox |-> rule.outbox]
RoutesOf(m) == {RouteOf(rule) : rule \in ToSet(m.rule)}

LEMMA RoutesOfRule ==
  ASSUME NEW m \in Manifests, NEW r \in ToSet(m.rule), NEW t
  PROVE  LET routes == FlattenSeq([j \in DOMAIN r.topics |->
                           IF r.topics[j] = t THEN <<RouteOf(r)>> ELSE <<>>])
         IN  /\ routes \in Seq(RoutesOf(m))
             /\ ToSet(routes) = {q \in {RouteOf(r)} : t \in ToSet(r.topics)}
<1> DEFINE ss == [j \in 1 .. Len(r.topics) |-> IF r.topics[j] = t THEN <<RouteOf(r)>> ELSE <<>>]
<1>1. Len(r.topics) \in Nat /\ DOMAIN r.topics = 1 .. Len(r.topics)
  BY ManifestsAssumption DEF IsSequence
<1>2. RouteOf(r) \in RoutesOf(m)
  BY DEF RoutesOf
<1>3. <<RouteOf(r)>> \in Seq(RoutesOf(m)) /\ ToSet(<<RouteOf(r)>>) = {RouteOf(r)}
      /\ <<>> \in Seq(RoutesOf(m)) /\ ToSet(<<>>) = {}
  <2> HIDE DEF RouteOf
  <2> QED BY <1>2, EmptySeq DEF ToSet
<1>4. /\ ss \in Seq(Seq(RoutesOf(m))) /\ Len(ss) = Len(r.topics)
      /\ \A j \in 1 .. Len(r.topics) : ToSet(ss[j]) = IF r.topics[j] = t THEN {RouteOf(r)} ELSE {}
  <2> DEFINE one == <<RouteOf(r)>>
             none == <<>>
  <2>1. one \in Seq(RoutesOf(m)) /\ none \in Seq(RoutesOf(m)) /\ ToSet(one) = {RouteOf(r)} /\ ToSet(none) = {}
    BY <1>3
  <2>2. ss = [j \in 1 .. Len(r.topics) |-> IF r.topics[j] = t THEN one ELSE none]
    OBVIOUS
  <2> HIDE DEF one, none, RouteOf
  <2>3. Len(ss) = Len(r.topics) /\ \A j \in 1 .. Len(r.topics) : ss[j] = IF r.topics[j] = t THEN one ELSE none
    BY <1>1, <2>2
  <2>4. ss \in Seq(Seq(RoutesOf(m)))
    <3>1. ss \in [1 .. Len(r.topics) -> Seq(RoutesOf(m))]
      BY <2>1, <2>2
    <3> HIDE DEF ss
    <3> QED BY <1>1, <3>1
  <2> HIDE DEF ss
  <2> QED BY <2>1, <2>3, <2>4, Zenon
<1> HIDE DEF ss
<1>5. FlattenSeq(ss) \in Seq(RoutesOf(m)) /\ ToSet(FlattenSeq(ss)) = UNION {ToSet(ss[j]) : j \in 1 .. Len(ss)}
  BY <1>4, Flattens
<1>6. t \in ToSet(r.topics) <=> \E j \in 1 .. Len(r.topics) : r.topics[j] = t
  BY <1>1 DEF ToSet
<1>7. UNION {ToSet(ss[j]) : j \in 1 .. Len(ss)} = {q \in {RouteOf(r)} : t \in ToSet(r.topics)}
  <2> HIDE DEF RouteOf
  <2> QED BY <1>4, <1>6
<1> QED BY <1>1, <1>5, <1>7 DEF ss

\* Under a topic are the routes of the rules about it.
LEMMA RoutesOfTopic ==
  ASSUME NEW m \in Manifests, NEW t \in TopicSet(m)
  PROVE  /\ RouterOf(m)[t] \in Seq(RoutesOf(m))
         /\ ToSet(RouterOf(m)[t]) = {RouteOf(r) : r \in {q \in ToSet(m.rule) : t \in ToSet(q.topics)}}
<1> DEFINE Of(r) == FlattenSeq([j \in DOMAIN r.topics |->
                        IF r.topics[j] = t THEN <<RouteOf(r)>> ELSE <<>>])
           ss == [i \in 1 .. Len(m.rule) |-> Of(m.rule[i])]
<1>1. Len(m.rule) \in Nat /\ DOMAIN m.rule = 1 .. Len(m.rule)
  BY ManifestsAssumption DEF IsSequence
<1>2. \A r \in ToSet(m.rule) :
          Of(r) \in Seq(RoutesOf(m)) /\ ToSet(Of(r)) = {q \in {RouteOf(r)} : t \in ToSet(r.topics)}
  BY RoutesOfRule
<1>3. RouterOf(m)[t] = FlattenSeq(ss)
  BY <1>1 DEF RouterOf, RouteOf
<1> HIDE DEF Of
<1>4. ToSet(m.rule) = {m.rule[i] : i \in 1 .. Len(m.rule)}
  BY <1>1 DEF ToSet
<1>5. /\ ss \in Seq(Seq(RoutesOf(m))) /\ Len(ss) = Len(m.rule)
      /\ \A i \in 1 .. Len(m.rule) : ss[i] = Of(m.rule[i])
  BY <1>1, <1>2, <1>4
<1> HIDE DEF ss
<1>6. FlattenSeq(ss) \in Seq(RoutesOf(m)) /\ ToSet(FlattenSeq(ss)) = UNION {ToSet(ss[i]) : i \in 1 .. Len(ss)}
  BY <1>5, Flattens
<1>7. UNION {ToSet(ss[i]) : i \in 1 .. Len(ss)} = UNION {ToSet(Of(r)) : r \in ToSet(m.rule)}
  BY <1>4, <1>5
<1>8. UNION {ToSet(Of(r)) : r \in ToSet(m.rule)} =
          {RouteOf(r) : r \in {q \in ToSet(m.rule) : t \in ToSet(q.topics)}}
  <2> HIDE DEF RouteOf
  <2> QED BY <1>2
<1> QED BY <1>3, <1>6, <1>7, <1>8

\* The outboxes of those of a topic's routes that are in a set are those of the rules.
LEMMA OutboxesOfRoutes ==
  ASSUME NEW m \in Manifests, NEW t \in TopicSet(m), NEW P
  PROVE  LET routes == RouterOf(m)[t]
             users == FlattenSeq([i \in DOMAIN routes |->
                          IF routes[i] \in P THEN routes[i].outbox ELSE <<>>])
         IN  /\ users \in Seq(AllUsers)
             /\ ToSet(users) = UNION {ToSet(r.outbox) : r \in
                    {q \in ToSet(m.rule) : t \in ToSet(q.topics) /\ RouteOf(q) \in P}}
<1> DEFINE routes == RouterOf(m)[t]
           ss == [i \in 1 .. Len(routes) |-> IF routes[i] \in P THEN routes[i].outbox ELSE <<>>]
           rules == {q \in ToSet(m.rule) : t \in ToSet(q.topics)}
<1>1. routes \in Seq(RoutesOf(m)) /\ ToSet(routes) = {RouteOf(r) : r \in rules}
  BY RoutesOfTopic
<1>2. \A r \in ToSet(m.rule) : r.outbox \in Seq(AllUsers) /\ RouteOf(r).outbox = r.outbox
  BY ManifestsAssumption DEF RouteOf
<1> HIDE DEF routes, RouteOf
<1>3. \A i \in 1 .. Len(routes) : \E r \in rules : routes[i] = RouteOf(r)
  BY <1>1 DEF ToSet
<1>4. \A r \in rules : \E i \in 1 .. Len(routes) : routes[i] = RouteOf(r)
  <2>1. \A q \in ToSet(routes) : \E i \in 1 .. Len(routes) : routes[i] = q
    BY <1>1 DEF ToSet
  <2> HIDE DEF rules
  <2> QED BY <1>1, <2>1, Zenon
<1>5. /\ ss \in Seq(Seq(AllUsers)) /\ Len(ss) = Len(routes)
      /\ \A i \in 1 .. Len(routes) : ss[i] = IF routes[i] \in P THEN routes[i].outbox ELSE <<>>
  BY <1>1, <1>2, <1>3, EmptySeq
<1>6. ss = [i \in DOMAIN routes |-> IF routes[i] \in P THEN routes[i].outbox ELSE <<>>]
  BY <1>1
<1> HIDE DEF ss
<1>7. FlattenSeq(ss) \in Seq(AllUsers) /\ ToSet(FlattenSeq(ss)) = UNION {ToSet(ss[i]) : i \in 1 .. Len(ss)}
  BY <1>5, Flattens
<1>8. ToSet(<<>>) = {}
  BY DEF ToSet
<1>9. UNION {ToSet(ss[i]) : i \in 1 .. Len(ss)} = UNION {ToSet(r.outbox) : r \in {q \in rules : RouteOf(q) \in P}}
  <2>1. ASSUME NEW i \in 1 .. Len(routes), NEW u \in ToSet(ss[i])
        PROVE  \E r \in rules : RouteOf(r) \in P /\ u \in ToSet(r.outbox)
    BY <1>2, <1>3, <1>5, <1>8, <2>1
  <2>2. ASSUME NEW r \in rules, RouteOf(r) \in P, NEW u \in ToSet(r.outbox)
        PROVE  \E i \in 1 .. Len(routes) : u \in ToSet(ss[i])
    BY <1>2, <1>4, <1>5, <2>2
  <2> HIDE DEF rules
  <2>3. Len(ss) = Len(routes)
    BY <1>5
  <2>4. \A u : (\E i \in 1 .. Len(routes) : u \in ToSet(ss[i]))
               <=> \E r \in {q \in rules : RouteOf(q) \in P} : u \in ToSet(r.outbox)
    BY <2>1, <2>2, Zenon
  <2> QED BY <2>3, <2>4, Zenon
<1> QED BY <1>6, <1>7, <1>9 DEF routes

LEMMA TweetRoutes ==
  ASSUME NEW m \in Manifests, NEW tweet
  PROVE  /\ RouteTweet(RouterOf(m), tweet) \in Seq(AllUsers)
         /\ \A u : u \in ToSet(RouteTweet(RouterOf(m), tweet))
                   <=> \E r \in ToSet(m.rule) : TweetPasses(r, tweet) /\ u \in ToSet(r.outbox)
<1> DEFINE t == TwitterTopic(tweet.user)
           P == {q \in RoutesOf(m) : /\ \A f \in q.filter : MatchesTweet(f, tweet)
                                     /\ \A x \in q.exclude : ~MatchesTweet(x, tweet)}
           users == RouteTweet(RouterOf(m), tweet)
<1>1. \A r \in ToSet(m.rule) : TweetPasses(r, tweet) <=> t \in ToSet(r.topics) /\ RouteOf(r) \in P
  BY DEF TweetPasses, RouteOf, RoutesOf
<1>2. DOMAIN RouterOf(m) = TopicSet(m)
  BY DEF RouterOf
<1>3. CASE t \notin TopicSet(m)
  <2>1. users = <<>>
    BY <1>2, <1>3 DEF RouteTweet, Routed
  <2>2. \A r \in ToSet(m.rule) : t \notin ToSet(r.topics)
    BY <1>3 DEF TopicSet, ToSet
  <2>3. ToSet(<<>>) = {}
    BY DEF ToSet
  <2> HIDE DEF users, t, P
  <2> QED BY <1>1, <2>1, <2>2, <2>3, EmptySeq DEF users
<1>4. CASE t \in TopicSet(m)
  <2> DEFINE routes == RouterOf(m)[t]
  <2>1. \A i \in DOMAIN routes : routes[i] \in RoutesOf(m)
    BY <1>4, RoutesOfTopic
  <2>2. users = FlattenSeq([i \in DOMAIN routes |-> IF routes[i] \in P THEN routes[i].outbox ELSE <<>>])
    BY <1>2, <1>4, <2>1 DEF RouteTweet, Routed
  <2> HIDE DEF users, t, P, routes
  <2>3. /\ users \in Seq(AllUsers)
        /\ ToSet(users) = UNION {ToSet(r.outbox) : r \in
                    {q \in ToSet(m.rule) : t \in ToSet(q.topics) /\ RouteOf(q) \in P}}
    BY <1>4, <2>2, OutboxesOfRoutes DEF routes
  <2>4. \A u : u \in ToSet(users) <=> \E r \in ToSet(m.rule) : TweetPasses(r, tweet) /\ u \in ToSet(r.outbox)
    BY <1>1, <2>3, Zenon
  <2> QED BY <2>3, <2>4 DEF users
<1> QED BY <1>3, <1>4

LEMMA EntryRoutes ==
  ASSUME NEW m \in Manifests, NEW topic, NEW entry
  PROVE  /\ RouteEntry(RouterOf(m), topic, entry) \in Seq(AllUsers)
         /\ \A u : u \in ToSet(RouteEntry(RouterOf(m), topic, entry))
                   <=> \E r \in ToSet(m.rule) : EntryPasses(r, topic, entry) /\ u \in ToSet(r.outbox)
<1> DEFINE t == FeedTopic(topic)
           P == {q \in RoutesOf(m) : /\ \A f \in q.filter : MatchesEntry(f, entry)
                                     /\ \A x \in q.exclude : ~MatchesEntry(x, entry)}
           users == RouteEntry(RouterOf(m), topic, entry)
<1>1. \A r \in ToSet(m.rule) : EntryPasses(r, topic, entry) <=> t \in ToSet(r.topics) /\ RouteOf(r) \in P
  BY DEF EntryPasses, RouteOf, RoutesOf
<1>2. DOMAIN RouterOf(m) = TopicSet(m)
  BY DEF RouterOf
<1>3. CASE t \notin TopicSet(m)
  <2>1. users = <<>>
    BY <1>2, <1>3 DEF RouteEntry, Routed
  <2>2. \A r \in ToSet(m.rule) : t \notin ToSet(r.topics)
    BY <1>3 DEF TopicSet, ToSet
  <2>3. ToSet(<<>>) = {}
    BY DEF ToSet
  <2> HIDE DEF users, t, P
  <2> QED BY <1>1, <2>1, <2>2, <2>3, EmptySeq DEF users
<1>4. CASE t \in TopicSet(m)
  <2> DEFINE routes == RouterOf(m)[t]
  <2>1. \A i \in DOMAIN routes : routes[i] \in RoutesOf(m)
    BY <1>4, RoutesOfTopic
  <2>2. users = FlattenSeq([i \in DOMAIN routes |-> IF routes[i] \in P THEN routes[i].outbox ELSE <<>>])
    BY <1>2, <1>4, <2>1 DEF RouteEntry, Routed
  <2> HIDE DEF users, t, P, routes
  <2>3. /\ users \in Seq(AllUsers)
        /\ ToSet(users) = UNION {ToSet(r.outbox) : r \in
                    {q \in ToSet(m.rule) : t \in ToSet(q.topics) /\ RouteOf(q) \in P}}
    BY <1>4, <2>2, OutboxesOfRoutes DEF routes
  <2>4. \A u : u \in ToSet(users) <=> \E r \in ToSet(m.rule) : EntryPasses(r, topic, entry) /\ u \in ToSet(r.outbox)
    BY <1>1, <2>3, Zenon
  <2> QED BY <2>3, <2>4 DEF users
<1> QED BY <1>3, <1>4

------------------------------------------------------------------------------
(* What arrives are entries that somebody serves.                            *)

Updates == [topic : Urls, feed : Seq(Entries), signer : SubIds \cup {NoId}]

ContentInv ==
    /\ subs \in [SubIds -> SUBSET Urls]
    /\ \A c \in calls : c.topic \in Urls /\ c.secret \in SubIds /\ c.kind \subseteq Kinds /\ c.body \in Served
    /\ fetching \subseteq Urls
    /\ channel \in Seq(Updates)

LEMMA MediaTypes == ASSUME NEW m PROVE MediaType(m) \subseteq Kinds
BY DEF MediaType, Kinds

LEMMA ParsedFrom ==
  ASSUME NEW d \in Served, NEW k \in Kinds, NEW f \in Parse(k, d)
  PROVE  f \in {AtomEntries(g) : g \in d.atom} \cup {RssEntries(g) : g \in d.rss}
<1>1. CASE k = "Atom"
  BY <1>1 DEF Parse
<1>2. CASE k = "Rss"
  BY <1>2 DEF Parse
<1>3. CASE k = "Xml"
  BY <1>3 DEF Parse, OrElse
<1> QED BY <1>1, <1>2, <1>3 DEF Kinds

LEMMA Parsed ==
  ASSUME NEW d \in Served, NEW k \in Kinds, NEW f \in Parse(k, d)
  PROVE  f \in Seq(Entries)
<1>1. ASSUME NEW e \in ToSet(f) PROVE e \in Entries
  <2>1. f \in ServedFeeds
    BY DEF ServedFeeds, Kinds
  <2> QED BY <2>1 DEF Entries
<1>2. f \in {AtomEntries(g) : g \in d.atom} \cup {RssEntries(g) : g \in d.rss}
  BY ParsedFrom
<1>3. PICK g \in d.atom \cup d.rss : f = AtomEntries(g) \/ f = RssEntries(g)
  BY <1>2
<1>4. Len(g.entries) \in Nat /\ DOMAIN g.entries = 1 .. Len(g.entries)
  BY <1>3, DocumentsAssumption DEF IsSequence
<1>5. DOMAIN f = 1 .. Len(g.entries) /\ f = [i \in 1 .. Len(g.entries) |-> f[i]]
  BY <1>3, <1>4 DEF AtomEntries, RssEntries
<1>6. \A i \in 1 .. Len(g.entries) : f[i] \in Entries
  BY <1>1, <1>5 DEF ToSet
<1> QED BY <1>4, <1>5, <1>6

LEMMA ContentInitInv == ContentInit => ContentInv
BY DEF ContentInit, ContentInv

LEMMA ContentStepInv == ContentInv /\ ContentNext => ContentInv'
<1> SUFFICES ASSUME ContentInv, ContentNext PROVE ContentInv'
  OBVIOUS
<1> USE DEF ContentInv
<1>1. ASSUME NEW i \in SubIds, RemoveSubscription(i) PROVE ContentInv'
  BY <1>1 DEF RemoveSubscription
<1>2. ASSUME NEW i \in SubIds, NEW url \in Urls, MakeSubscription(i, url) PROVE ContentInv'
  BY <1>2 DEF MakeSubscription
<1>3. ASSUME NEW req \in Requests, Call(req) PROVE ContentInv'
  <2>1. PICK i \in req.id, m \in req.mime, s \in req.signature : \E url \in subs[i] :
        calls' = calls \cup {[topic |-> url, secret |-> i, kind |-> MediaType(m),
                              signature |-> s, body |-> req.body]}
    BY <1>3 DEF Call
  <2>2. PICK url \in subs[i] :
        calls' = calls \cup {[topic |-> url, secret |-> i, kind |-> MediaType(m),
                              signature |-> s, body |-> req.body]}
    BY <2>1
  <2>3. i \in SubIds /\ url \in Urls
    BY <2>2, ContentAssumption
  <2>4. req.body \in Served /\ MediaType(m) \subseteq Kinds
    BY MediaTypes DEF Served
  <2> QED BY <1>3, <2>2, <2>3, <2>4 DEF Call
<1>4. ASSUME NEW call \in calls, BodyArrives(call) PROVE ContentInv'
  <2>1. ASSUME NEW f \in UNION {Parse(k, call.body) : k \in call.kind},
               channel' = Append(channel, Update(call.topic, f, call.signature.key)),
               Verifies(call)
        PROVE  channel' \in Seq(Updates)
    <3>1. f \in Seq(Entries)
      BY Parsed
    <3>2. Update(call.topic, f, call.signature.key) \in Updates
      BY <2>1, <3>1 DEF Update, Updates, Verifies
    <3> QED BY <2>1, <3>2
  <2> QED BY <1>4, <2>1 DEF BodyArrives
<1>5. ASSUME NEW call \in calls, BodyFails(call) PROVE ContentInv'
  BY <1>5 DEF BodyFails
<1>6. ASSUME NEW url \in fetching, FetchFails(url) PROVE ContentInv'
  BY <1>6 DEF FetchFails
<1>7. ASSUME NEW url \in fetching, NEW p \in Published, Fetched(url, p) PROVE ContentInv'
  <2> DEFINE kind == IF p.mime = {} THEN {"Xml"} ELSE UNION {MediaType(m) : m \in p.mime}
  <2>1. ASSUME NEW f \in UNION {Parse(k, Unhubbed(p.document)) : k \in kind},
               channel' = Append(channel, Update(url, f, NoId))
        PROVE  channel' \in Seq(Updates)
    <3>1. Unhubbed(p.document) \in Served /\ kind \subseteq Kinds
      BY MediaTypes DEF Served, Kinds
    <3>2. f \in Seq(Entries)
      BY <3>1, Parsed
    <3>3. Update(url, f, NoId) \in Updates
      BY <3>2 DEF Update, Updates
    <3> QED BY <2>1, <3>3
  <2> QED BY <1>7, <2>1 DEF Fetched
<1> QED BY <1>1, <1>2, <1>3, <1>4, <1>5, <1>6, <1>7 DEF ContentNext

------------------------------------------------------------------------------
(* The work in hand.                                                         *)

Works ==
    [kind : {"entry"}, topic : Urls, entry : Entries]
    \cup [kind : {"tweet"}, tweet : AllTweets, newest : BOOLEAN]

HandInv ==
    /\ todo \in Seq(Works) /\ outs \in Seq(AllUsers) /\ looked \in BOOLEAN
    /\ outs # <<>> => InHand("entry")
    /\ looked => InHand("tweet") /\ ~Known(Head(todo).tweet)

ProcessInv ==
    /\ main \in {"down", "serving", "resetting"} /\ manifest \in Manifests
    /\ subscriber \in BOOLEAN /\ list \in BOOLEAN

CountsInv == deliveries \in Nat /\ reloads \in Nat /\ faults \in Nat

LEMMA Single == ASSUME NEW S, NEW x \in S PROVE <<x>> \in Seq(S)
OBVIOUS

LEMMA FeedsAreWork == ASSUME NEW u \in Updates PROVE FeedWork(u) \in Seq(Works)
<1>1. u.feed \in Seq(Entries) /\ u.topic \in Urls
  BY DEF Updates
<1>2. \A i \in 1 .. Len(u.feed) : EntryWork(u.topic, u.feed[i]) \in Works
  BY <1>1 DEF EntryWork, Works
<1>3. FeedWork(u) = [i \in 1 .. Len(u.feed) |-> EntryWork(u.topic, u.feed[i])]
  BY <1>1 DEF FeedWork
<1> QED BY <1>1, <1>2, <1>3

LEMMA BatchesAreWork == ASSUME NEW b \in Seq(AllTweets) PROVE BatchWork(b) \in Seq(Works)
<1>1. \A i \in 1 .. Len(b) : Reverse(b)[i] \in AllTweets
  BY DEF Reverse
<1>2. \A i \in 1 .. Len(b) : TweetWork(Reverse(b)[i], i = Len(b)) \in Works
  BY <1>1 DEF TweetWork, Works
<1>3. BatchWork(b) = [i \in 1 .. Len(b) |-> TweetWork(Reverse(b)[i], i = Len(b))]
  BY DEF BatchWork
<1> QED BY <1>2, <1>3

LEMMA EntryInHand ==
  ASSUME HandInv, ProcessInv, InHand("entry")
  PROVE  /\ todo # <<>> /\ Tail(todo) \in Seq(Works) /\ Row(Head(todo)) \in Rows
         /\ RouteEntry(Router, Head(todo).topic, Head(todo).entry) \in Seq(AllUsers)
<1>1. todo # <<>> /\ Head(todo) \in Works /\ Tail(todo) \in Seq(Works)
  BY DEF HandInv, InHand
<1>2. Head(todo).topic \in Urls /\ Head(todo).entry \in Entries
  BY <1>1 DEF InHand, Works
<1>3. Row(Head(todo)) \in Rows
  BY <1>2 DEF Row, Rows, EntryWork
<1> QED BY <1>1, <1>3, EntryRoutes DEF ProcessInv, Router

LEMMA TweetInHand ==
  ASSUME HandInv, ProcessInv, InHand("tweet")
  PROVE  /\ todo # <<>> /\ Tail(todo) \in Seq(Works) /\ outs = <<>>
         /\ Head(todo).tweet \in AllTweets
         /\ RouteTweet(Router, Head(todo).tweet) \in Seq(AllUsers)
<1>1. todo # <<>> /\ Head(todo) \in Works /\ Tail(todo) \in Seq(Works)
  BY DEF HandInv, InHand
<1>2. Head(todo).tweet \in AllTweets
  BY <1>1 DEF InHand, Works
<1>3. outs = <<>>
  BY DEF HandInv, InHand
<1> QED BY <1>1, <1>2, <1>3, TweetRoutes DEF ProcessInv, Router

LEMMA SpawnHand ==
  ASSUME HandInv, ProcessInv, InHand("entry"),
         NEW outboxes \in Seq(AllUsers), outboxes # <<>>, SpawnPosts(outboxes)
  PROVE  HandInv'
<1>1. Tail(todo) \in Seq(Works) /\ Tail(outboxes) \in Seq(AllUsers)
  BY EntryInHand
<1>2. ~looked
  BY DEF HandInv, InHand
<1> QED BY <1>1, <1>2 DEF SpawnPosts, HandInv, InHand

LEMMA HandStepInv ==
  ContentInv /\ ProcessInv /\ HandInv /\ [Next]_vars => HandInv'
<1> SUFFICES ASSUME ContentInv, ProcessInv, HandInv, [Next]_vars PROVE HandInv'
  OBVIOUS
<1> USE DEF hand, tables, tasks
<1>1. ASSUME UNCHANGED <<hand, tweets>> PROVE HandInv'
  BY <1>1 DEF HandInv, InHand, Known
<1>2. ASSUME todo' \in Seq(Works), outs' = <<>>, looked' = FALSE PROVE HandInv'
  BY <1>2, EmptySeq DEF HandInv
<1>3. CASE Start \/ Reload \/ StreamEnds \/ Reset
  BY <1>1, <1>3 DEF Start, Reload, StreamEnds, Reset
<1>4. CASE Crash
  BY <1>2, <1>4, EmptySeq DEF Crash, Down
<1>5. CASE GiveUp
  BY <1>2, <1>5, EmptySeq DEF GiveUp, Down
<1>6. ASSUME NEW work \in Seq(Works), Deliver(work) PROVE HandInv'
  <2>1. outs = <<>> /\ looked = FALSE
    BY <1>6 DEF HandInv, InHand, Deliver
  <2> QED BY <1>2, <1>6, <2>1 DEF Deliver
<1>7. ASSUME NEW batch \in Batches, PollList(batch) PROVE HandInv'
  BY <1>6, <1>7, BatchesAreWork, SenderAssumption DEF PollList
<1>8. CASE PollWebSub
  <2>1. Head(channel) \in Updates
    BY <1>8 DEF PollWebSub, ContentInv
  <2> QED BY <1>6, <1>8, <2>1, FeedsAreWork DEF PollWebSub
<1>9. ASSUME NEW t \in AllTweets, PollStream(t) PROVE HandInv'
  <2>1. TweetWork(t, TRUE) \in Works
    BY DEF TweetWork, Works
  <2>2. <<TweetWork(t, TRUE)>> \in Seq(Works)
    BY <2>1, Single
  <2> QED BY <1>6, <1>9, <2>2 DEF PollStream
<1>10. CASE SkipEntry
  <2>1. ~looked
    BY <1>10 DEF SkipEntry, HandInv, InHand
  <2> QED BY <1>2, <1>10, <2>1, EntryInHand DEF SkipEntry, HandInv
<1>11. CASE SendEntry
  BY <1>11, EntryInHand, SpawnHand DEF SendEntry
<1>12. CASE SendNext
  BY <1>12, SpawnHand DEF SendNext, HandInv
<1>13. ASSUME NEW c \in Conns, PostAccepted(c) \/ PostRecorded(c) \/ PostFails(c) PROVE HandInv'
  BY <1>1, <1>13 DEF PostAccepted, PostRecorded, PostFails
<1>14. CASE SkipTweet
  BY <1>2, <1>14, TweetInHand DEF SkipTweet, HandInv
<1>15. CASE LookUpTweet
  BY <1>15, TweetInHand DEF LookUpTweet, HandInv, InHand, Known
<1>16. CASE PassOver \/ SendTweet
  BY <1>2, <1>16, TweetInHand DEF PassOver, SendTweet
<1>17. ASSUME NEW t \in showing, DuplicateShown(t) \/ DuplicateNotShown(t) PROVE HandInv'
  BY <1>1, <1>17 DEF DuplicateShown, DuplicateNotShown
<1>18. ASSUME NEW r \in retweets, RetweetAsked(r) \/ RetweetSettled(r) \/ RetweetFails(r)
       PROVE  HandInv'
  BY <1>1, <1>18 DEF RetweetAsked, RetweetSettled, RetweetFails
<1>19. CASE Subscriber
  BY <1>1, <1>19 DEF Subscriber
<1>20. CASE UNCHANGED vars
  BY <1>1, <1>20 DEF vars
<1> QED BY <1>3, <1>4, <1>5, <1>7, <1>8, <1>9, <1>10, <1>11, <1>12, <1>13, <1>14, <1>15, <1>16,
           <1>17, <1>18, <1>19, <1>20 DEF Next

LEMMA ProcessStepInv == ProcessInv /\ [Next]_vars => ProcessInv'
<1> SUFFICES ASSUME ProcessInv, [Next]_vars PROVE ProcessInv'
  OBVIOUS
<1> USE DEF ProcessInv
<1>1. ASSUME UNCHANGED <<main, manifest, subscriber, list>> PROVE ProcessInv'
  BY <1>1
<1>2. CASE Start \/ Reload
  BY <1>2 DEF Start, Reload
<1>3. CASE StreamEnds \/ Reset \/ Crash
  BY <1>3 DEF StreamEnds, Reset, Crash, Down
<1>4. CASE GiveUp
  BY <1>4 DEF GiveUp, Down
<1>5. CASE (\E batch \in Batches : PollList(batch)) \/ PollWebSub \/ \E t \in AllTweets : PollStream(t)
  BY <1>1, <1>5 DEF PollList, PollWebSub, PollStream, Deliver
<1>6. CASE SkipEntry \/ SendEntry \/ SendNext
  BY <1>1, <1>6 DEF SkipEntry, SendEntry, SendNext, SpawnPosts
<1>7. CASE \E c \in Conns : PostAccepted(c) \/ PostRecorded(c) \/ PostFails(c)
  BY <1>1, <1>7 DEF PostAccepted, PostRecorded, PostFails
<1>8. CASE SkipTweet \/ LookUpTweet \/ PassOver \/ SendTweet
  BY <1>1, <1>8 DEF SkipTweet, LookUpTweet, PassOver, SendTweet
<1>9. CASE \E t \in showing : DuplicateShown(t) \/ DuplicateNotShown(t)
  BY <1>1, <1>9 DEF DuplicateShown, DuplicateNotShown
<1>10. CASE \E r \in retweets : RetweetAsked(r) \/ RetweetSettled(r) \/ RetweetFails(r)
  BY <1>1, <1>10 DEF RetweetAsked, RetweetSettled, RetweetFails
<1>11. CASE Subscriber \/ UNCHANGED vars
  BY <1>1, <1>11 DEF Subscriber, vars
<1> QED BY <1>2, <1>3, <1>4, <1>5, <1>6, <1>7, <1>8, <1>9, <1>10, <1>11 DEF Next

LEMMA CountsStepInv == CountsInv /\ [Next]_vars => CountsInv'
<1> SUFFICES ASSUME CountsInv, [Next]_vars PROVE CountsInv'
  OBVIOUS
<1> USE DEF CountsInv, counts
<1>1. ASSUME UNCHANGED counts PROVE CountsInv'
  BY <1>1
<1>2. CASE Start \/ StreamEnds \/ Reset
  BY <1>1, <1>2 DEF Start, StreamEnds, Reset
<1>3. CASE Reload
  <2>1. reloads' = reloads + 1 /\ UNCHANGED <<deliveries, faults>>
    BY <1>3 DEF Reload
  <2> QED BY <2>1
<1>4. CASE Crash \/ GiveUp
  <2>1. faults' \in {faults, faults + 1} /\ UNCHANGED <<deliveries, reloads>>
    BY <1>4 DEF Crash, GiveUp, Down
  <2> QED BY <2>1
<1>5. CASE (\E batch \in Batches : PollList(batch)) \/ PollWebSub \/ \E t \in AllTweets : PollStream(t)
  <2>1. deliveries' = deliveries + 1 /\ UNCHANGED <<reloads, faults>>
    BY <1>5 DEF PollList, PollWebSub, PollStream, Deliver
  <2> QED BY <2>1
<1>6. CASE SkipEntry \/ SendEntry \/ SendNext
  BY <1>1, <1>6 DEF SkipEntry, SendEntry, SendNext, SpawnPosts
<1>7. CASE \E c \in Conns : PostAccepted(c) \/ PostRecorded(c) \/ PostFails(c)
  BY <1>1, <1>7 DEF PostAccepted, PostRecorded, PostFails
<1>8. CASE SkipTweet \/ LookUpTweet \/ PassOver \/ SendTweet
  BY <1>1, <1>8 DEF SkipTweet, LookUpTweet, PassOver, SendTweet
<1>9. CASE \E t \in showing : DuplicateShown(t) \/ DuplicateNotShown(t)
  BY <1>1, <1>9 DEF DuplicateShown, DuplicateNotShown
<1>10. CASE \E r \in retweets : RetweetAsked(r) \/ RetweetSettled(r) \/ RetweetFails(r)
  BY <1>1, <1>10 DEF RetweetAsked, RetweetSettled, RetweetFails
<1>11. CASE Subscriber \/ UNCHANGED vars
  BY <1>1, <1>11 DEF Subscriber, vars
<1> QED BY <1>2, <1>3, <1>4, <1>5, <1>6, <1>7, <1>8, <1>9, <1>10, <1>11 DEF Next

LEMMA ContentKept == ContentInv /\ [Next]_vars => ContentInv'
<1> SUFFICES ASSUME ContentInv, [Next]_vars PROVE ContentInv'
  OBVIOUS
<1>1. ASSUME UNCHANGED contentVars PROVE ContentInv'
  BY <1>1 DEF contentVars, ContentInv
<1>2. CASE Start \/ Reload
  BY <1>2 DEF Start, Reload, ContentInv
<1>3. CASE StreamEnds \/ Reset
  BY <1>1, <1>3 DEF StreamEnds, Reset
<1>4. CASE Crash \/ GiveUp
  <2>1. CASE Down
    BY <2>1 DEF Down, ContentInv
  <2> QED BY <1>1, <1>4, <2>1 DEF Crash, GiveUp
<1>5. CASE (\E batch \in Batches : PollList(batch)) \/ \E t \in AllTweets : PollStream(t)
  BY <1>1, <1>5 DEF PollList, PollStream, Deliver, contentVars
<1>6. CASE PollWebSub
  BY <1>6 DEF PollWebSub, Deliver, ContentInv
<1>7. CASE SkipEntry \/ SendEntry \/ SendNext
  BY <1>1, <1>7 DEF SkipEntry, SendEntry, SendNext, SpawnPosts
<1>8. CASE \E c \in Conns : PostAccepted(c) \/ PostRecorded(c) \/ PostFails(c)
  BY <1>1, <1>8 DEF PostAccepted, PostRecorded, PostFails
<1>9. CASE SkipTweet \/ LookUpTweet \/ PassOver \/ SendTweet
  BY <1>1, <1>9 DEF SkipTweet, LookUpTweet, PassOver, SendTweet
<1>10. CASE \E t \in showing : DuplicateShown(t) \/ DuplicateNotShown(t)
  BY <1>1, <1>10 DEF DuplicateShown, DuplicateNotShown
<1>11. CASE \E r \in retweets : RetweetAsked(r) \/ RetweetSettled(r) \/ RetweetFails(r)
  BY <1>1, <1>11 DEF RetweetAsked, RetweetSettled, RetweetFails
<1>12. CASE Subscriber
  BY <1>12, ContentStepInv DEF Subscriber
<1>13. CASE UNCHANGED vars
  BY <1>1, <1>13 DEF vars
<1> QED BY <1>2, <1>3, <1>4, <1>5, <1>6, <1>7, <1>8, <1>9, <1>10, <1>11, <1>12, <1>13 DEF Next

------------------------------------------------------------------------------
(* Posts.                                                                    *)

Posts == [row : Rows, user : AllUsers, phase : {"sent", "accepted"}]

\* A connection is held by one post at most, and what a task has seen accepted is history.
PostsInv ==
    /\ posts \in [Conns -> SUBSET Posts]
    /\ \A c \in Conns : \A p, q \in posts[c] : p = q
    /\ \A c \in Conns : \A p \in posts[c] : p.phase = "accepted" => Attempt(p.row, p.user) \in posted

\* A post in the hands of Twitter, and as it is when accepted.
LEMMA Accepted ==
  ASSUME PostsInv, NEW c \in Conns, PostAccepted(c)
  PROVE  \E p \in posts[c] :
            /\ p.phase = "sent" /\ p.row \in Rows /\ p.user \in AllUsers
            /\ posted' = posted \cup {Attempt(p.row, p.user)}
            /\ \E q \in Posts : /\ q.row = p.row /\ q.user = p.user /\ q.phase = "accepted"
                                /\ posts' = [posts EXCEPT ![c] = {q}]
<1>1. PICK p \in posts[c] :
        /\ p.phase = "sent"
        /\ posts' = [posts EXCEPT ![c] = {[p EXCEPT !.phase = "accepted"]}]
        /\ posted' = posted \cup {[key |-> KeyOf(p.row), user |-> p.user]}
  BY DEF PostAccepted
<1>2. p \in Posts
  BY DEF PostsInv
<1> DEFINE q == [p EXCEPT !.phase = "accepted"]
<1>3. q \in Posts /\ q.row = p.row /\ q.user = p.user /\ q.phase = "accepted"
  BY <1>2 DEF Posts
<1>4. p.row \in Rows /\ p.user \in AllUsers
  BY <1>2 DEF Posts
<1> QED BY <1>1, <1>3, <1>4 DEF Attempt

\* A connection that is free gets a post about the entry in hand.
LEMMA Spawned ==
  ASSUME PostsInv, NEW outboxes \in Seq(AllUsers), outboxes # <<>>, SpawnPosts(outboxes),
         Row(Head(todo)) \in Rows
  PROVE  \E c \in Conns, q \in Posts :
            /\ posts[c] = {} /\ posts' = [posts EXCEPT ![c] = {q}]
            /\ q.row = Row(Head(todo)) /\ q.user = Head(outboxes) /\ q.phase = "sent"
<1> DEFINE c == CHOOSE d \in Free : TRUE
           q == [row |-> Row(Head(todo)), user |-> Head(outboxes), phase |-> "sent"]
<1>1. c \in Free /\ posts' = [posts EXCEPT ![c] = {q}]
  BY DEF SpawnPosts
<1>2. c \in Conns /\ posts[c] = {}
  BY <1>1 DEF Free
<1>3. Head(outboxes) \in AllUsers
  BY HeadTailProperties
<1>4. q \in Posts
  BY <1>3 DEF Posts
<1> QED BY <1>1, <1>2, <1>4

LEMMA PostsStepInv == ProcessInv /\ HandInv /\ PostsInv /\ [Next]_vars => PostsInv'
<1> SUFFICES ASSUME ProcessInv, HandInv, PostsInv, [Next]_vars PROVE PostsInv'
  OBVIOUS
<1> USE DEF tasks, history
<1>1. ASSUME UNCHANGED <<posts, posted>> PROVE PostsInv'
  BY <1>1 DEF PostsInv, Attempt
<1>2. CASE Start \/ Reload \/ StreamEnds \/ Reset
  BY <1>1, <1>2 DEF Start, Reload, StreamEnds, Reset
<1>3. ASSUME Down PROVE PostsInv'
  BY <1>3 DEF Down, PostsInv
<1>4. CASE Crash \/ GiveUp
  BY <1>1, <1>3, <1>4 DEF Crash, GiveUp
<1>5. CASE (\E batch \in Batches : PollList(batch)) \/ PollWebSub \/ \E t \in AllTweets : PollStream(t)
  BY <1>1, <1>5 DEF PollList, PollWebSub, PollStream, Deliver
<1>6. CASE SkipEntry
  BY <1>1, <1>6 DEF SkipEntry
<1>7. ASSUME NEW outboxes \in Seq(AllUsers), outboxes # <<>>, SpawnPosts(outboxes), InHand("entry")
      PROVE  PostsInv'
  <2>1. PICK c \in Conns, q \in Posts :
            posts[c] = {} /\ posts' = [posts EXCEPT ![c] = {q}] /\ q.phase = "sent"
    BY <1>7, Spawned, EntryInHand
  <2>2. posted' = posted
    BY <1>7 DEF SpawnPosts
  <2> QED BY <2>1, <2>2 DEF PostsInv, Attempt
<1>8. CASE SendEntry
  BY <1>7, <1>8, EntryInHand DEF SendEntry
<1>9. CASE SendNext
  BY <1>7, <1>9 DEF SendNext, HandInv
<1>10. ASSUME NEW c \in Conns, PostAccepted(c) PROVE PostsInv'
  <2>1. PICK p \in posts[c], q \in Posts :
            /\ posted' = posted \cup {Attempt(p.row, p.user)}
            /\ q.row = p.row /\ q.user = p.user /\ posts' = [posts EXCEPT ![c] = {q}]
    BY <1>10, Accepted
  <2> QED BY <2>1 DEF PostsInv, Attempt
<1>11. ASSUME NEW c \in Conns, PostRecorded(c) \/ PostFails(c) PROVE PostsInv'
  <2>1. posts' = [posts EXCEPT ![c] = {}] /\ posted' = posted
    BY <1>11 DEF PostRecorded, PostFails
  <2> QED BY <2>1 DEF PostsInv, Attempt
<1>12. CASE SkipTweet \/ LookUpTweet \/ PassOver \/ SendTweet
  BY <1>1, <1>12 DEF SkipTweet, LookUpTweet, PassOver, SendTweet
<1>13. CASE \E t \in showing : DuplicateShown(t) \/ DuplicateNotShown(t)
  BY <1>1, <1>13 DEF DuplicateShown, DuplicateNotShown
<1>14. CASE \E r \in retweets : RetweetAsked(r) \/ RetweetSettled(r) \/ RetweetFails(r)
  BY <1>1, <1>14 DEF RetweetAsked, RetweetSettled, RetweetFails
<1>15. CASE Subscriber \/ UNCHANGED vars
  BY <1>1, <1>15 DEF Subscriber, vars
<1> QED BY <1>2, <1>4, <1>5, <1>6, <1>8, <1>9, <1>10, <1>11, <1>12, <1>13, <1>14, <1>15 DEF Next

------------------------------------------------------------------------------
(* Retweets.                                                                 *)

Jobs == [tweet : AllTweets, n : Nat, user : AllUsers]

\* The requests are told apart by their jobs, and only those that were answered have been
\* asked for.
RetweetsInv ==
    /\ tweets \subseteq AllTweets /\ showing \subseteq tweets
    /\ retweets \subseteq [tweet : AllTweets, n : Nat, user : AllUsers, phase : {"held", "sent", "answered"}]
    /\ \A r \in retweets : r.tweet \in tweets /\ Job(r) \in jobs /\ (r.phase = "answered" => Job(r) \in asked)
    /\ \A r, q \in retweets : r.tweet = q.tweet /\ r.n = q.n => r = q
    /\ \A r \in retweets : r.tweet \in showing => r.phase = "held"

JobsInv ==
    /\ jobs \subseteq Jobs /\ asked \subseteq jobs
    /\ \A j \in jobs : j.tweet \in tweets
    /\ ongoing \subseteq [tweet : AllTweets, user : AllUsers]
    /\ UnaskedIsOngoing

\* What the transaction of `retweet` leaves behind.
LEMMA Due ==
  ASSUME HandInv, ProcessInv, SendTweet
  PROVE  \E outboxes \in Seq(AllUsers), phase \in {"held", "sent"} :
            LET tweet == Head(todo).tweet
                due == {Retweet(tweet, n, outboxes[n], phase) : n \in DOMAIN outboxes}
            IN  /\ outboxes = RouteTweet(Router, tweet) /\ (phase = "held" => outboxes # <<>>)
                /\ tweet \in AllTweets \ tweets
                /\ tweets' = tweets \cup {tweet}
                /\ ongoing' = ongoing \cup {[tweet |-> tweet, user |-> u] : u \in ToSet(outboxes)}
                /\ retweets' = retweets \cup due
                /\ jobs' = jobs \cup {Job(r) : r \in due}
                /\ showing' = IF phase = "held" THEN showing \cup {tweet} ELSE showing
                /\ UNCHANGED <<outs, posts, posted, asked, entries>> /\ outs = <<>>
<1> DEFINE tweet == Head(todo).tweet
           outboxes == RouteTweet(Router, tweet)
           duplicate == manifest.skip_duplicate /\ Duplicates(tweet) # {}
           phase == IF duplicate THEN "held" ELSE "sent"
<1>1. InHand("tweet") /\ looked
  BY DEF SendTweet
<1>2. tweet \in AllTweets /\ outs = <<>> /\ outboxes \in Seq(AllUsers)
  BY <1>1, TweetInHand
<1>3. tweet \notin tweets
  BY <1>1 DEF HandInv, Known
<1>4. phase \in {"held", "sent"}
  OBVIOUS
<1>5. /\ tweets' = tweets \cup {tweet}
      /\ ongoing' = ongoing \cup {[tweet |-> tweet, user |-> u] : u \in ToSet(outboxes)}
      /\ retweets' = retweets \cup {Retweet(tweet, n, outboxes[n], phase) : n \in DOMAIN outboxes}
      /\ jobs' = jobs \cup {Job(r) : r \in {Retweet(tweet, n, outboxes[n], phase) : n \in DOMAIN outboxes}}
      /\ showing' = IF duplicate THEN showing \cup {tweet} ELSE showing
      /\ UNCHANGED <<outs, posts, posted, asked, entries>>
  BY Zenon DEF SendTweet, Recorded
<1>6. showing' = IF phase = "held" THEN showing \cup {tweet} ELSE showing
  BY <1>5
<1>7. outboxes = RouteTweet(Router, tweet)
  OBVIOUS
<1>8. phase = "held" => outboxes # <<>>
  BY DEF SendTweet
<1> HIDE DEF tweet, outboxes, phase, duplicate
<1> QED BY <1>2, <1>3, <1>4, <1>5, <1>6, <1>7, <1>8, Zenon DEF tweet

LEMMA RetweetsStepInv ==
  ProcessInv /\ HandInv /\ RetweetsInv /\ [Next]_vars => RetweetsInv'
<1> SUFFICES ASSUME ProcessInv, HandInv, RetweetsInv, [Next]_vars PROVE RetweetsInv'
  OBVIOUS
<1> USE DEF tables, tasks, history
<1>1. ASSUME UNCHANGED <<tweets, showing, retweets, jobs, asked>> PROVE RetweetsInv'
  BY <1>1 DEF RetweetsInv, Job
<1>2. CASE Start \/ Reload \/ StreamEnds \/ Reset
  BY <1>1, <1>2 DEF Start, Reload, StreamEnds, Reset
<1>3. ASSUME Down PROVE RetweetsInv'
  BY <1>3 DEF Down, RetweetsInv
<1>4. CASE Crash \/ GiveUp
  BY <1>1, <1>3, <1>4 DEF Crash, GiveUp
<1>5. CASE (\E batch \in Batches : PollList(batch)) \/ PollWebSub \/ \E t \in AllTweets : PollStream(t)
  BY <1>1, <1>5 DEF PollList, PollWebSub, PollStream, Deliver
<1>6. CASE SkipEntry \/ SendEntry \/ SendNext
  BY <1>1, <1>6 DEF SkipEntry, SendEntry, SendNext, SpawnPosts
<1>7. CASE \E c \in Conns : PostAccepted(c) \/ PostRecorded(c) \/ PostFails(c)
  BY <1>1, <1>7 DEF PostAccepted, PostRecorded, PostFails
<1>8. CASE SkipTweet \/ LookUpTweet \/ PassOver
  BY <1>1, <1>8 DEF SkipTweet, LookUpTweet, PassOver
<1>9. CASE SendTweet
  <2> DEFINE tweet == Head(todo).tweet
  <2>1. PICK outboxes \in Seq(AllUsers), phase \in {"held", "sent"} :
            LET due == {Retweet(tweet, n, outboxes[n], phase) : n \in DOMAIN outboxes}
            IN  /\ tweet \in AllTweets \ tweets
                /\ tweets' = tweets \cup {tweet}
                /\ retweets' = retweets \cup due
                /\ jobs' = jobs \cup {Job(r) : r \in due}
                /\ showing' = IF phase = "held" THEN showing \cup {tweet} ELSE showing
                /\ asked' = asked
    BY <1>9, Due
  <2> DEFINE due == {Retweet(tweet, n, outboxes[n], phase) : n \in DOMAIN outboxes}
  <2>2. \A r \in due :
            /\ r \in [tweet : AllTweets, n : Nat, user : AllUsers, phase : {"held", "sent", "answered"}]
            /\ r.tweet = tweet /\ r.phase = phase /\ r.user = outboxes[r.n]
            /\ r = Retweet(tweet, r.n, outboxes[r.n], phase)
    BY <2>1 DEF Retweet
  <2>3. tweet \in AllTweets \ tweets /\ tweets' = tweets \cup {tweet} /\ retweets' = retweets \cup due
        /\ jobs' = jobs \cup {Job(r) : r \in due} /\ asked' = asked
        /\ showing' = IF phase = "held" THEN showing \cup {tweet} ELSE showing
    BY <2>1
  <2> HIDE DEF tweet, due
  <2>4. \A r, q \in retweets' : r.tweet = q.tweet /\ r.n = q.n => r = q
    BY <2>2, <2>3 DEF RetweetsInv
  <2>5. \A r \in retweets' : r.tweet \in showing' => r.phase = "held"
    BY <2>2, <2>3 DEF RetweetsInv
  <2> QED BY <2>2, <2>3, <2>4, <2>5 DEF RetweetsInv
<1>10. ASSUME NEW t \in showing, DuplicateShown(t) PROVE RetweetsInv'
  BY <1>10 DEF DuplicateShown, RetweetsInv
<1>11. ASSUME NEW t \in showing, DuplicateNotShown(t) PROVE RetweetsInv'
  <2> DEFINE Sent(r) == IF r.tweet = t THEN [r EXCEPT !.phase = "sent"] ELSE r
  <2>1. retweets' = {Sent(r) : r \in retweets} /\ showing' = showing \ {t}
        /\ UNCHANGED <<tweets, jobs, asked>>
    BY <1>11 DEF DuplicateNotShown
  <2>2. \A r \in retweets :
            /\ Sent(r) \in [tweet : AllTweets, n : Nat, user : AllUsers, phase : {"held", "sent", "answered"}]
            /\ Sent(r).tweet = r.tweet /\ Sent(r).n = r.n /\ Sent(r).user = r.user
            /\ Sent(r).phase = IF r.tweet = t THEN "sent" ELSE r.phase
    BY DEF RetweetsInv
  <2> HIDE DEF Sent
  <2> QED BY <2>1, <2>2 DEF RetweetsInv, Job
<1>12. ASSUME NEW r \in retweets, RetweetAsked(r) PROVE RetweetsInv'
  <2> DEFINE q == [r EXCEPT !.phase = "answered"]
  <2>1. retweets' = (retweets \ {r}) \cup {q} /\ asked' = asked \cup {Job(r)}
        /\ UNCHANGED <<tweets, showing, jobs>> /\ r.phase = "sent"
    BY <1>12 DEF RetweetAsked
  <2>2. /\ q \in [tweet : AllTweets, n : Nat, user : AllUsers, phase : {"held", "sent", "answered"}]
        /\ q.tweet = r.tweet /\ q.n = r.n /\ q.user = r.user /\ Job(q) = Job(r)
    BY DEF RetweetsInv, Job
  <2> HIDE DEF q
  <2> QED BY <2>1, <2>2 DEF RetweetsInv
<1>13. ASSUME NEW r \in retweets, RetweetSettled(r) \/ RetweetFails(r) PROVE RetweetsInv'
  <2>1. retweets' = retweets \ {r} /\ UNCHANGED <<tweets, showing, jobs, asked>>
    BY <1>13 DEF RetweetSettled, RetweetFails
  <2> QED BY <2>1 DEF RetweetsInv
<1>14. CASE Subscriber \/ UNCHANGED vars
  BY <1>1, <1>14 DEF Subscriber, vars
<1> QED BY <1>2, <1>4, <1>5, <1>6, <1>7, <1>8, <1>9, <1>10, <1>11, <1>12, <1>13, <1>14 DEF Next

LEMMA JobsStepInv ==
  ProcessInv /\ HandInv /\ RetweetsInv /\ JobsInv /\ [Next]_vars => JobsInv'
<1> SUFFICES ASSUME ProcessInv, HandInv, RetweetsInv, JobsInv, [Next]_vars PROVE JobsInv'
  OBVIOUS
<1> USE DEF tables, tasks, history
<1>1. ASSUME UNCHANGED <<tweets, ongoing, jobs, asked>> PROVE JobsInv'
  BY <1>1 DEF JobsInv, UnaskedIsOngoing
<1>2. CASE Start \/ Reload \/ StreamEnds \/ Reset \/ Crash \/ GiveUp
  BY <1>1, <1>2 DEF Start, Reload, StreamEnds, Reset, Crash, GiveUp, Down
<1>3. CASE (\E batch \in Batches : PollList(batch)) \/ PollWebSub \/ \E t \in AllTweets : PollStream(t)
  BY <1>1, <1>3 DEF PollList, PollWebSub, PollStream, Deliver
<1>4. CASE SkipEntry \/ SendEntry \/ SendNext
  BY <1>1, <1>4 DEF SkipEntry, SendEntry, SendNext, SpawnPosts
<1>5. CASE \E c \in Conns : PostAccepted(c) \/ PostRecorded(c) \/ PostFails(c)
  BY <1>1, <1>5 DEF PostAccepted, PostRecorded, PostFails
<1>6. CASE SkipTweet \/ LookUpTweet \/ PassOver
  BY <1>1, <1>6 DEF SkipTweet, LookUpTweet, PassOver
<1>7. CASE SendTweet
  <2> DEFINE tweet == Head(todo).tweet
  <2>1. PICK outboxes \in Seq(AllUsers), phase \in {"held", "sent"} :
            LET due == {Retweet(tweet, n, outboxes[n], phase) : n \in DOMAIN outboxes}
            IN  /\ tweet \in AllTweets
                /\ tweets' = tweets \cup {tweet}
                /\ ongoing' = ongoing \cup {[tweet |-> tweet, user |-> u] : u \in ToSet(outboxes)}
                /\ jobs' = jobs \cup {Job(r) : r \in due}
                /\ asked' = asked
    BY <1>7, Due
  <2> DEFINE new == {Job(r) : r \in {Retweet(tweet, n, outboxes[n], phase) : n \in DOMAIN outboxes}}
             rows == {[tweet |-> tweet, user |-> u] : u \in ToSet(outboxes)}
  <2>2. ASSUME NEW j \in new PROVE j \in Jobs /\ j.tweet = tweet /\ [tweet |-> j.tweet, user |-> j.user] \in rows
    <3>1. PICK n \in DOMAIN outboxes : j = [tweet |-> tweet, n |-> n, user |-> outboxes[n]]
      BY DEF Retweet, Job
    <3>2. n \in Nat /\ outboxes[n] \in AllUsers /\ outboxes[n] \in ToSet(outboxes)
      BY DEF ToSet
    <3> HIDE DEF tweet
    <3> QED BY <2>1, <3>1, <3>2 DEF Jobs, tweet
  <2>3. rows \subseteq [tweet : AllTweets, user : AllUsers]
    BY <2>1 DEF ToSet
  <2>4. ongoing' = ongoing \cup rows /\ jobs' = jobs \cup new /\ asked' = asked
        /\ tweets' = tweets \cup {tweet}
    BY <2>1
  <2> HIDE DEF tweet, new, rows
  <2> QED BY <2>2, <2>3, <2>4 DEF JobsInv, UnaskedIsOngoing
<1>8. CASE \E t \in showing : DuplicateShown(t) \/ DuplicateNotShown(t)
  BY <1>1, <1>8 DEF DuplicateShown, DuplicateNotShown
<1>9. ASSUME NEW r \in retweets, RetweetAsked(r) PROVE JobsInv'
  <2>1. asked' = asked \cup {Job(r)} /\ UNCHANGED <<tweets, ongoing, jobs>>
    BY <1>9 DEF RetweetAsked
  <2>2. Job(r) \in jobs
    BY DEF RetweetsInv
  <2> QED BY <2>1, <2>2 DEF JobsInv, UnaskedIsOngoing
<1>10. ASSUME NEW r \in retweets, RetweetSettled(r) PROVE JobsInv'
  <2>1. Job(r) \in asked /\ Job(r).tweet = r.tweet /\ Job(r).user = r.user
    BY <1>10 DEF RetweetSettled, RetweetsInv, Job
  <2>2. ongoing' = ongoing \ {[tweet |-> r.tweet, user |-> r.user]} /\ UNCHANGED <<tweets, jobs, asked>>
    BY <1>10 DEF RetweetSettled
  <2> QED BY <2>1, <2>2 DEF JobsInv, UnaskedIsOngoing
<1>11. ASSUME NEW r \in retweets, RetweetFails(r) PROVE JobsInv'
  BY <1>1, <1>11 DEF RetweetFails
<1>12. CASE Subscriber \/ UNCHANGED vars
  BY <1>1, <1>12 DEF Subscriber, vars
<1> QED BY <1>2, <1>3, <1>4, <1>5, <1>6, <1>7, <1>8, <1>9, <1>10, <1>11, <1>12 DEF Next

------------------------------------------------------------------------------
(* The invariant.                                                            *)

Inv ==
    /\ ContentInv /\ ProcessInv /\ HandInv
    /\ PostsInv /\ RetweetsInv /\ JobsInv

LEMMA InitInv == Init => Inv
<1> SUFFICES ASSUME Init PROVE Inv
  OBVIOUS
<1>1. ContentInv
  BY ContentInitInv DEF Init
<1>2. ProcessInv
  BY DEF Init, ProcessInv
<1>3. HandInv
  BY EmptySeq DEF Init, HandInv
<1>4. PostsInv
  BY DEF Init, PostsInv
<1>5. RetweetsInv /\ JobsInv
  BY DEF Init, RetweetsInv, JobsInv, UnaskedIsOngoing
<1> QED BY <1>1, <1>2, <1>3, <1>4, <1>5 DEF Inv

LEMMA StepInv == Inv /\ [Next]_vars => Inv'
BY ContentKept, ProcessStepInv, HandStepInv, PostsStepInv, RetweetsStepInv, JobsStepInv DEF Inv

LEMMA Invariant == Spec => []Inv
BY InitInv, StepInv, PTL DEF Spec

\* Whatever crashes and fails, a retweet that Twitter has not been asked for leaves its row
\* behind.
THEOREM UnaskedLeavesTrace == Spec => []UnaskedIsOngoing
<1>1. Inv => UnaskedIsOngoing
  BY DEF Inv, JobsInv
<1> QED BY <1>1, Invariant, PTL

------------------------------------------------------------------------------
(* The sender implements Broadcast.                                          *)

Flying == {Attempt(p.row, p.user) : p \in {q \in UNION {posts[c] : c \in Conns} : q.phase = "sent"}}
Waiting == {Attempt(Row(Head(todo)), u) : u \in ToSet(outs)}
Keyed == {KeyOf(r) : r \in entries}

Promised == Promise!BroadcastNext \/ UNCHANGED Promise!broadcastVars

LEMMA InFlight ==
  \A a : a \in Flying <=> \E c \in Conns : \E p \in posts[c] :
                              p.phase = "sent" /\ a = Attempt(p.row, p.user)
BY DEF Flying

LEMMA NoneWaiting == ASSUME outs = <<>> PROVE Waiting = {} /\ Trying = Flying
BY DEF Waiting, Trying, Flying, ToSet

LEMMA TryingIs == Trying = Flying \cup Waiting
BY DEF Trying, Flying, Waiting

LEMMA Stutters ==
  ASSUME Trying' = Trying, Pending' = Pending, UNCHANGED <<posted, entries, tweets, asked>>
  PROVE  Promised
BY DEF Promised, Promise!broadcastVars, Promise!entryVars, Promise!tweetVars

LEMMA Loses ==
  ASSUME Trying' \subseteq Trying, Pending' \subseteq Pending,
         UNCHANGED <<posted, entries, tweets, asked>>
  PROVE  Promised
BY DEF Promised, Promise!BroadcastNext, Promise!Lose

\* Whoever has nothing to post leaves it all as it is.
LEMMA Idle ==
  ASSUME UNCHANGED <<posts, retweets, posted, entries, tweets, asked>>,
         UNCHANGED <<todo, outs>> \/ (outs = <<>> /\ outs' = <<>>)
  PROVE  Promised
<1>1. Trying' = Trying
  BY DEF Trying, ToSet, Attempt, Row, KeyOf
<1>2. Pending' = Pending
  BY DEF Pending, Job
<1> QED BY <1>1, <1>2, Stutters

LEMMA UnprocessedIsNew ==
  ASSUME NEW work, work.entry.link # {}, ~Processed(work)
  PROVE  KeyOf(Row(work)) \notin Keyed
<1> SUFFICES ASSUME NEW r \in entries, KeyOf(r) = KeyOf(Row(work)) PROVE FALSE
  BY DEF Keyed
<1>1. r.link # work.entry.link /\ ~SameKey(r, Row(work))
  BY DEF Processed
<1>2. /\ Row(work).topic = work.topic /\ Row(work).id = work.entry.id
      /\ Row(work).link = work.entry.link
  BY DEF Row
<1>3. \A x, y, z : [link |-> x] # [topic |-> y, id |-> z]
  <2> SUFFICES ASSUME NEW x, NEW y, NEW z, [link |-> x] = [topic |-> y, id |-> z] PROVE FALSE
    OBVIOUS
  <2>1. DOMAIN [link |-> x] = {"link"} /\ DOMAIN [topic |-> y, id |-> z] = {"topic", "id"}
    OBVIOUS
  <2> QED BY <2>1
<1>4. CASE r.id = {} /\ Row(work).id = {}
  <2>1. [link |-> r.link] = [link |-> Row(work).link]
    BY <1>4 DEF KeyOf
  <2> QED BY <1>1, <1>2, <2>1
<1>5. CASE r.id # {} /\ Row(work).id # {}
  <2>1. [topic |-> r.topic, id |-> r.id] = [topic |-> Row(work).topic, id |-> Row(work).id]
    BY <1>5 DEF KeyOf
  <2> QED BY <1>1, <1>5, <2>1 DEF SameKey
<1>6. CASE r.id = {} /\ Row(work).id # {}
  BY <1>3, <1>6 DEF KeyOf
<1>7. CASE r.id # {} /\ Row(work).id = {}
  <2>1. [link |-> Row(work).link] = [topic |-> r.topic, id |-> r.id]
    BY <1>7 DEF KeyOf
  <2> QED BY <1>3, <2>1
<1> QED BY <1>4, <1>5, <1>6, <1>7

LEMMA ReplaceKeepsKeys ==
  ASSUME NEW row, entries' = ReplaceInto(row) PROVE Keyed' = Keyed \cup {KeyOf(row)}
<1>1. \A r \in entries : SameKey(r, row) => KeyOf(r) = KeyOf(row)
  BY DEF SameKey, KeyOf
<1>2. entries' = {r \in entries : ~SameKey(r, row)} \cup {row}
  BY DEF ReplaceInto
<1>3. \A k : k \in Keyed' <=> \E r \in entries' : k = KeyOf(r)
  BY DEF Keyed, KeyOf
<1>4. \A k : k \in Keyed <=> \E r \in entries : k = KeyOf(r)
  BY DEF Keyed
<1> QED BY <1>1, <1>2, <1>3, <1>4

LEMMA HeadAndTail ==
  ASSUME NEW S, NEW s \in Seq(S), s # <<>>
  PROVE  ToSet(s) = {Head(s)} \cup ToSet(Tail(s))
<1>1. Len(s) \in Nat /\ Len(s) > 0 /\ DOMAIN s = 1 .. Len(s)
  BY EmptySeq, LenProperties
<1>2. Len(Tail(s)) = Len(s) - 1 /\ DOMAIN Tail(s) = 1 .. Len(s) - 1
  BY HeadTailProperties, LenProperties
<1>3. Head(s) = s[1] /\ \A i \in 1 .. Len(s) - 1 : Tail(s)[i] = s[i + 1]
  BY HeadTailProperties
<1>4. \A i \in 1 .. Len(s) : i = 1 \/ i - 1 \in 1 .. Len(s) - 1
  BY <1>1
<1>5. ASSUME NEW x \in ToSet(s) PROVE x \in {Head(s)} \cup ToSet(Tail(s))
  <2>1. PICK i \in 1 .. Len(s) : x = s[i]
    BY <1>1 DEF ToSet
  <2>2. CASE i = 1
    BY <2>1, <2>2, <1>3
  <2>3. CASE i # 1
    <3>1. i - 1 \in 1 .. Len(s) - 1 /\ (i - 1) + 1 = i
      BY <1>1, <2>3
    <3>2. Tail(s)[i - 1] = x
      BY <1>3, <2>1, <3>1
    <3> QED BY <1>2, <3>1, <3>2 DEF ToSet
  <2> QED BY <2>2, <2>3
<1>6. ASSUME NEW x \in {Head(s)} \cup ToSet(Tail(s)) PROVE x \in ToSet(s)
  <2>1. CASE x = Head(s)
    BY <1>1, <1>3, <2>1 DEF ToSet
  <2>2. CASE x \in ToSet(Tail(s))
    <3>1. PICK i \in 1 .. Len(s) - 1 : x = Tail(s)[i]
      BY <1>2, <2>2 DEF ToSet
    <3>2. i + 1 \in 1 .. Len(s) /\ x = s[i + 1]
      BY <1>1, <1>3, <3>1
    <3> QED BY <1>1, <3>2 DEF ToSet
  <2> QED BY <2>1, <2>2
<1> QED BY <1>5, <1>6

\* What a post adds to those in flight.
LEMMA FlyingAfterSpawn ==
  ASSUME PostsInv, NEW c \in Conns, NEW q \in Posts, posts[c] = {},
         posts' = [posts EXCEPT ![c] = {q}], q.phase = "sent"
  PROVE  Flying' = Flying \cup {Attempt(q.row, q.user)}
<1>1. \A d \in Conns : posts'[d] = IF d = c THEN {q} ELSE posts[d]
  BY DEF PostsInv
<1>2. \A a : a \in Flying' <=> \E d \in Conns : \E p \in posts'[d] :
                                  p.phase = "sent" /\ a = Attempt(p.row, p.user)
  BY DEF Flying, Attempt, KeyOf
<1> QED BY <1>1, <1>2, InFlight

\* Posts that end, or are accepted, are no longer in flight.
LEMMA FlyingAfterEnd ==
  ASSUME NEW c \in Conns, \A d \in Conns \ {c} : posts'[d] = posts[d],
         \A q \in posts'[c] : q.phase # "sent"
  PROVE  /\ Flying' \subseteq Flying
         /\ \A a \in Flying \ Flying' : \E p \in posts[c] : p.phase = "sent" /\ a = Attempt(p.row, p.user)
<1>1. \A a : a \in Flying' <=> \E d \in Conns : \E p \in posts'[d] :
                                  p.phase = "sent" /\ a = Attempt(p.row, p.user)
  BY DEF Flying, Attempt, KeyOf
<1> QED BY <1>1, InFlight

LEMMA SendEntrySimulated == ASSUME Inv, SendEntry PROVE Promised
<1> DEFINE work == Head(todo)
           outboxes == RouteEntry(Router, work.topic, work.entry)
           k == KeyOf(Row(work))
<1>1. InHand("entry") /\ outs = <<>> /\ work.entry.link # {} /\ ~Processed(work)
      /\ outboxes # <<>> /\ SpawnPosts(outboxes)
  BY DEF SendEntry
<1>2. outboxes \in Seq(AllUsers) /\ Row(work) \in Rows
  BY <1>1, EntryInHand DEF Inv
<1>3. PICK c \in Conns, q \in Posts :
        /\ posts[c] = {} /\ posts' = [posts EXCEPT ![c] = {q}]
        /\ q.row = Row(work) /\ q.user = Head(outboxes) /\ q.phase = "sent"
  BY <1>1, <1>2, Spawned DEF Inv
<1>4. Flying' = Flying \cup {Attempt(q.row, q.user)}
  BY <1>3, FlyingAfterSpawn DEF Inv
<1>5. outs' = <<>> \/ todo' = todo
  BY <1>1 DEF SpawnPosts
<1>6. \A a \in Waiting' : a.key = k
  <2>1. CASE outs' = <<>>
    BY <2>1 DEF Waiting, ToSet
  <2>2. CASE todo' = todo
    BY <2>2 DEF Waiting, Attempt, KeyOf, Row
  <2> QED BY <1>5, <2>1, <2>2
<1>7. Attempt(q.row, q.user).key = k
  BY <1>3 DEF Attempt
<1>8. Trying = Flying /\ Trying' = Flying' \cup Waiting'
  BY <1>1, NoneWaiting, TryingIs DEF Trying, Flying, Waiting
<1>9. k \notin Keyed /\ k \in {KeyOf(r) : r \in Rows}
  BY <1>1, <1>2, UnprocessedIsNew
<1>10. Pending' = Pending /\ UNCHANGED <<posted, entries, tweets, asked>>
  BY <1>1 DEF SpawnPosts, Pending, Job, history, tables
<1> HIDE DEF k
<1>11. Trying \subseteq Trying' /\ \A a \in Trying' \ Trying : a.key = k
  BY <1>4, <1>6, <1>7, <1>8
<1>12. Promise!Try(k)
  BY <1>9, <1>10, <1>11 DEF Promise!Try, Promise!tweetVars, Keyed
<1> QED BY <1>9, <1>12 DEF Promised, Promise!BroadcastNext

LEMMA SendNextSimulated == ASSUME Inv, SendNext PROVE Promised
<1>1. InHand("entry") /\ outs # <<>> /\ SpawnPosts(outs) /\ outs \in Seq(AllUsers)
  BY DEF SendNext, Inv, HandInv
<1>2. PICK c \in Conns, q \in Posts :
        /\ posts[c] = {} /\ posts' = [posts EXCEPT ![c] = {q}]
        /\ q.row = Row(Head(todo)) /\ q.user = Head(outs) /\ q.phase = "sent"
  BY <1>1, EntryInHand, Spawned DEF Inv
<1>3. Flying' = Flying \cup {Attempt(Row(Head(todo)), Head(outs))}
  BY <1>2, FlyingAfterSpawn DEF Inv
<1>4. Waiting = {Attempt(Row(Head(todo)), Head(outs))}
                \cup {Attempt(Row(Head(todo)), u) : u \in ToSet(Tail(outs))}
  BY <1>1, HeadAndTail DEF Waiting
<1>5. outs' = Tail(outs) /\ (outs' = <<>> \/ todo' = todo)
  BY <1>1 DEF SpawnPosts
<1>6. Waiting' = {Attempt(Row(Head(todo)), u) : u \in ToSet(Tail(outs))}
  <2>1. CASE Tail(outs) = <<>>
    BY <1>5, <2>1 DEF Waiting, ToSet
  <2>2. CASE todo' = todo
    BY <1>5, <2>2 DEF Waiting, Attempt, KeyOf, Row
  <2> QED BY <1>5, <2>1, <2>2
<1>7. Trying' = Trying
  BY <1>3, <1>4, <1>6, TryingIs DEF Trying, Flying, Waiting
<1>8. Pending' = Pending /\ UNCHANGED <<posted, entries, tweets, asked>>
  BY <1>1 DEF SpawnPosts, Pending, Job, history, tables
<1> QED BY <1>7, <1>8, Stutters

LEMMA PostAcceptedSimulated ==
  ASSUME Inv, NEW c \in Conns, PostAccepted(c) PROVE Promised
<1>1. PICK p \in posts[c], q \in Posts :
        /\ p.phase = "sent" /\ q.phase = "accepted"
        /\ posted' = posted \cup {Attempt(p.row, p.user)} /\ posts' = [posts EXCEPT ![c] = {q}]
  BY Accepted DEF Inv
<1> DEFINE a == Attempt(p.row, p.user)
<1>2. a \in Flying
  BY <1>1, InFlight
<1>3. /\ Flying' \subseteq Flying
      /\ \A b \in Flying \ Flying' : \E r \in posts[c] : r.phase = "sent" /\ b = Attempt(r.row, r.user)
  <2>1. posts'[c] = {q} /\ \A d \in Conns \ {c} : posts'[d] = posts[d]
    BY <1>1 DEF Inv, PostsInv
  <2> QED BY <1>1, <2>1, FlyingAfterEnd
<1>4. \A r \in posts[c] : r = p
  BY DEF Inv, PostsInv
<1>5. Flying \ {a} \subseteq Flying'
  BY <1>3, <1>4
<1>6. UNCHANGED <<todo, outs, entries, tweets, retweets, asked>>
  BY DEF PostAccepted, hand, tables
<1>7. Waiting' = Waiting
  BY <1>6 DEF Waiting, Attempt, KeyOf, Row, ToSet
<1>8. Trying' = Flying' \cup Waiting'
  BY DEF Trying, Flying, Waiting
<1> HIDE DEF a
<1>9. Trying' \in {Trying, Trying \ {a}} /\ a \in Trying
  BY <1>2, <1>3, <1>5, <1>7, <1>8, TryingIs
<1>10. Pending' = Pending
  BY <1>6 DEF Pending, Job
<1>11. Promise!Post(a)
  BY <1>1, <1>6, <1>9, <1>10 DEF Promise!Post, Promise!tweetVars, a
<1> QED BY <1>9, <1>11 DEF Promised, Promise!BroadcastNext

LEMMA PostRecordedSimulated ==
  ASSUME Inv, NEW c \in Conns, PostRecorded(c) PROVE Promised
<1>1. PICK p \in posts[c] : p.phase = "accepted" /\ entries' = ReplaceInto(p.row)
  BY DEF PostRecorded
<1>2. posts' = [posts EXCEPT ![c] = {}] /\ UNCHANGED <<todo, outs, posted, tweets, retweets, asked>>
  BY DEF PostRecorded, hand, history
<1>3. Attempt(p.row, p.user) \in posted /\ Attempt(p.row, p.user).key = KeyOf(p.row)
      /\ \A r \in posts[c] : r = p
  BY <1>1 DEF Inv, PostsInv, Attempt
<1>4. Flying' = Flying
  <2>1. posts'[c] = {} /\ \A d \in Conns \ {c} : posts'[d] = posts[d]
    BY <1>2 DEF Inv, PostsInv
  <2>2. /\ Flying' \subseteq Flying
        /\ \A b \in Flying \ Flying' : \E r \in posts[c] : r.phase = "sent" /\ b = Attempt(r.row, r.user)
    BY <2>1, FlyingAfterEnd
  <2> QED BY <1>1, <1>3, <2>2
<1>5. Trying' = Trying
  <2>1. Waiting' = Waiting
    BY <1>2 DEF Waiting, Attempt, KeyOf, Row, ToSet
  <2> QED BY <1>4, <2>1, TryingIs DEF Trying, Flying, Waiting
<1>6. Pending' = Pending
  BY <1>2 DEF Pending, Job
<1>7. KeyOf(p.row) \in {KeyOf(r) : r \in Rows}
  BY DEF Inv, PostsInv, Posts
<1>8. Keyed' = Keyed \cup {KeyOf(p.row)}
  BY <1>1, ReplaceKeepsKeys
<1>9. Promise!Record(KeyOf(p.row))
  BY <1>2, <1>3, <1>5, <1>6, <1>8 DEF Promise!Record, Promise!tweetVars, Keyed
<1> QED BY <1>7, <1>9 DEF Promised, Promise!BroadcastNext

LEMMA PostFailsSimulated ==
  ASSUME Inv, NEW c \in Conns, PostFails(c) PROVE Promised
<1>1. posts' = [posts EXCEPT ![c] = {}]
      /\ UNCHANGED <<todo, outs, posted, entries, tweets, retweets, asked>>
  BY DEF PostFails, hand, history, tables
<1>2. Flying' \subseteq Flying
  <2>1. posts'[c] = {} /\ \A d \in Conns \ {c} : posts'[d] = posts[d]
    BY <1>1 DEF Inv, PostsInv
  <2> QED BY <2>1, FlyingAfterEnd
<1>3. Trying' \subseteq Trying
  <2>1. Waiting' = Waiting
    BY <1>1 DEF Waiting, Attempt, KeyOf, Row, ToSet
  <2> QED BY <1>2, <2>1, TryingIs DEF Trying, Flying, Waiting
<1>4. Pending' = Pending
  BY <1>1 DEF Pending, Job
<1> QED BY <1>1, <1>3, <1>4, Loses

LEMMA IsPending ==
  \A j : j \in Pending <=> \E r \in retweets : r.phase \in {"held", "sent"} /\ j = Job(r)
BY DEF Pending

LEMMA WillBePending ==
  \A j : j \in Pending' <=> \E r \in retweets' : r.phase \in {"held", "sent"} /\ j = Job(r)
BY DEF Pending, Job

\* Steps that neither post nor have anything to post.
LEMMA SameTrying ==
  ASSUME posts' = posts, UNCHANGED <<todo, outs>> \/ (outs = <<>> /\ outs' = <<>>)
  PROVE  Trying' = Trying
BY DEF Trying, ToSet, Attempt, Row, KeyOf

LEMMA SendTweetSimulated == ASSUME Inv, SendTweet PROVE Promised
<1> DEFINE tweet == Head(todo).tweet
<1>1. PICK outboxes \in Seq(AllUsers), phase \in {"held", "sent"} :
        LET due == {Retweet(tweet, n, outboxes[n], phase) : n \in DOMAIN outboxes}
        IN  /\ tweet \in AllTweets \ tweets
            /\ tweets' = tweets \cup {tweet}
            /\ retweets' = retweets \cup due
            /\ UNCHANGED <<outs, posts, posted, asked, entries>> /\ outs = <<>>
  BY Due DEF Inv
<1> DEFINE due == {Retweet(tweet, n, outboxes[n], phase) : n \in DOMAIN outboxes}
<1>2. \A r \in due : Job(r).tweet = tweet
  BY DEF Retweet, Job
<1>3. /\ tweet \in AllTweets \ tweets /\ tweets' = tweets \cup {tweet} /\ retweets' = retweets \cup due
      /\ UNCHANGED <<outs, posts, posted, asked, entries>> /\ outs = <<>>
  BY <1>1
<1> HIDE DEF tweet, due
<1>4. Pending \subseteq Pending' /\ \A j \in Pending' \ Pending : j.tweet = tweet
  BY <1>2, <1>3, IsPending, WillBePending
<1>5. Trying' = Trying
  BY <1>3, SameTrying
<1>6. Promise!Accept(tweet)
  BY <1>3, <1>4, <1>5 DEF Promise!Accept, Promise!entryVars
<1> QED BY <1>3, <1>6 DEF Promised, Promise!BroadcastNext

LEMMA DuplicateNotShownSimulated ==
  ASSUME Inv, NEW t \in showing, DuplicateNotShown(t) PROVE Promised
<1> DEFINE Sent(r) == IF r.tweet = t THEN [r EXCEPT !.phase = "sent"] ELSE r
<1>1. retweets' = {Sent(r) : r \in retweets}
      /\ UNCHANGED <<todo, outs, posts, posted, entries, tweets, asked>>
  BY DEF DuplicateNotShown, hand, tables, history
<1>2. \A r \in retweets :
        /\ Sent(r).tweet = r.tweet /\ Sent(r).n = r.n /\ Sent(r).user = r.user
        /\ Sent(r).phase = IF r.tweet = t THEN "sent" ELSE r.phase
        /\ r.tweet = t => r.phase = "held"
  BY DEF Inv, RetweetsInv
<1> HIDE DEF Sent
<1>3. \A r \in retweets : Job(Sent(r)) = Job(r)
  BY <1>2 DEF Job
<1>4. \A r \in retweets : Sent(r).phase \in {"held", "sent"} <=> r.phase \in {"held", "sent"}
  BY <1>2
<1>5. \A j : j \in Pending' <=> \E r \in retweets : r.phase \in {"held", "sent"} /\ j = Job(r)
  BY <1>1, <1>3, <1>4, WillBePending
<1>6. Pending' = Pending
  BY <1>5, IsPending
<1> QED BY <1>1, <1>6, SameTrying, Stutters

LEMMA RetweetAskedSimulated ==
  ASSUME Inv, NEW r \in retweets, RetweetAsked(r) PROVE Promised
<1> DEFINE q == [r EXCEPT !.phase = "answered"]
<1>1. /\ retweets' = (retweets \ {r}) \cup {q} /\ asked' = asked \cup {Job(r)} /\ r.phase = "sent"
      /\ UNCHANGED <<todo, outs, posts, posted, entries, tweets>>
  BY DEF RetweetAsked, hand, tables
<1>2. q.phase = "answered"
  BY DEF Inv, RetweetsInv
<1>3. \A p \in retweets : Job(p) = Job(r) => p = r
  BY DEF Inv, RetweetsInv, Job
<1> HIDE DEF q
<1>4. Job(r) \in Pending /\ Pending' = Pending \ {Job(r)}
  BY <1>1, <1>2, <1>3, IsPending, WillBePending
<1>5. Trying' = Trying
  BY <1>1, SameTrying
<1>6. Promise!Ask(Job(r))
  BY <1>1, <1>4, <1>5 DEF Promise!Ask, Promise!entryVars
<1> QED BY <1>4, <1>6 DEF Promised, Promise!BroadcastNext

\* A request that is gone was asked for, or is lost.
LEMMA RetweetGoneSimulated ==
  ASSUME Inv, retweets' \subseteq retweets,
         UNCHANGED <<todo, outs, posts, posted, entries, tweets, asked>>
  PROVE  Promised
<1>1. Pending' \subseteq Pending
  BY IsPending, WillBePending
<1> QED BY <1>1, SameTrying, Loses

LEMMA DownSimulated == ASSUME Down PROVE Promised
<1>1. Flying' = {} /\ Waiting' = {} /\ Pending' = {}
  BY DEF Down, Flying, Waiting, Pending, ToSet
<1>2. Trying' \subseteq Trying
  BY <1>1 DEF Trying, Flying, Waiting
<1>3. UNCHANGED <<posted, entries, tweets, asked>>
  BY DEF Down, tables, history
<1> QED BY <1>1, <1>2, <1>3, Loses

LEMMA GiveUpSimulated == ASSUME Inv, GiveUp PROVE Promised
<1>1. CASE Down
  BY <1>1, DownSimulated
<1>2. CASE outs' = <<>> /\ UNCHANGED <<tables, tasks, history>>
  <2>1. UNCHANGED <<posts, retweets, posted, entries, tweets, asked>>
    BY <1>2 DEF tables, tasks, history
  <2>2. Flying' = Flying /\ Waiting' = {}
    BY <1>2, <2>1 DEF Flying, Waiting, ToSet, Attempt, KeyOf
  <2>3. Trying' \subseteq Trying
    BY <2>2, TryingIs DEF Trying, Flying, Waiting
  <2>4. Pending' = Pending
    BY <2>1 DEF Pending, Job
  <2> QED BY <2>1, <2>3, <2>4, Loses
<1> QED BY <1>1, <1>2 DEF GiveUp

LEMMA StepSimulated == Inv /\ [Next]_vars => Promised
<1> SUFFICES ASSUME Inv, [Next]_vars PROVE Promised
  OBVIOUS
<1> USE DEF hand, tables, tasks, history
<1>1. CASE Start \/ Reload \/ StreamEnds \/ Reset
  BY <1>1, Idle DEF Start, Reload, StreamEnds, Reset
<1>2. CASE Crash \/ GiveUp
  BY <1>2, DownSimulated, GiveUpSimulated DEF Crash
<1>3. ASSUME NEW work, Deliver(work) PROVE Promised
  <2>1. outs = <<>>
    BY <1>3 DEF Deliver, Inv, HandInv, InHand
  <2> QED BY <1>3, <2>1, Idle DEF Deliver
<1>4. CASE (\E batch \in Batches : PollList(batch)) \/ PollWebSub \/ \E t \in AllTweets : PollStream(t)
  BY <1>3, <1>4 DEF PollList, PollWebSub, PollStream
<1>5. CASE SkipEntry
  BY <1>5, Idle DEF SkipEntry
<1>6. CASE SendEntry \/ SendNext
  BY <1>6, SendEntrySimulated, SendNextSimulated
<1>7. CASE \E c \in Conns : PostAccepted(c) \/ PostRecorded(c) \/ PostFails(c)
  BY <1>7, PostAcceptedSimulated, PostRecordedSimulated, PostFailsSimulated
<1>8. CASE SkipTweet \/ LookUpTweet \/ PassOver
  <2>1. outs = <<>>
    BY <1>8, TweetInHand DEF SkipTweet, LookUpTweet, PassOver, Inv
  <2> QED BY <1>8, <2>1, Idle DEF SkipTweet, LookUpTweet, PassOver
<1>9. CASE SendTweet
  BY <1>9, SendTweetSimulated
<1>10. ASSUME NEW t \in showing, DuplicateShown(t) \/ DuplicateNotShown(t) PROVE Promised
  BY <1>10, RetweetGoneSimulated, DuplicateNotShownSimulated DEF DuplicateShown
<1>11. ASSUME NEW r \in retweets, RetweetAsked(r) \/ RetweetSettled(r) \/ RetweetFails(r)
       PROVE  Promised
  BY <1>11, RetweetAskedSimulated, RetweetGoneSimulated DEF RetweetSettled, RetweetFails
<1>12. CASE Subscriber \/ UNCHANGED vars
  BY <1>12, Idle DEF Subscriber, vars
<1> QED BY <1>1, <1>2, <1>4, <1>5, <1>6, <1>7, <1>8, <1>9, <1>10, <1>11, <1>12 DEF Next

\* The sender keeps the promise of Broadcast: whatever crashes, fails and is delivered again,
\* no entry on record is posted again and no retweet is asked for twice.
THEOREM ImplementsBroadcast == Spec => BroadcastSpec
<1>1. Init => Promise!BroadcastInit
  BY DEF Init, Promise!BroadcastInit, Trying, Pending, ToSet
<1>2. Inv /\ [Next]_vars => [Promise!BroadcastNext]_(Promise!broadcastVars)
  BY StepSimulated DEF Promised
<1> QED BY <1>1, <1>2, Invariant, PTL DEF Spec, BroadcastSpec, Promise!BroadcastSpec

\* What Broadcast promises, in terms of the sender's own tables and tasks.
PromiseInv == Promise!AskedAtMostOnce /\ Promise!RecordedWasPosted

LEMMA PromiseStep == Inv /\ PromiseInv /\ [Next]_vars => PromiseInv'
<1> SUFFICES ASSUME Inv, PromiseInv, [Next]_vars PROVE PromiseInv'
  OBVIOUS
<1> USE DEF PromiseInv, Promise!AskedAtMostOnce, Promise!RecordedWasPosted,
            Promise!entryVars, Promise!tweetVars
<1>1. Promised
  BY StepSimulated
<1>2. \A j \in asked : j.tweet \in tweets
  BY DEF Inv, JobsInv
<1>3. ASSUME NEW k, Promise!Try(k) \/ Promise!Record(k) PROVE PromiseInv'
  BY <1>3 DEF Promise!Try, Promise!Record
<1>4. ASSUME NEW a, Promise!Post(a) PROVE PromiseInv'
  BY <1>4 DEF Promise!Post
<1>5. ASSUME NEW t, Promise!Accept(t) PROVE PromiseInv'
  BY <1>2, <1>5 DEF Promise!Accept
<1>6. ASSUME NEW r, Promise!Ask(r) PROVE PromiseInv'
  BY <1>6 DEF Promise!Ask
<1>7. CASE Promise!Lose
  BY <1>7 DEF Promise!Lose
<1>8. CASE UNCHANGED Promise!broadcastVars
  BY <1>8 DEF Promise!broadcastVars
<1> QED BY <1>1, <1>3, <1>4, <1>5, <1>6, <1>7, <1>8 DEF Promised, Promise!BroadcastNext

\* Twitter is never asked for a retweet that it was asked for before, and an entry is on record
\* only if Twitter accepted a post about it, whatever crashes, fails and is delivered again.
THEOREM PromiseKept == Spec => []PromiseInv
<1>1. Init => PromiseInv
  BY DEF Init, PromiseInv, Promise!AskedAtMostOnce, Promise!RecordedWasPosted
<1> QED BY <1>1, PromiseStep, Invariant, PTL DEF Spec

------------------------------------------------------------------------------
(* What is on record.                                                        *)

LastInv == last \in Nat

LEMMA LastStep ==
  ASSUME Inv, LastInv, [Next]_vars PROVE LastInv' /\ last <= last'
<1> USE DEF tables, LastInv
<1>1. ASSUME last' = last PROVE LastInv' /\ last <= last'
  BY <1>1
<1>2. CASE Start \/ Reload \/ StreamEnds \/ Reset \/ Crash \/ GiveUp
  BY <1>1, <1>2 DEF Start, Reload, StreamEnds, Reset, Crash, GiveUp, Down
<1>3. CASE (\E batch \in Batches : PollList(batch)) \/ PollWebSub \/ \E t \in AllTweets : PollStream(t)
  BY <1>1, <1>3 DEF PollList, PollWebSub, PollStream, Deliver
<1>4. CASE SkipEntry \/ SendEntry \/ SendNext
  BY <1>1, <1>4 DEF SkipEntry, SendEntry, SendNext, SpawnPosts
<1>5. CASE \E c \in Conns : PostAccepted(c) \/ PostRecorded(c) \/ PostFails(c)
  BY <1>1, <1>5 DEF PostAccepted, PostRecorded, PostFails
<1>6. CASE SkipTweet \/ PassOver \/ SendTweet
  BY <1>1, <1>6 DEF SkipTweet, PassOver, SendTweet
<1>7. CASE LookUpTweet
  <2>1. Head(todo).tweet.id \in Nat
    BY <1>7, TweetInHand, SenderAssumption DEF LookUpTweet, Inv
  <2>2. last' = last \/ (last < Head(todo).tweet.id /\ last' = Head(todo).tweet.id)
    BY <1>7 DEF LookUpTweet
  <2> QED BY <2>1, <2>2
<1>8. CASE \E t \in showing : DuplicateShown(t) \/ DuplicateNotShown(t)
  BY <1>1, <1>8 DEF DuplicateShown, DuplicateNotShown
<1>9. CASE \E r \in retweets : RetweetAsked(r) \/ RetweetSettled(r) \/ RetweetFails(r)
  BY <1>1, <1>9 DEF RetweetAsked, RetweetSettled, RetweetFails
<1>10. CASE Subscriber \/ UNCHANGED vars
  BY <1>1, <1>10 DEF Subscriber, vars
<1> QED BY <1>2, <1>3, <1>4, <1>5, <1>6, <1>7, <1>8, <1>9, <1>10 DEF Next

\* Nothing on record is ever forgotten, and `last_tweet` never moves back.
THEOREM RecordsNeverLost == Spec => RecordsAreKept
<1>1. Init => LastInv
  BY DEF Init, LastInv
<1>2. Inv /\ LastInv /\ [Next]_vars => LastInv'
  BY LastStep
<1>3. Promised => tweets \subseteq tweets' /\ Keyed \subseteq Keyed'
  BY DEF Promised, Promise!BroadcastNext, Promise!Try, Promise!Record, Promise!Post, Promise!Accept,
         Promise!Ask, Promise!Lose, Promise!broadcastVars, Promise!entryVars, Promise!tweetVars, Keyed
<1>4. Inv /\ LastInv /\ [Next]_vars =>
        last <= last' /\ tweets \subseteq tweets'
        /\ {KeyOf(r) : r \in entries} \subseteq {KeyOf(r) : r \in entries'}
  <2> SUFFICES ASSUME Inv, LastInv, [Next]_vars
               PROVE  last <= last' /\ tweets \subseteq tweets'
                      /\ {KeyOf(r) : r \in entries} \subseteq {KeyOf(r) : r \in entries'}
    OBVIOUS
  <2>1. Keyed' = {KeyOf(r) : r \in entries'}
    BY DEF Keyed, KeyOf
  <2> QED BY <1>3, <2>1, LastStep, StepSimulated DEF Keyed
<1> QED BY <1>1, <1>2, <1>4, Invariant, PTL DEF Spec, RecordsAreKept

------------------------------------------------------------------------------
(* Where tweets go.                                                          *)

LEMMA OnlySendTweet ==
  ASSUME [Next]_vars, ~SendTweet
  PROVE  UNCHANGED <<tweets, jobs>> /\ showing' \subseteq showing
<1> USE DEF tables, tasks, history
<1>1. CASE Start \/ Reload \/ StreamEnds \/ Reset \/ Crash \/ GiveUp
  BY <1>1 DEF Start, Reload, StreamEnds, Reset, Crash, GiveUp, Down
<1>2. CASE (\E batch \in Batches : PollList(batch)) \/ PollWebSub \/ \E t \in AllTweets : PollStream(t)
  BY <1>2 DEF PollList, PollWebSub, PollStream, Deliver
<1>3. CASE SkipEntry \/ SendEntry \/ SendNext
  BY <1>3 DEF SkipEntry, SendEntry, SendNext, SpawnPosts
<1>4. CASE \E c \in Conns : PostAccepted(c) \/ PostRecorded(c) \/ PostFails(c)
  BY <1>4 DEF PostAccepted, PostRecorded, PostFails
<1>5. CASE SkipTweet \/ LookUpTweet \/ PassOver
  BY <1>5 DEF SkipTweet, LookUpTweet, PassOver
<1>6. CASE \E t \in showing : DuplicateShown(t) \/ DuplicateNotShown(t)
  BY <1>6 DEF DuplicateShown, DuplicateNotShown
<1>7. CASE \E r \in retweets : RetweetAsked(r) \/ RetweetSettled(r) \/ RetweetFails(r)
  BY <1>7 DEF RetweetAsked, RetweetSettled, RetweetFails
<1>8. CASE Subscriber \/ UNCHANGED vars
  BY <1>8 DEF Subscriber, vars
<1> QED BY <1>1, <1>2, <1>3, <1>4, <1>5, <1>6, <1>7, <1>8 DEF Next

\* The jobs of a tweet are made when it is recorded, and are those that the router names.
LEMMA RoutedStep ==
  ASSUME Inv, [Next]_vars, NEW t \in tweets' \ tweets, NEW u \in AllUsers
  PROVE  (\E j \in jobs' : j.tweet = t /\ j.user = u)
         <=> \E rule \in ToSet(manifest.rule) : TweetPasses(rule, t) /\ u \in ToSet(rule.outbox)
<1> DEFINE tweet == Head(todo).tweet
<1>1. SendTweet
  BY OnlySendTweet, Zenon
<1>2. PICK outboxes \in Seq(AllUsers), phase \in {"held", "sent"} :
        /\ outboxes = RouteTweet(Router, tweet)
        /\ tweets' = tweets \cup {tweet}
        /\ jobs' = jobs \cup {Job(r) : r \in {Retweet(tweet, n, outboxes[n], phase) : n \in DOMAIN outboxes}}
  BY <1>1, Due DEF Inv
<1>3. t = tweet /\ \A j \in jobs : j.tweet # t
  BY <1>2 DEF Inv, JobsInv
<1> DEFINE new == {Job(r) : r \in {Retweet(tweet, n, outboxes[n], phase) : n \in DOMAIN outboxes}}
<1>4. ASSUME NEW n \in DOMAIN outboxes PROVE \E j \in new : j.tweet = t /\ j.user = outboxes[n]
  <2> DEFINE j == Job(Retweet(tweet, n, outboxes[n], phase))
  <2>1. j \in new
    OBVIOUS
  <2>2. j.tweet = t /\ j.user = outboxes[n]
    BY <1>3 DEF Job, Retweet
  <2> HIDE DEF j, new
  <2> QED BY <2>1, <2>2
<1>5. \A j \in new : j.tweet = t /\ \E n \in DOMAIN outboxes : j.user = outboxes[n]
  BY <1>3 DEF Job, Retweet
<1>6. jobs' = jobs \cup new
  BY <1>2
<1>7. (\E j \in jobs' : j.tweet = t /\ j.user = u) <=> u \in ToSet(outboxes)
  <2> HIDE DEF tweet, new
  <2> QED BY <1>3, <1>4, <1>5, <1>6 DEF ToSet
<1>8. manifest \in Manifests
  BY DEF Inv, ProcessInv
<1>9. outboxes = RouteTweet(RouterOf(manifest), t)
  BY <1>2, <1>3 DEF Router
<1>10. u \in ToSet(outboxes) <=> \E rule \in ToSet(manifest.rule) : TweetPasses(rule, t) /\ u \in ToSet(rule.outbox)
  <2> HIDE DEF tweet, new
  <2> QED BY <1>8, <1>9, TweetRoutes, Zenon
<1> QED BY <1>7, <1>10, Zenon

\* A tweet is retweeted by exactly those whom the rules name for it, for any rules.
THEOREM RoutedAsTheRulesSay == Spec => RoutedByEveryRule
<1>1. Inv /\ [Next]_vars =>
        \A t \in tweets' \ tweets : \A u \in AllUsers :
            (\E j \in jobs' : j.tweet = t /\ j.user = u)
            <=> \E rule \in ToSet(manifest.rule) : TweetPasses(rule, t) /\ u \in ToSet(rule.outbox)
  <2> SUFFICES ASSUME Inv, [Next]_vars, NEW t \in tweets' \ tweets, NEW u \in AllUsers
               PROVE  (\E j \in jobs' : j.tweet = t /\ j.user = u)
                      <=> \E rule \in ToSet(manifest.rule) :
                              TweetPasses(rule, t) /\ u \in ToSet(rule.outbox)
    BY Zenon
  <2> QED BY RoutedStep, Zenon
<1> QED BY <1>1, Invariant, PTL DEF Spec, RoutedByEveryRule

------------------------------------------------------------------------------
(* What is posted about entries.                                             *)

\* By the rules of a manifest, an entry is for a user.
Named(m, work, u) ==
    \E rule \in ToSet(m.rule) : EntryPasses(rule, work.topic, work.entry) /\ u \in ToSet(rule.outbox)

\* The manifest stays while a batch is being sent: what is left of an entry's outboxes is
\* named by the manifest that there is.
OutsInv ==
    /\ main = "down" => todo = <<>>
    /\ outs # <<>> => Head(todo).entry.link # {} /\ \A u \in ToSet(outs) : Named(manifest, Head(todo), u)

LEMMA RoutedIsNamed ==
  ASSUME ProcessInv, NEW work, NEW u \in ToSet(RouteEntry(Router, work.topic, work.entry))
  PROVE  Named(manifest, work, u)
<1>1. manifest \in Manifests
  BY DEF ProcessInv
<1>2. u \in ToSet(RouteEntry(RouterOf(manifest), work.topic, work.entry))
  BY DEF Router
<1> QED BY <1>1, <1>2, EntryRoutes, Zenon DEF Named

\* Whoever sends a post does so for a user who is named, and about an entry with a link.
LEMMA Sending ==
  ASSUME ProcessInv, HandInv, OutsInv, SendEntry \/ SendNext
  PROVE  \E outboxes \in Seq(AllUsers) :
            /\ InHand("entry") /\ outboxes # <<>> /\ SpawnPosts(outboxes)
            /\ Head(todo).entry.link # {}
            /\ \A u \in ToSet(outboxes) : Named(manifest, Head(todo), u)
<1>1. CASE SendEntry
  <2> DEFINE outboxes == RouteEntry(Router, Head(todo).topic, Head(todo).entry)
  <2>1. InHand("entry") /\ outboxes # <<>> /\ SpawnPosts(outboxes) /\ Head(todo).entry.link # {}
    BY <1>1 DEF SendEntry
  <2>2. outboxes \in Seq(AllUsers)
    BY <2>1, EntryInHand
  <2>3. \A u \in ToSet(outboxes) : Named(manifest, Head(todo), u)
    BY RoutedIsNamed
  <2> HIDE DEF outboxes
  <2> QED BY <2>1, <2>2, <2>3
<1>2. CASE SendNext
  <2>1. outs # <<>> /\ InHand("entry") /\ SpawnPosts(outs) /\ outs \in Seq(AllUsers)
    BY <1>2 DEF SendNext, HandInv
  <2> QED BY <2>1 DEF OutsInv
<1> QED BY <1>1, <1>2

LEMMA OutsStepInv == ProcessInv /\ HandInv /\ OutsInv /\ [Next]_vars => OutsInv'
<1> SUFFICES ASSUME ProcessInv, HandInv, OutsInv, [Next]_vars PROVE OutsInv'
  OBVIOUS
<1> USE DEF hand
<1>1. ASSUME outs' = <<>>, main' # "down" \/ todo' = <<>> PROVE OutsInv'
  BY <1>1 DEF OutsInv
<1>2. ASSUME UNCHANGED <<manifest, todo, outs>>, main' = main \/ main' # "down" PROVE OutsInv'
  BY <1>2 DEF OutsInv, Named
<1>3. todo = <<>> => outs = <<>>
  BY DEF HandInv, InHand
<1>4. todo # <<>> => main # "down"
  BY DEF OutsInv
<1>5. InHand("tweet") => outs = <<>> /\ todo # <<>>
  BY DEF HandInv, InHand
<1>6. CASE Start \/ Reload
  BY <1>1, <1>3, <1>6 DEF Start, Reload, OutsInv
<1>7. CASE StreamEnds \/ Reset
  BY <1>2, <1>7 DEF StreamEnds, Reset
<1>8. CASE Crash \/ GiveUp
  BY <1>1, <1>8 DEF Crash, GiveUp, Down
<1>9. CASE (\E batch \in Batches : PollList(batch)) \/ PollWebSub \/ \E t \in AllTweets : PollStream(t)
  BY <1>1, <1>3, <1>9 DEF PollList, PollWebSub, PollStream, Deliver
<1>10. CASE SkipEntry
  BY <1>1, <1>4, <1>10 DEF SkipEntry, InHand
<1>11. CASE SendEntry \/ SendNext
  <2>1. PICK outboxes \in Seq(AllUsers) :
            /\ InHand("entry") /\ outboxes # <<>> /\ SpawnPosts(outboxes)
            /\ Head(todo).entry.link # {}
            /\ \A u \in ToSet(outboxes) : Named(manifest, Head(todo), u)
    BY <1>11, Sending
  <2>2. /\ outs' = Tail(outboxes) /\ UNCHANGED <<main, manifest>>
        /\ outs' # <<>> => todo' = todo
    BY <2>1 DEF SpawnPosts
  <2>3. ToSet(Tail(outboxes)) \subseteq ToSet(outboxes)
    BY <2>1, HeadAndTail, Zenon
  <2>4. main' # "down"
    BY <1>4, <2>1, <2>2 DEF InHand
  <2>5. outs' # <<>> => Head(todo').entry.link # {} /\ \A u \in ToSet(outs') : Named(manifest', Head(todo'), u)
    BY <2>1, <2>2, <2>3
  <2> QED BY <2>4, <2>5 DEF OutsInv, Named
<1>12. CASE \E c \in Conns : PostAccepted(c) \/ PostRecorded(c) \/ PostFails(c)
  BY <1>2, <1>12 DEF PostAccepted, PostRecorded, PostFails
<1>13. CASE SkipTweet \/ LookUpTweet
  BY <1>1, <1>4, <1>5, <1>13 DEF SkipTweet, LookUpTweet
<1>14. CASE PassOver \/ SendTweet
  BY <1>1, <1>4, <1>5, <1>14 DEF PassOver, SendTweet
<1>15. CASE \E t \in showing : DuplicateShown(t) \/ DuplicateNotShown(t)
  BY <1>2, <1>15 DEF DuplicateShown, DuplicateNotShown
<1>16. CASE \E r \in retweets : RetweetAsked(r) \/ RetweetSettled(r) \/ RetweetFails(r)
  BY <1>2, <1>16 DEF RetweetAsked, RetweetSettled, RetweetFails
<1>17. CASE Subscriber \/ UNCHANGED vars
  BY <1>2, <1>17 DEF Subscriber, vars
<1> QED BY <1>6, <1>7, <1>8, <1>9, <1>10, <1>11, <1>12, <1>13, <1>14, <1>15, <1>16, <1>17 DEF Next

\* A post that was not there before is about the entry in hand.
LEMMA PostStep ==
  ASSUME Inv, OutsInv, [Next]_vars, NEW c \in Conns, NEW p \in posts'[c]
  PROVE  \/ \E q \in posts[c] : p.row = q.row
         \/ /\ posts[c] = {} /\ InHand("entry")
            /\ p.row = Row(Head(todo)) /\ Head(todo).entry.link # {}
            /\ Named(manifest, Head(todo), p.user)
<1> USE DEF tasks
<1>1. ASSUME posts'[c] \subseteq posts[c] PROVE \E q \in posts[c] : p.row = q.row
  BY <1>1
<1>2. posts \in [Conns -> SUBSET Posts]
  BY DEF Inv, PostsInv
<1>3. CASE Start \/ Reload \/ StreamEnds \/ Reset
  BY <1>1, <1>3 DEF Start, Reload, StreamEnds, Reset
<1>4. CASE Crash \/ GiveUp
  BY <1>1, <1>4 DEF Crash, GiveUp, Down
<1>5. CASE (\E batch \in Batches : PollList(batch)) \/ PollWebSub \/ \E t \in AllTweets : PollStream(t)
  BY <1>1, <1>5 DEF PollList, PollWebSub, PollStream, Deliver
<1>6. CASE SkipEntry
  BY <1>1, <1>6 DEF SkipEntry
<1>7. CASE SendEntry \/ SendNext
  <2>1. PICK outboxes \in Seq(AllUsers) :
            /\ InHand("entry") /\ outboxes # <<>> /\ SpawnPosts(outboxes)
            /\ Head(todo).entry.link # {}
            /\ \A u \in ToSet(outboxes) : Named(manifest, Head(todo), u)
    BY <1>7, Sending DEF Inv
  <2>2. Row(Head(todo)) \in Rows
    BY <2>1, EntryInHand DEF Inv
  <2>3. PICK d \in Conns, q \in Posts :
            /\ posts[d] = {} /\ posts' = [posts EXCEPT ![d] = {q}]
            /\ q.row = Row(Head(todo)) /\ q.user = Head(outboxes)
    BY <2>1, <2>2, Spawned DEF Inv
  <2>4. CASE c = d
    <3>1. p = q
      BY <1>2, <2>3, <2>4
    <3>2. Head(outboxes) \in ToSet(outboxes)
      BY <2>1, HeadAndTail, Zenon
    <3> QED BY <2>1, <2>3, <2>4, <3>1, <3>2
  <2>5. CASE c # d
    BY <1>1, <1>2, <2>3, <2>5
  <2> QED BY <2>4, <2>5
<1>8. ASSUME NEW d \in Conns, PostAccepted(d) PROVE \E q \in posts[c] : p.row = q.row
  <2>1. PICK r \in posts[d], q \in Posts : q.row = r.row /\ posts' = [posts EXCEPT ![d] = {q}]
    BY <1>8, Accepted DEF Inv
  <2> QED BY <1>2, <2>1
<1>9. ASSUME NEW d \in Conns, PostRecorded(d) \/ PostFails(d) PROVE \E q \in posts[c] : p.row = q.row
  <2>1. posts' = [posts EXCEPT ![d] = {}]
    BY <1>9 DEF PostRecorded, PostFails
  <2> QED BY <1>1, <1>2, <2>1
<1>10. CASE SkipTweet \/ LookUpTweet \/ PassOver \/ SendTweet
  BY <1>1, <1>10 DEF SkipTweet, LookUpTweet, PassOver, SendTweet
<1>11. CASE \E t \in showing : DuplicateShown(t) \/ DuplicateNotShown(t)
  BY <1>1, <1>11 DEF DuplicateShown, DuplicateNotShown
<1>12. CASE \E r \in retweets : RetweetAsked(r) \/ RetweetSettled(r) \/ RetweetFails(r)
  BY <1>1, <1>12 DEF RetweetAsked, RetweetSettled, RetweetFails
<1>13. CASE Subscriber \/ UNCHANGED vars
  BY <1>1, <1>13 DEF Subscriber, vars
<1> QED BY <1>3, <1>4, <1>5, <1>6, <1>7, <1>8, <1>9, <1>10, <1>11, <1>12, <1>13 DEF Next

------------------------------------------------------------------------------
(* What documents say.                                                       *)

LEMMA SequenceDomain ==
  ASSUME NEW s, IsSequence(s)
  PROVE  /\ DOMAIN s \subseteq Nat /\ \A i \in DOMAIN s : s[i] \in ToSet(s)
         /\ s # <<>> => DOMAIN s # {}
BY EmptySeq DEF IsSequence, ToSet

\* The first option that is there is one of them, and is there if one of them is.
LEMMA FirstPresentIs ==
  ASSUME NEW options, DOMAIN options \subseteq Nat
  PROVE  \/ FirstPresent(options) = {} /\ \A i \in DOMAIN options : options[i] = {}
         \/ \E i \in DOMAIN options : options[i] # {} /\ FirstPresent(options) = options[i]
<1> DEFINE there == {i \in DOMAIN options : options[i] # {}}
<1>1. CASE there = {}
  BY <1>1 DEF FirstPresent
<1>2. CASE there # {}
  <2>1. FirstPresent(options) = options[Min(there)]
    BY <1>2 DEF FirstPresent
  <2>2. Min(there) \in there
    <3>1. there \in SUBSET Nat
      OBVIOUS
    <3> HIDE DEF there
    <3> QED BY <1>2, <3>1, MinNat
  <2> QED BY <2>1, <2>2
<1> QED BY <1>1, <1>2

LEMMA EntrySource ==
  ASSUME NEW entry \in Entries
  PROVE  \/ \E e \in AtomEntriesServed : entry = FromAtom(e)
         \/ \E item \in RssItemsServed : entry = FromRss(item)
<1>1. PICK k \in Kinds, d \in Served : \E f \in Parse(k, d) : entry \in ToSet(f)
  BY DEF Entries, ServedFeeds, Kinds
<1> PICK f \in Parse(k, d) : entry \in ToSet(f)
  BY <1>1
<1>2. f \in {AtomEntries(g) : g \in d.atom} \cup {RssEntries(g) : g \in d.rss}
  BY ParsedFrom
<1>3. CASE f \in {AtomEntries(g) : g \in d.atom}
  <2>1. PICK g \in d.atom : f = AtomEntries(g)
    BY <1>3
  <2>2. PICK i \in DOMAIN g.entries : entry = FromAtom(g.entries[i])
    BY <1>1, <2>1 DEF AtomEntries, ToSet
  <2>3. g.entries[i] \in AtomEntriesServed
    BY DEF AtomEntriesServed, ToSet
  <2> QED BY <2>2, <2>3
<1>4. CASE f \in {RssEntries(g) : g \in d.rss}
  <2>1. PICK g \in d.rss : f = RssEntries(g)
    BY <1>4
  <2>2. PICK i \in DOMAIN g.entries : entry = FromRss(g.entries[i])
    BY <1>1, <2>1 DEF RssEntries, ToSet
  <2>3. g.entries[i] \in RssItemsServed
    BY DEF RssItemsServed, ToSet
  <2> QED BY <2>2, <2>3
<1> QED BY <1>2, <1>3, <1>4

\* The link of an entry is one of its pages.
LEMMA AtomPage ==
  ASSUME NEW e \in AtomEntriesServed
  PROVE  FromAtom(e).id = {e.id} /\ FromAtom(e).link \subseteq Pages(e)
<1> DEFINE links == e.links
           alternate == {i \in DOMAIN links : links[i].rel = "alternate"}
<1>1. FromAtom(e).id = {e.id} /\ FromAtom(e).link = AlternateLink(links)
  BY DEF FromAtom
<1>2. DOMAIN links \in SUBSET Nat /\ \A i \in DOMAIN links : links[i] \in ToSet(links)
  BY DocumentsAssumption, SequenceDomain
<1>3. CASE alternate # {}
  <2>1. Min(alternate) \in alternate
    <3>1. alternate \in SUBSET Nat
      BY <1>2
    <3> HIDE DEF alternate
    <3> QED BY <1>3, <3>1, MinNat
  <2>2. AlternateLink(links) = {links[Min(alternate)].href}
    BY <1>3 DEF AlternateLink
  <2>3. links[Min(alternate)].href \in AlternateHrefs(e)
    BY <1>2, <2>1 DEF AlternateHrefs
  <2> HIDE DEF alternate, links
  <2> QED BY <1>1, <2>2, <2>3 DEF Pages
<1>4. CASE alternate = {}
  <2>1. AlternateHrefs(e) = {}
    BY <1>4 DEF AlternateHrefs, ToSet
  <2>2. AlternateLink(links) = FirstPresent([i \in DOMAIN links |-> {links[i].href}])
    BY <1>4 DEF AlternateLink
  <2>3. \/ FirstPresent([i \in DOMAIN links |-> {links[i].href}]) = {}
        \/ \E i \in DOMAIN links : FirstPresent([j \in DOMAIN links |-> {links[j].href}]) = {links[i].href}
    <3> DEFINE options == [i \in DOMAIN links |-> {links[i].href}]
    <3>1. DOMAIN options \subseteq Nat /\ DOMAIN options = DOMAIN links
          /\ \A i \in DOMAIN links : options[i] = {links[i].href}
      BY <1>2
    <3> HIDE DEF options, links
    <3>2. FirstPresent(options) = {} \/ \E i \in DOMAIN links : FirstPresent(options) = {links[i].href}
      BY <3>1, FirstPresentIs
    <3> QED BY <3>2 DEF options
  <2>4. \A i \in DOMAIN links : links[i].href \in Pages(e)
    BY <1>2, <2>1 DEF Pages
  <2> HIDE DEF links
  <2> QED BY <1>1, <2>2, <2>3, <2>4
<1> QED BY <1>3, <1>4

LEMMA RssPage ==
  ASSUME NEW item \in RssItemsServed
  PROVE  /\ FromRss(item).id = {g.value : g \in item.guid}
         /\ FromRss(item).link \subseteq ItemPages(item)
BY DEF FromRss, OrElse, ItemPages

------------------------------------------------------------------------------
(* What is posted.                                                           *)

LinksInv == \A c \in Conns : \A p \in posts[c] : p.row.link # {}

LEMMA PostedIsServed ==
  ASSUME PostsInv, LinksInv
  PROVE  PostsTheAlternateLink
<1> SUFFICES ASSUME NEW p \in AllPosts
             PROVE  /\ p.row.link # {}
                    /\ \/ \E e \in AtomEntriesServed : p.row.id = {e.id} /\ p.row.link \subseteq Pages(e)
                       \/ \E item \in RssItemsServed :
                            /\ p.row.id = {g.value : g \in item.guid}
                            /\ p.row.link \subseteq ItemPages(item)
  BY DEF PostsTheAlternateLink
<1>1. PICK c \in Conns : p \in posts[c]
  BY DEF AllPosts
<1>2. p.row.link # {} /\ p.row \in Rows
  BY <1>1 DEF LinksInv, PostsInv, Posts
<1>3. PICK url \in Urls, entry \in Entries : p.row = Row(EntryWork(url, entry))
  BY <1>2 DEF Rows
<1>4. p.row.id = entry.id /\ p.row.link = entry.link
  BY <1>3 DEF Row, EntryWork
<1>5. CASE \E e \in AtomEntriesServed : entry = FromAtom(e)
  BY <1>2, <1>4, <1>5, AtomPage
<1>6. CASE \E item \in RssItemsServed : entry = FromRss(item)
  BY <1>2, <1>4, <1>6, RssPage
<1> QED BY <1>5, <1>6, EntrySource

\* What is posted is a page that a document gives for an entry of that id, whatever the
\* documents, and whatever else they link to.
THEOREM PostsAlternateLinks == Spec => []PostsTheAlternateLink
<1>1. Init => OutsInv /\ LinksInv
  BY DEF Init, OutsInv, LinksInv
<1>2. Inv /\ OutsInv /\ LinksInv /\ [Next]_vars => OutsInv' /\ LinksInv'
  <2> SUFFICES ASSUME Inv, OutsInv, LinksInv, [Next]_vars PROVE OutsInv' /\ LinksInv'
    OBVIOUS
  <2>1. OutsInv'
    BY OutsStepInv DEF Inv
  <2>2. ASSUME NEW c \in Conns, NEW p \in posts'[c] PROVE p.row.link # {}
    <3>1. Row(Head(todo)).link = Head(todo).entry.link
      BY DEF Row
    <3> QED BY <3>1, PostStep DEF LinksInv
  <2> QED BY <2>1, <2>2 DEF LinksInv
<1>3. Inv /\ LinksInv => PostsTheAlternateLink
  BY PostedIsServed DEF Inv
<1> QED BY <1>1, <1>2, <1>3, Invariant, PTL DEF Spec

------------------------------------------------------------------------------
(* The description that rules see.                                           *)

\* Among contents that are described, the description is that of one of them.
LEMMA ContentTaken ==
  ASSUME NEW e \in AtomEntriesServed, ContentsDescribed(e),
         NEW elms, IsSequence(elms), ToSet(elms) \subseteq Contents(e)
  PROVE  /\ TakeContentDescription(elms) \subseteq ContentDescriptions(e)
         /\ (\E c \in ToSet(elms) : c.description # <<>>) => TakeContentDescription(elms) # {}
<1> DEFINE described == {i \in DOMAIN elms : elms[i].description # <<>>}
<1>1. DOMAIN elms \in SUBSET Nat /\ \A i \in DOMAIN elms : elms[i] \in Contents(e)
  BY SequenceDomain
<1>2. CASE described = {}
  BY <1>2 DEF TakeContentDescription, ToSet
<1>3. CASE described # {}
  <2> DEFINE n == Min(described)
             ds == elms[n].description
             options == [i \in DOMAIN ds |-> ds[i].value]
  <2>1. n \in described
    <3>1. described \in SUBSET Nat
      BY <1>1
    <3> HIDE DEF described
    <3> QED BY <1>3, <3>1, MinNat
  <2>2. TakeContentDescription(elms) = FirstPresent(options)
    BY <1>3 DEF TakeContentDescription, TakeDescription
  <2>3. elms[n] \in Contents(e) /\ ds # <<>> /\ IsSequence(ds)
    BY <1>1, <2>1, DocumentsAssumption
  <2> HIDE DEF n, described
  <2>4. DOMAIN ds # {} /\ DOMAIN ds \subseteq Nat /\ \A i \in DOMAIN ds : ds[i] \in ToSet(ds)
    BY <2>3, SequenceDomain
  <2>5. \A d \in ToSet(ds) : d.value # {} /\ d.value \subseteq ContentDescriptions(e)
    BY <2>3 DEF ContentsDescribed, ContentDescriptions
  <2> HIDE DEF ds
  <2>6. DOMAIN options = DOMAIN ds
        /\ \A i \in DOMAIN ds : options[i] # {} /\ options[i] \subseteq ContentDescriptions(e)
    BY <2>4, <2>5
  <2> HIDE DEF options
  <2> QED BY <2>2, <2>4, <2>6, FirstPresentIs
<1> QED BY <1>2, <1>3

\* So it is for an element of Media RSS, with its groups,
LEMMA MediaTaken ==
  ASSUME NEW e \in AtomEntriesServed, ContentsDescribed(e), NEW m \in ToSet(e.extensions), m.mrss
  PROVE  /\ ContentDescription(m) \subseteq ContentDescriptions(e)
         /\ (\E c \in ToSet(m.content) \cup UNION {ToSet(g.content) : g \in ToSet(m.group)} : c.description # <<>>)
            => ContentDescription(m) # {}
<1> DEFINE own == TakeContentDescription(m.content)
           options == [j \in DOMAIN m.group |-> TakeContentDescription(m.group[j].content)]
<1>1. ContentDescription(m) = IF own # {} THEN own ELSE FirstPresent(options)
  BY DEF ContentDescription, OrElse
<1>2. IsSequence(m.content) /\ IsSequence(m.group) /\ \A g \in ToSet(m.group) : IsSequence(g.content)
  BY DocumentsAssumption
<1>3. ToSet(m.content) \subseteq Contents(e) /\ \A g \in ToSet(m.group) : ToSet(g.content) \subseteq Contents(e)
  BY DEF Contents
<1>4. /\ own \subseteq ContentDescriptions(e)
      /\ (\E c \in ToSet(m.content) : c.description # <<>>) => own # {}
  BY <1>2, <1>3, ContentTaken
<1>5. DOMAIN m.group \subseteq Nat /\ \A j \in DOMAIN m.group : m.group[j] \in ToSet(m.group)
  BY <1>2, SequenceDomain
<1>6. ASSUME NEW j \in DOMAIN m.group
      PROVE  /\ options[j] \subseteq ContentDescriptions(e)
             /\ (\E c \in ToSet(m.group[j].content) : c.description # <<>>) => options[j] # {}
  <2>1. IsSequence(m.group[j].content) /\ ToSet(m.group[j].content) \subseteq Contents(e)
    BY <1>2, <1>3, <1>5
  <2>2. options[j] = TakeContentDescription(m.group[j].content)
    OBVIOUS
  <2> HIDE DEF options
  <2> QED BY <2>1, <2>2, ContentTaken
<1>7. DOMAIN options = DOMAIN m.group
  OBVIOUS
<1> HIDE DEF own, options
<1>8. /\ FirstPresent(options) \subseteq ContentDescriptions(e)
      /\ (\E j \in DOMAIN m.group : options[j] # {}) => FirstPresent(options) # {}
  BY <1>5, <1>6, <1>7, FirstPresentIs
<1>9. \A g \in ToSet(m.group) : \E j \in DOMAIN m.group : g = m.group[j]
  BY DEF ToSet
<1>10. (\E g \in ToSet(m.group) : \E c \in ToSet(g.content) : c.description # <<>>)
       => FirstPresent(options) # {}
  BY <1>6, <1>8, <1>9
<1> QED BY <1>1, <1>4, <1>8, <1>10

\* and for the entry, whatever else in it is described.
LEMMA DescriptionTaken ==
  ASSUME NEW e \in AtomEntriesServed, ContentsDescribed(e)
  PROVE  /\ MediaDescription(e.extensions) \subseteq ContentDescriptions(e)
         /\ MediaDescription(e.extensions) # {}
<1> DEFINE ms == e.extensions
           options == [i \in DOMAIN ms |-> IF ms[i].mrss THEN ContentDescription(ms[i]) ELSE {}]
<1>1. FirstOf(ms, ContentDescription) = FirstPresent(options)
  BY DEF FirstOf
<1>2. DOMAIN ms \subseteq Nat /\ \A i \in DOMAIN ms : ms[i] \in ToSet(ms)
  BY DocumentsAssumption, SequenceDomain
<1>3. DOMAIN options = DOMAIN ms
      /\ \A i \in DOMAIN ms : options[i] = IF ms[i].mrss THEN ContentDescription(ms[i]) ELSE {}
  OBVIOUS
<1> HIDE DEF options
<1>4. \A i \in DOMAIN ms : options[i] \subseteq ContentDescriptions(e)
  BY <1>2, <1>3, MediaTaken
<1>5. \E i \in DOMAIN ms : options[i] # {}
  <2>1. PICK c \in Contents(e) : c.description # <<>>
    BY DEF ContentsDescribed
  <2>2. PICK m \in ToSet(ms) : m.mrss
            /\ c \in ToSet(m.content) \cup UNION {ToSet(g.content) : g \in ToSet(m.group)}
    BY DEF Contents
  <2>3. ContentDescription(m) # {}
    BY <2>1, <2>2, MediaTaken
  <2>4. PICK i \in DOMAIN ms : m = ms[i]
    BY DEF ToSet
  <2> QED BY <1>3, <2>2, <2>3, <2>4
<1>6. FirstPresent(options) # {} /\ FirstPresent(options) \subseteq ContentDescriptions(e)
  BY <1>2, <1>3, <1>4, <1>5, FirstPresentIs
<1>7. MediaDescription(ms) = FirstOf(ms, ContentDescription)
  BY <1>1, <1>6 DEF MediaDescription, OrElse
<1> QED BY <1>1, <1>6, <1>7

\* A post that begins is for a rule that lets its entry pass, by the description that a
\* content has rather than by any other.
THEOREM ExcludedIsNeverPosted == Spec => ExcludedIsNotPosted
<1>1. Init => OutsInv
  BY DEF Init, OutsInv
<1>2. Inv /\ OutsInv /\ [Next]_vars => OutsInv'
  BY OutsStepInv DEF Inv
<1>3. ASSUME NEW e \in AtomEntriesServed, e.summary = {}, ContentsDescribed(e),
             NEW x, ~MatchesEntry(x, FromAtom(e)), NEW text \in x.text
      PROVE  ~(ContentDescriptions(e) \subseteq text)
  <2>1. FromAtom(e).summary = MediaDescription(e.extensions)
    BY <1>3 DEF FromAtom, OrElse
  <2>2. FromAtom(e).summary \cap text = {}
    BY <1>3 DEF MatchesEntry
  <2> QED BY <1>3, <2>1, <2>2, DescriptionTaken
<1>4. Inv /\ OutsInv /\ [Next]_vars =>
        \A c \in Conns : posts[c] = {} => \A p \in posts'[c] :
            \E rule \in ToSet(manifest.rule) :
                /\ p.user \in ToSet(rule.outbox)
                /\ EntryPasses(rule, p.row.topic, Head(todo).entry)
                /\ \A e \in AtomEntriesServed :
                    Head(todo).entry = FromAtom(e) /\ e.summary = {} /\ ContentsDescribed(e)
                    => \A x \in rule.exclude : \A text \in x.text : ~(ContentDescriptions(e) \subseteq text)
  <2> SUFFICES ASSUME Inv, OutsInv, [Next]_vars, NEW c \in Conns, posts[c] = {}, NEW p \in posts'[c]
               PROVE  \E rule \in ToSet(manifest.rule) :
                /\ p.user \in ToSet(rule.outbox)
                /\ EntryPasses(rule, p.row.topic, Head(todo).entry)
                /\ \A e \in AtomEntriesServed :
                    Head(todo).entry = FromAtom(e) /\ e.summary = {} /\ ContentsDescribed(e)
                    => \A x \in rule.exclude : \A text \in x.text : ~(ContentDescriptions(e) \subseteq text)
    BY Zenon
  <2>1. p.row = Row(Head(todo)) /\ Named(manifest, Head(todo), p.user)
    BY PostStep
  <2>2. PICK rule \in ToSet(manifest.rule) :
            EntryPasses(rule, Head(todo).topic, Head(todo).entry) /\ p.user \in ToSet(rule.outbox)
    BY <2>1 DEF Named
  <2>3. p.row.topic = Head(todo).topic
    BY <2>1 DEF Row
  <2>4. \A x \in rule.exclude : ~MatchesEntry(x, Head(todo).entry)
    BY <2>2 DEF EntryPasses
  <2>5. ASSUME NEW e \in AtomEntriesServed, Head(todo).entry = FromAtom(e), e.summary = {},
               ContentsDescribed(e), NEW x \in rule.exclude, NEW text \in x.text
        PROVE  ~(ContentDescriptions(e) \subseteq text)
    <3>1. ~MatchesEntry(x, FromAtom(e))
      BY <2>4, <2>5, Zenon
    <3> QED BY <1>3, <2>5, <3>1, Zenon
  <2> QED BY <2>2, <2>3, <2>5, Zenon
<1> QED BY <1>1, <1>2, <1>4, Invariant, PTL DEF Spec, ExcludedIsNotPosted

------------------------------------------------------------------------------
(* The tokens of those who post.                                             *)

LEMMA Demands ==
  ASSUME NEW m \in Manifests, NEW rule \in ToSet(m.rule), NEW u \in ToSet(rule.outbox)
  PROVE  m.twitter # {} /\ u \in TokenUsers(m)
<1>1. u \in TwitterOutboxes(m)
  BY DEF TwitterOutboxes, ToSet
<1>2. Valid(m)
  BY ManifestsAssumption
<1> QED BY <1>1, <1>2 DEF Valid, TokenUsers

\* Who retweets a tweet that has just been recorded is named by a rule, and so is somebody
\* if a duplicate of it is looked for.
LEMMA DueIsDemanded ==
  ASSUME Inv, [Next]_vars
  PROVE  /\ \A j \in jobs' \ jobs : manifest.twitter # {} /\ j.user \in TokenUsers(manifest)
         /\ ~(showing' \subseteq showing) => manifest.twitter # {} /\ TokenUsers(manifest) # {}
<1> DEFINE tweet == Head(todo).tweet
<1>1. CASE ~SendTweet
  BY <1>1, OnlySendTweet
<1>2. CASE SendTweet
  <2>1. PICK outboxes \in Seq(AllUsers), phase \in {"held", "sent"} :
          /\ outboxes = RouteTweet(Router, tweet) /\ (phase = "held" => outboxes # <<>>)
          /\ jobs' = jobs \cup {Job(r) : r \in {Retweet(tweet, n, outboxes[n], phase) : n \in DOMAIN outboxes}}
          /\ showing' = IF phase = "held" THEN showing \cup {tweet} ELSE showing
    BY <1>2, Due DEF Inv
  <2>2. manifest \in Manifests
    BY DEF Inv, ProcessInv
  <2>3. ASSUME NEW u \in ToSet(outboxes) PROVE manifest.twitter # {} /\ u \in TokenUsers(manifest)
    <3>1. u \in ToSet(RouteTweet(RouterOf(manifest), tweet))
      BY <2>1, <2>3 DEF Router
    <3>2. PICK rule \in ToSet(manifest.rule) : u \in ToSet(rule.outbox)
      <4> HIDE DEF tweet
      <4> QED BY <2>2, <3>1, TweetRoutes, Zenon
    <3> QED BY <2>2, <3>2, Demands
  <2>4. ASSUME NEW j \in jobs' \ jobs PROVE j.user \in ToSet(outboxes)
    <3>1. PICK n \in DOMAIN outboxes : j = Job(Retweet(tweet, n, outboxes[n], phase))
      BY <2>1
    <3> QED BY <3>1 DEF Job, Retweet, ToSet
  <2>5. ASSUME ~(showing' \subseteq showing) PROVE Head(outboxes) \in ToSet(outboxes)
    <3>1. outboxes # <<>>
      BY <2>1, <2>5
    <3> QED BY <3>1, HeadAndTail, Zenon
  <2> HIDE DEF tweet
  <2> QED BY <2>3, <2>4, <2>5, Zenon
<1> QED BY <1>1, <1>2

\* The sender never asks for a token that the manifest in force does not demand, so that with
\* TokensAlwaysCover of LifecycleProofs it never panics for want of one.
THEOREM TokensAreAtHand == Spec => TokensAtHand
<1>1. Init => OutsInv
  BY DEF Init, OutsInv
<1>2. Inv /\ OutsInv /\ [Next]_vars => OutsInv'
  BY OutsStepInv DEF Inv
<1> DEFINE Demanded == IF manifest.twitter = {} THEN {} ELSE TokenUsers(manifest)
<1>3. Inv /\ OutsInv /\ [Next]_vars =>
        /\ \A c \in Conns : posts[c] = {} => {p.user : p \in posts'[c]} \subseteq Demanded
        /\ {j.user : j \in jobs' \ jobs} \subseteq Demanded
        /\ Demanded = {} => showing' \subseteq showing
  <2> SUFFICES ASSUME Inv, OutsInv, [Next]_vars
               PROVE  /\ \A c \in Conns : posts[c] = {} => {p.user : p \in posts'[c]} \subseteq Demanded
                      /\ {j.user : j \in jobs' \ jobs} \subseteq Demanded
                      /\ Demanded = {} => showing' \subseteq showing
    OBVIOUS
  <2>1. ASSUME NEW c \in Conns, posts[c] = {}, NEW p \in posts'[c] PROVE p.user \in Demanded
    <3>1. manifest \in Manifests
      BY DEF Inv, ProcessInv
    <3>2. PICK rule \in ToSet(manifest.rule) : p.user \in ToSet(rule.outbox)
      BY <2>1, PostStep DEF Named
    <3> QED BY <3>1, <3>2, Demands
  <2>2. (\A j \in jobs' \ jobs : j.user \in Demanded) /\ (Demanded = {} => showing' \subseteq showing)
    BY DueIsDemanded
  <2> HIDE DEF Demanded
  <2> QED BY <2>1, <2>2, Zenon
<1> QED BY <1>1, <1>2, <1>3, Invariant, PTL DEF Spec, TokensAtHand

\* Every variable keeps its type: no connection ever serves two posts.
THEOREM TypeCorrect == Spec => []TypeOK
<1>1. Init => LastInv /\ CountsInv
  BY DEF Init, LastInv, CountsInv
<1>2. Inv /\ LastInv /\ CountsInv /\ [Next]_vars => LastInv' /\ CountsInv'
  BY LastStep, CountsStepInv
<1>3. Inv => \A c \in Conns : Cardinality(posts[c]) <= 1
  <2> SUFFICES ASSUME Inv, NEW c \in Conns PROVE Cardinality(posts[c]) <= 1
    OBVIOUS
  <2>1. CASE posts[c] = {}
    BY <2>1, FS_EmptySet
  <2>2. CASE posts[c] # {}
    <3>1. PICK p \in posts[c] : posts[c] = {p}
      BY <2>2 DEF Inv, PostsInv
    <3>2. Cardinality({p}) = 1
      BY FS_Singleton
    <3> QED BY <3>1, <3>2
  <2> QED BY <2>1, <2>2
<1>4. Inv => Pending \subseteq jobs /\ showing \subseteq AllTweets
  BY IsPending DEF Inv, RetweetsInv
<1>5. Inv /\ LastInv /\ CountsInv => TypeOK
  BY <1>3, <1>4 DEF LastInv, Inv, ProcessInv, HandInv, RetweetsInv, JobsInv, Jobs, CountsInv, TypeOK
<1> QED BY <1>1, <1>2, <1>5, Invariant, PTL DEF Spec

------------------------------------------------------------------------------
(* Content distribution by itself.                                           *)

\* A call has the topic of a subscription that was made, and the signature and the type of
\* a request.
CallsInv ==
    /\ made \in [SubIds -> SUBSET Urls]
    /\ \A i \in SubIds : subs[i] \subseteq made[i] /\ \A u, v \in made[i] : u = v
    /\ \A c \in calls :
        /\ c.topic \in made[c.secret] /\ c.kind # {}
        /\ \E req \in Requests : c.signature \in req.signature /\ \E m \in req.mime : c.kind = MediaType(m)

SignedInv ==
    \A i \in 1 .. Len(channel) : channel[i].signer # NoId =>
        /\ channel[i].topic \in made[channel[i].signer]
        /\ \E req \in Requests : Signs(req, channel[i])

ContentIInv == ContentInv /\ CallsInv /\ SignedInv

LEMMA ChannelTyped ==
  ASSUME ContentInv, NEW i \in 1 .. Len(channel)
  PROVE  channel[i].topic \in Urls /\ channel[i].signer \in SubIds \cup {NoId}
<1>1. channel[i] \in Updates
  BY ElementOfSeq DEF ContentInv
<1> QED BY <1>1 DEF Updates

LEMMA AppendedIsSigned ==
  ASSUME ContentIInv, NEW u \in Updates, channel' = Append(channel, u), made' = made,
         u.signer # NoId => u.topic \in made[u.signer] /\ \E req \in Requests : Signs(req, u)
  PROVE  SignedInv'
<1>1. Len(channel') = Len(channel) + 1 /\ Len(channel) \in Nat
  BY AppendProperties DEF ContentIInv, ContentInv
<1>2. \A i \in 1 .. Len(channel') : (i \in 1 .. Len(channel) /\ channel'[i] = channel[i]) \/ channel'[i] = u
  BY <1>1, AppendProperties DEF ContentIInv, ContentInv
<1> QED BY <1>2 DEF ContentIInv, SignedInv, Signs

LEMMA CallsAndSignedKept ==
  ASSUME ContentIInv, calls' \subseteq calls, UNCHANGED made, \A i \in SubIds : subs'[i] \subseteq subs[i]
  PROVE  CallsInv' /\ (UNCHANGED channel => SignedInv')
<1>1. CallsInv'
  BY DEF ContentIInv, CallsInv
<1>2. UNCHANGED channel => SignedInv'
  BY DEF ContentIInv, SignedInv, Signs
<1> QED BY <1>1, <1>2

LEMMA ContentIStep ==
  ContentIInv /\ (ContentNext \/ UNCHANGED contentVars) => ContentIInv'
<1> SUFFICES ASSUME ContentIInv, ContentNext \/ UNCHANGED contentVars PROVE CallsInv' /\ SignedInv'
  BY ContentStepInv DEF ContentIInv, ContentInv, contentVars
<1>1. ASSUME NEW i \in SubIds, RemoveSubscription(i) PROVE CallsInv' /\ SignedInv'
  <2>1. \A j \in SubIds : subs'[j] \subseteq subs[j]
    BY <1>1 DEF RemoveSubscription, ContentIInv, ContentInv
  <2> QED BY <1>1, <2>1, CallsAndSignedKept DEF RemoveSubscription
<1>2. ASSUME NEW i \in SubIds, NEW url \in Urls, MakeSubscription(i, url) PROVE CallsInv' /\ SignedInv'
  <2>1. /\ made' \in [SubIds -> SUBSET Urls]
        /\ \A j \in SubIds : made'[j] = IF j = i THEN {url} ELSE made[j]
        /\ \A j \in SubIds : subs'[j] = IF j = i THEN {url} ELSE subs[j]
    BY <1>2 DEF MakeSubscription, ContentIInv, ContentInv, CallsInv
  <2>2. made[i] = {} /\ UNCHANGED <<calls, channel>>
    BY <1>2 DEF MakeSubscription
  <2>3. CallsInv'
    BY <2>1, <2>2 DEF ContentIInv, ContentInv, CallsInv
  <2>4. \A k \in 1 .. Len(channel) : channel[k].signer \in SubIds \cup {NoId}
    BY ChannelTyped DEF ContentIInv
  <2>5. \A j \in SubIds : made[j] # {} => made'[j] = made[j]
    BY <2>1, <2>2
  <2>6. SignedInv'
    <3> SUFFICES ASSUME NEW k \in 1 .. Len(channel), channel[k].signer # NoId
                 PROVE  /\ channel[k].topic \in made'[channel[k].signer]
                        /\ \E req \in Requests : Signs(req, channel[k])
      BY <2>2 DEF SignedInv, Signs
    <3> QED BY <2>4, <2>5 DEF ContentIInv, SignedInv
  <2> QED BY <2>3, <2>6
<1>3. ASSUME NEW req \in Requests, Call(req) PROVE CallsInv' /\ SignedInv'
  <2>1. PICK i \in req.id, m \in req.mime, s \in req.signature : \E url \in subs[i] :
        calls' = calls \cup {[topic |-> url, secret |-> i, kind |-> MediaType(m),
                              signature |-> s, body |-> req.body]}
    BY <1>3 DEF Call
  <2>2. PICK url \in subs[i] :
        calls' = calls \cup {[topic |-> url, secret |-> i, kind |-> MediaType(m),
                              signature |-> s, body |-> req.body]}
    BY <2>1
  <2>3. i \in SubIds
    BY ContentAssumption
  <2>4. MediaType(m) # {}
    BY <1>3, ContentAssumption DEF Call, Readable
  <2>5. UNCHANGED <<subs, made, channel>>
    BY <1>3 DEF Call
  <2>6. CallsInv'
    BY <2>2, <2>3, <2>4, <2>5 DEF ContentIInv, CallsInv
  <2> QED BY <2>5, <2>6 DEF ContentIInv, SignedInv, Signs
<1>4. ASSUME NEW call \in calls, BodyArrives(call) PROVE CallsInv' /\ SignedInv'
  <2>1. calls' \subseteq calls /\ UNCHANGED <<subs, made>>
    BY <1>4 DEF BodyArrives
  <2>2. ASSUME NEW f \in UNION {Parse(k, call.body) : k \in call.kind},
               channel' = Append(channel, Update(call.topic, f, call.signature.key)),
               Verifies(call)
        PROVE  SignedInv'
    <3> DEFINE u == Update(call.topic, f, call.signature.key)
    <3>1. PICK k \in call.kind : f \in Parse(k, call.body)
      OBVIOUS
    <3>2. k \in Kinds /\ call.body \in Served /\ call.topic \in Urls /\ call.secret \in SubIds
      BY DEF ContentIInv, ContentInv
    <3>3. f \in Seq(Entries)
      BY <3>1, <3>2, Parsed
    <3>4. u \in Updates /\ u.signer = call.secret /\ u.topic = call.topic /\ u.feed = f
      BY <2>2, <3>2, <3>3 DEF Update, Updates, Verifies
    <3>5. PICK req \in Requests :
            call.signature \in req.signature /\ \E m \in req.mime : call.kind = MediaType(m)
      BY DEF ContentIInv, CallsInv
    <3>6. call.signature.key = u.signer /\ u.feed \in Parse(k, call.signature.content)
      BY <2>2, <3>1, <3>4 DEF Verifies
    <3>7. Signs(req, u)
      BY <3>2, <3>5, <3>6 DEF Signs, Kinds
    <3>8. u.topic \in made[u.signer]
      BY <3>4 DEF ContentIInv, CallsInv
    <3> HIDE DEF u
    <3> QED BY <2>1, <2>2, <3>4, <3>5, <3>7, <3>8, AppendedIsSigned DEF u
  <2>3. CallsInv' /\ (UNCHANGED channel => SignedInv')
    BY <2>1, CallsAndSignedKept
  <2> QED BY <1>4, <2>2, <2>3 DEF BodyArrives
<1>5. ASSUME NEW call \in calls, BodyFails(call) PROVE CallsInv' /\ SignedInv'
  BY <1>5, CallsAndSignedKept DEF BodyFails
<1>6. ASSUME NEW url \in fetching, FetchFails(url) PROVE CallsInv' /\ SignedInv'
  BY <1>6, CallsAndSignedKept DEF FetchFails
<1>7. ASSUME NEW url \in fetching, NEW p \in Published, Fetched(url, p) PROVE CallsInv' /\ SignedInv'
  <2> DEFINE kind == IF p.mime = {} THEN {"Xml"} ELSE UNION {MediaType(m) : m \in p.mime}
  <2>1. UNCHANGED <<subs, made, calls>>
    BY <1>7 DEF Fetched
  <2>2. ASSUME NEW f \in UNION {Parse(k, Unhubbed(p.document)) : k \in kind},
               channel' = Append(channel, Update(url, f, NoId))
        PROVE  SignedInv'
    <3>1. Unhubbed(p.document) \in Served /\ kind \subseteq Kinds
      BY MediaTypes DEF Served, Kinds
    <3>2. f \in Seq(Entries)
      BY <3>1, Parsed
    <3>3. Update(url, f, NoId) \in Updates /\ Update(url, f, NoId).signer = NoId
      BY <3>2 DEF Update, Updates, ContentIInv, ContentInv
    <3> QED BY <2>1, <2>2, <3>3, AppendedIsSigned
  <2>3. CallsInv' /\ (UNCHANGED channel => SignedInv')
    BY <2>1, CallsAndSignedKept
  <2> QED BY <1>7, <2>2, <2>3 DEF Fetched
<1>8. CASE UNCHANGED contentVars
  BY <1>8, CallsAndSignedKept DEF contentVars
<1> QED BY <1>1, <1>2, <1>3, <1>4, <1>5, <1>6, <1>7, <1>8 DEF ContentNext

LEMMA ContentInvariant == ContentSpec => []ContentIInv
<1>1. ContentInit => ContentIInv
  <2> SUFFICES ASSUME ContentInit PROVE CallsInv /\ SignedInv
    BY ContentInitInv DEF ContentIInv
  <2> QED BY DEF ContentInit, CallsInv, SignedInv
<1>2. ContentIInv /\ (\E url \in Urls : Fetch(url)) => ContentIInv'
  <2> SUFFICES ASSUME ContentIInv, NEW url \in Urls, Fetch(url) PROVE ContentIInv'
    OBVIOUS
  <2>1. ContentInv'
    BY DEF Fetch, ContentIInv, ContentInv
  <2> QED BY <2>1, CallsAndSignedKept DEF Fetch, ContentIInv
<1>3. ContentIInv /\ Receive => ContentIInv'
  <2> SUFFICES ASSUME ContentIInv, Receive PROVE ContentIInv'
    OBVIOUS
  <2>1. ContentInv'
    BY DEF Receive, ContentIInv, ContentInv
  <2>2. CallsInv'
    BY CallsAndSignedKept DEF Receive
  <2>3. channel \in Seq(Updates) /\ channel # <<>> /\ channel' = Tail(channel)
    BY DEF Receive, ContentIInv, ContentInv
  <2>4. /\ Len(channel) \in Nat /\ Len(channel') = Len(channel) - 1
        /\ \A i \in 1 .. Len(channel') : channel'[i] = channel[i + 1] /\ i + 1 \in 1 .. Len(channel)
    BY <2>3, HeadTailProperties, LenProperties
  <2>5. SignedInv'
    BY <2>4 DEF Receive, ContentIInv, SignedInv, Signs
  <2> QED BY <2>1, <2>2, <2>5 DEF ContentIInv
<1> QED BY <1>1, <1>2, <1>3, ContentIStep, PTL DEF ContentSpec

\* An update that was not fetched by pipitor itself was signed with the secret of a
\* subscription to its topic.
THEOREM HubsAreAuthentic == ContentSpec => []UpdatesAreSigned
<1>1. ContentIInv => UpdatesAreSigned
  BY DEF ContentIInv, ContentInv, SignedInv, UpdatesAreSigned, ToSet
<1> QED BY <1>1, ContentInvariant, PTL

\* Every variable keeps its type: an id is used for one topic only.
THEOREM ContentTypeCorrect == ContentSpec => []ContentTypeOK
<1>1. ContentIInv => \A i \in SubIds : Cardinality(made[i]) <= 1
  <2> SUFFICES ASSUME ContentIInv, NEW i \in SubIds PROVE Cardinality(made[i]) <= 1
    OBVIOUS
  <2>1. CASE made[i] = {}
    BY <2>1, FS_EmptySet
  <2>2. CASE made[i] # {}
    <3>1. PICK u \in made[i] : made[i] = {u}
      BY <2>2 DEF ContentIInv, CallsInv
    <3>2. Cardinality({u}) = 1
      BY FS_Singleton
    <3> QED BY <3>1, <3>2
  <2> QED BY <2>1, <2>2
<1>2. ContentIInv => \A c \in calls : c.kind \in {{"Atom"}, {"Rss"}, {"Xml"}}
  BY DEF ContentIInv, CallsInv, MediaType
<1>3. ContentIInv =>
        \A i \in DOMAIN channel : channel[i].topic \in Urls /\ channel[i].signer \in SubIds \cup {NoId}
  <2>1. ContentIInv => DOMAIN channel = 1 .. Len(channel)
    BY LenProperties DEF ContentIInv, ContentInv
  <2> QED BY <2>1, ChannelTyped DEF ContentIInv
<1>4. ContentIInv => ContentTypeOK
  BY <1>1, <1>2, <1>3 DEF ContentIInv, ContentInv, CallsInv, ContentTypeOK
<1> QED BY <1>4, ContentInvariant, PTL

==============================================================================
