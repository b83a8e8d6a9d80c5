------------------------------ MODULE Manifest -------------------------------
(***************************************************************************)
(* The manifest of pipitor (src/manifest.rs): how a document becomes one,  *)
(* what it says about topics and outboxes, and the router built from it    *)
(* (src/router.rs), which says where an entry or a tweet goes.             *)
(*                                                                         *)
(* An optional value is a set of at most one element, {} for None.  A      *)
(* regular expression is the set of the texts it matches.  A document is a *)
(* tree of nodes [t |-> type, v |-> value] as the deserializers see them.  *)
(***************************************************************************)
EXTENDS Naturals, SequencesExt

\* The items of a sequence of options, or none if one of them is missing.
Collect(s) ==
    IF \E i \in DOMAIN s : s[i] = {} THEN {}
    ELSE {[i \in DOMAIN s |-> CHOOSE x \in s[i] : TRUE]}

------------------------------------------------------------------------------
(* Topics, outboxes and filters.                                             *)

FeedTopic(url) == [kind |-> "feed", id |-> url]
TwitterTopic(user) == [kind |-> "twitter", id |-> user]

\* `union_visitor!`: the variant of an enum is ignored, once.
Unwrapped(node) == IF node.t = "enum" THEN node.v ELSE node

TopicOf(node) ==
    LET n == Unwrapped(node) IN
    CASE n.t = "int" -> {TwitterTopic(n.v)}
      [] n.t = "str" -> {FeedTopic(n.v)}
      [] OTHER -> {}

\* `Outbox::Twitter` is the only kind: an outbox is its user.
OutboxOf(node) ==
    LET n == Unwrapped(node) IN IF n.t = "int" THEN {n.v} ELSE {}

\* `de_outbox` takes an integer or an array, but no variant of an enum outside an array.
OutboxesOf(node) ==
    CASE node.t = "int" -> {<<node.v>>}
      [] node.t = "seq" -> Collect([i \in DOMAIN node.v |-> OutboxOf(node.v[i])])
      [] OTHER -> {}

\* A string is a filter of titles; a map has a title and may have a text.
FilterOf(node) ==
    CASE node.t = "str" -> {[title |-> node.v, text |-> {}]}
      [] node.t = "map" -> {[title |-> node.v.title, text |-> node.v.text]}
      [] OTHER -> {}

\* `title`, `summary` and `content` are optional in an entry.
MatchesEntry(filter, entry) ==
    \/ entry.title \cap filter.title # {}
    \/ \E text \in filter.text : (entry.content \cup entry.summary) \cap text # {}

MatchesTweet(filter, tweet) ==
    tweet.text \in filter.title \cup UNION filter.text

------------------------------------------------------------------------------
(* Manifests.                                                                *)

\* A filter that is left out is None; one that is malformed is an error.
OptionalFilterOf(node) ==
    IF node = {} THEN {{}} ELSE {{f} : f \in UNION {FilterOf(n) : n \in node}}

RuleOf(node) ==
    {[filter |-> f, exclude |-> x, outbox |-> o, topics |-> ts] :
        f \in OptionalFilterOf(node.filter), x \in OptionalFilterOf(node.exclude),
        o \in OutboxesOf(node.outbox),
        ts \in Collect([i \in DOMAIN node.topics |-> TopicOf(node.topics[i])])}

TopicSet(manifest) == UNION {ToSet(manifest.rule[i].topics) : i \in DOMAIN manifest.rule}
TwitterOutboxes(manifest) == UNION {ToSet(manifest.rule[i].outbox) : i \in DOMAIN manifest.rule}

HasTopic(manifest, topic) == topic \in TopicSet(manifest)
FeedTopics(manifest) == {t.id : t \in {u \in TopicSet(manifest) : u.kind = "feed"}}
TwitterTopics(manifest) == {t.id : t \in {u \in TopicSet(manifest) : u.kind = "twitter"}}

\* `validate_`: topics and outboxes on Twitter need credentials.
Valid(manifest) ==
    manifest.twitter = {} => TwitterTopics(manifest) = {} /\ TwitterOutboxes(manifest) = {}

\* The users whose tokens the application needs, if it talks to Twitter at all.
TokenUsers(manifest) == TwitterOutboxes(manifest) \cup {t.user : t \in manifest.twitter}

\* `has_updates` of a reload: the stream and the list timeline are made anew.  Changes of
\* the API secret, of `stream` or `list`, or the removal of `twitter` are none.
HasUpdates(old, new) ==
    \E t \in new.twitter :
        \/ \A u \in old.twitter : t.client # u.client \/ t.user # u.user
        \/ TwitterTopics(new) # TwitterTopics(old)

\* A callback has a scheme and no query.
CallbackValid(uri) == uri.scheme /\ ~uri.query

\* A manifest without a `rule` or with a malformed or invalid part is an error.
ManifestOf(document) ==
    {m \in {[document EXCEPT !.rule = rs] :
                rs \in UNION {Collect([i \in DOMAIN r |-> RuleOf(r[i])]) : r \in document.rule}} :
        Valid(m) /\ \A w \in m.websub : CallbackValid(w.callback)}

\* A relative path, or the path of a relative file URI, is joined to `base`.  A path is the
\* sequence of its components.
JoinedPath(url, base) ==
    IF url.absolute THEN url ELSE [url EXCEPT !.path = base \o @]

\* `resolve_paths`.
Resolved(manifest, base) ==
    [manifest EXCEPT !.database_url = {JoinedPath(url, base) : url \in @}]

\* `database_url`: `default` is `$DATABASE_URL` or pipitor.sqlite3, and is not resolved.
DatabaseUrl(manifest, default) ==
    IF manifest.database_url = {} THEN default ELSE CHOOSE url \in manifest.database_url : TRUE

------------------------------------------------------------------------------
(* The router.                                                               *)

\* Faulty variant: only the first rule of a topic is kept.
RouterOf_first(manifest) ==
    [t \in TopicSet(manifest) |->
        LET rules == SelectSeq(manifest.rule, LAMBDA r : t \in ToSet(r.topics))
        IN  <<[filter |-> rules[1].filter, exclude |-> rules[1].exclude,
               outbox |-> rules[1].outbox]>>]

\* `from_manifest` appends a rule's route to each of its topics, one that it repeats included.
RouterOf(manifest) ==
    [t \in TopicSet(manifest) |->
        FlattenSeq([i \in DOMAIN manifest.rule |->
            LET r == manifest.rule[i]
                route == [filter |-> r.filter, exclude |-> r.exclude, outbox |-> r.outbox]
            IN  FlattenSeq([j \in DOMAIN r.topics |->
                    IF r.topics[j] = t THEN <<route>> ELSE <<>>])])]

Routed(router, topic, Matches(_)) ==
    IF topic \notin DOMAIN router THEN <<>>
    ELSE FlattenSeq([i \in DOMAIN router[topic] |->
            LET r == router[topic][i] IN
            IF (\A f \in r.filter : Matches(f)) /\ (\A x \in r.exclude : ~Matches(x))
            THEN r.outbox ELSE <<>>])

\* The outboxes of an entry or a tweet, in order and with repetitions.
RouteEntry(router, topic, entry) ==
    Routed(router, FeedTopic(topic), LAMBDA f : MatchesEntry(f, entry))

RouteTweet(router, tweet) ==
    Routed(router, TwitterTopic(tweet.user), LAMBDA f : MatchesTweet(f, tweet))

==============================================================================
