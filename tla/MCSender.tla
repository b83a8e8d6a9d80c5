------------------------------ MODULE MCSender -------------------------------
(***************************************************************************)
(* Instances of Sender for TLC: a feed with an entry for two outboxes, and *)
(* an account that tweets the same text twice.                             *)
(***************************************************************************)
EXTENDS Sender

Atom == {[type |-> "application", subtype |-> "atom", suffix |-> "xml"]}

Link(rel, href) == [rel |-> rel, href |-> href]
Value(v) == [value |-> {v}]

\* The description of the entry is "calm", that of its content "spoiler".
Media ==
    <<[mrss |-> TRUE, description |-> <<Value("calm")>>,
       content |-> <<[description |-> <<Value("spoiler")>>]>>, group |-> <<>>]>>

AtomEntry(id, links, extensions) ==
    [title |-> "title", id |-> id, links |-> links, summary |-> {}, content |-> {},
     extensions |-> extensions]

AtomDocument ==
    [atom |-> {[entries |-> <<AtomEntry("e3", <<Link("alternate", "l3")>>, Media),
                              AtomEntry("e1", <<Link("self", "feed"), Link("alternate", "l1")>>, <<>>)>>]},
     rss |-> {}]

Item(link) ==
    [title |-> {}, guid |-> {}, link |-> link, description |-> {}, extensions |-> <<>>,
     content |-> {}]

\* An item without a link, and the link of e1 without an id.
RssDocument ==
    [atom |-> {}, rss |-> {[entries |-> <<Item({}), Item({"l1"})>>]}]

OnePublished ==
    {[mime |-> Atom, document |-> AtomDocument], [mime |-> {}, document |-> RssDocument]}

Rule(filter, exclude, outbox, topics) ==
    [filter |-> filter, exclude |-> exclude, outbox |-> outbox, topics |-> topics]

Feeds(outbox) == Rule({}, {[title |-> {}, text |-> {{"spoiler"}}]}, outbox, <<FeedTopic("feed")>>)
Greetings(text, outbox) ==
    Rule({[title |-> {text}, text |-> {}]}, {}, <<outbox>>, <<TwitterTopic("u")>>)

Hooks == {[callback |-> [scheme |-> TRUE, query |-> FALSE]]}

TheManifest(rules, websub, stream, skip_duplicate) ==
    [rule |-> rules, database_url |-> {}, websub |-> websub,
     twitter |-> {[client |-> "app", user |-> "a", stream |-> stream, list |-> TRUE]},
     skip_duplicate |-> skip_duplicate]

\* User b, and websub, are in the first only: after a reload the second has a subscriber too.
OneManifests ==
    {TheManifest(<<Feeds(<<"a", "b">>), Greetings("hello", "b")>>, Hooks, TRUE, TRUE),
     TheManifest(<<Feeds(<<"a">>), Greetings("bye", "a"), Greetings("hello", "a")>>, {}, FALSE, FALSE)}

Tweet(id) == [id |-> id, user |-> "u", text |-> "hello", retweet |-> FALSE, reply |-> {}]

\* A member of the list who is no topic retweets something; the stream does not bring this.
Retweeted == [id |-> 0, user |-> "v", text |-> "RT", retweet |-> TRUE, reply |-> {}]

OneTweets == {Tweet(1), Tweet(2), Retweeted}
OneBatches == {<<Tweet(2), Tweet(1), Retweeted>>}

==============================================================================
