------------------------------ MODULE MCContent ------------------------------
(***************************************************************************)
(* An instance of Content for TLC: two subscriptions, and requests that    *)
(* are right or wrong in one respect each.                                 *)
(***************************************************************************)
EXTENDS Content

Atom == [type |-> "application", subtype |-> "atom", suffix |-> "xml"]
Html == [type |-> "text", subtype |-> "html", suffix |-> ""]
Xml == [type |-> "text", subtype |-> "xml", suffix |-> ""]
Rdf == [type |-> "application", subtype |-> "rdf", suffix |-> "xml"]

Link(rel, href) == [rel |-> rel, href |-> href]

AtomDocument(href) ==
    [atom |-> {[entries |-> <<[title |-> "title", id |-> "e", links |-> <<Link("alternate", href)>>,
                               summary |-> {}, content |-> {}, extensions |-> <<>>]>>]},
     rss |-> {}]

\* A permalink serves as the link.
RssDocument ==
    [atom |-> {},
     rss |-> {[entries |-> <<[title |-> {}, guid |-> {[value |-> "l", permalink |-> TRUE]},
                               link |-> {}, description |-> {}, extensions |-> <<>>,
                               content |-> {}]>>]}]

CutDocument == [atom |-> {}, rss |-> {}]

Signature(key, content) ==
    [separator |-> TRUE, method |-> "sha1", hex |-> TRUE, key |-> key, content |-> content]

Good(id) ==
    [prefix |-> TRUE, id |-> {id}, query |-> FALSE, mime |-> {Atom},
     signature |-> {Signature(id, AtomDocument("l"))}, body |-> AtomDocument("l")]

\* Requests for subscription 1, and what may be wrong with them.
Odd ==
    {[Good(1) EXCEPT !.prefix = FALSE], [Good(1) EXCEPT !.id = {}],
     [Good(1) EXCEPT !.query = TRUE], [Good(1) EXCEPT !.mime = {Html}],
     [Good(1) EXCEPT !.mime = {}], [Good(1) EXCEPT !.signature = {}],
     [Good(1) EXCEPT !.signature = {[Signature(1, AtomDocument("l")) EXCEPT !.method = "sha256"]}],
     [Good(1) EXCEPT !.signature = {Signature(2, AtomDocument("l"))}],
     [Good(1) EXCEPT !.mime = {Xml}, !.signature = {Signature(1, CutDocument)}, !.body = CutDocument],
     [Good(1) EXCEPT !.body = AtomDocument("m")]}

TheRequests ==
    {Good(1), Good(2),
     [Good(2) EXCEPT !.mime = {Rdf}, !.signature = {Signature(2, RssDocument)}, !.body = RssDocument]}
    \cup Odd

ThePublished ==
    {[mime |-> {}, document |-> RssDocument], [mime |-> {Atom}, document |-> AtomDocument("l")],
     [mime |-> {Html}, document |-> AtomDocument("l")]}

==============================================================================
