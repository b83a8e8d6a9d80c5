------------------------------- MODULE Content -------------------------------
(***************************************************************************)
(* Content distribution: how the updates of feeds reach the application    *)
(* of pipitor (`Service::call` and `discover` in                           *)
(* src/websub/subscriber/service.rs, and the channel of                    *)
(* src/websub/subscriber.rs).                                              *)
(*                                                                         *)
(* The handler of a hub's request reads the subscription's row when the    *)
(* request's head is there; the body is read and verified later, in a task *)
(* of its own, while subscriptions come and go.  Whoever subscribes is     *)
(* modelled in WebSub; here subscriptions are just made and removed.       *)
(***************************************************************************)
EXTENDS Feed, FiniteSets

CONSTANTS
    SubIds,      \* ids of subscriptions; each is random and so used only once
    Urls,        \* the topics
    Published,   \* what their publishers may serve: [mime, document]
    Requests,    \* what hubs may send to a callback
    NoId,        \* in place of the id, for what the application fetched itself
    MaxUpdates   \* bound: updates on their way at a time

ASSUME ContentAssumption ==
    /\ NoId \notin SubIds /\ MaxUpdates \in Nat
    /\ \A req \in Requests : req.id \subseteq SubIds /\ \A m, n \in req.mime : m = n

VARIABLES
    subs,        \* id -> the topic of its row in websub_subscriptions, or {}
    made,        \* id -> the topic it was ever made for, or {}: history
    calls,       \* the tasks that read the body of a request
    fetching,    \* the topics being fetched by `discover`
    channel      \* from the tasks to the application

contentVars == <<subs, made, calls, fetching, channel>>

ContentInit ==
    /\ subs = [i \in SubIds |-> {}]
    /\ made = [i \in SubIds |-> {}]
    /\ calls = {} /\ fetching = {} /\ channel = <<>>

------------------------------------------------------------------------------

MakeSubscription(i, url) ==
    /\ made[i] = {}
    /\ made' = [made EXCEPT ![i] = {url}]
    /\ subs' = [subs EXCEPT ![i] = {url}]
    /\ UNCHANGED <<calls, fetching, channel>>

RemoveSubscription(i) ==
    /\ subs[i] # {}
    /\ subs' = [subs EXCEPT ![i] = {}]
    /\ UNCHANGED <<made, calls, fetching, channel>>

\* Faulty variant: the Content-Type is not looked at.
Readable_any(req) ==
    /\ req.prefix
    /\ req.id # {}
    /\ ~req.query
    /\ \E s \in req.signature : s.separator /\ s.method = "sha1" /\ s.hex
    /\ \A i \in req.id : subs[i] # {}

\* A request is [prefix, id, query, mime, signature, body]: whether the path starts with
\* that of the callback, the id in the rest of it, whether there is a query, and so on.
\* Requests that fail a condition change nothing: they are answered 404, 400, by
\* `verify_intent`, 415, 200 or 400 or 406 or 400 for the signature, and 410.
Readable(req) ==
    /\ req.prefix
    /\ req.id # {}
    /\ ~req.query
    /\ \E m \in req.mime : MediaType(m) # {}
    /\ \E s \in req.signature : s.separator /\ s.method = "sha1" /\ s.hex
    /\ \A i \in req.id : subs[i] # {}

\* `Service::call`: the handler answers 200 and leaves the body to a task, with the row's
\* topic and a MAC keyed by its secret.  The secret of a subscription is known by its id.
Call(req) ==
    /\ Cardinality(calls) + Len(channel) < MaxUpdates
    /\ Readable(req)
    /\ \E i \in req.id, m \in req.mime, s \in req.signature : \E url \in subs[i] :
        calls' = calls \cup {[topic |-> url, secret |-> i, kind |-> MediaType(m),
                              signature |-> s, body |-> req.body]}
    /\ UNCHANGED <<subs, made, fetching, channel>>

\* `sync_websub_subscriptions` fetches the topics of the manifest, at the start and in every
\* reload.
Fetch(url) ==
    /\ Cardinality(calls) + Cardinality(fetching) + Len(channel) < MaxUpdates
    /\ fetching' = fetching \cup {url}
    /\ UNCHANGED <<subs, made, calls, channel>>

Update(topic, feed, signer) == [topic |-> topic, feed |-> feed, signer |-> signer]

\* Faulty variant: the digest of the body is not compared.
Verifies_always(call) == TRUE

Verifies(call) ==
    call.signature.key = call.secret /\ call.signature.content = call.body

\* The body is there: a feed that the hub signed goes to the application.
BodyArrives(call) ==
    LET feeds == UNION {Parse(k, call.body) : k \in call.kind} IN
    /\ call \in calls
    /\ calls' = calls \ {call}
    /\ IF Verifies(call) /\ feeds # {}
       THEN \E f \in feeds :
                channel' = Append(channel, Update(call.topic, f, call.signature.key))
       ELSE UNCHANGED channel
    /\ UNCHANGED <<subs, made, fetching>>

BodyFails(call) ==
    /\ call \in calls
    /\ calls' = calls \ {call}
    /\ UNCHANGED <<subs, made, fetching, channel>>

\* What `discover` leaves of a document after it has looked for hubs: it takes the namespaces
\* of an RSS channel, so that no prefix stands for Media RSS in the items any more.
Unhubbed(document) ==
    LET plain(extensions) == [j \in DOMAIN extensions |-> [extensions[j] EXCEPT !.mrss = FALSE]]
        stripped(items) == [i \in DOMAIN items |-> [items[i] EXCEPT !.extensions = plain(@)]]
    IN  [document EXCEPT !.rss = {[c EXCEPT !.entries = stripped(@)] : c \in @}]

\* The answer to `discover`: without a Content-Type it is taken for XML.
Fetched(url, p) ==
    LET kind == IF p.mime = {} THEN {"Xml"} ELSE UNION {MediaType(m) : m \in p.mime}
        feeds == UNION {Parse(k, Unhubbed(p.document)) : k \in kind}
    IN
    /\ url \in fetching
    /\ fetching' = fetching \ {url}
    /\ IF feeds # {} THEN \E f \in feeds : channel' = Append(channel, Update(url, f, NoId))
       ELSE UNCHANGED channel
    /\ UNCHANGED <<subs, made, calls>>

FetchFails(url) ==
    /\ url \in fetching
    /\ fetching' = fetching \ {url}
    /\ UNCHANGED <<subs, made, calls, channel>>

ContentNext ==
    \/ \E i \in SubIds : RemoveSubscription(i) \/ \E url \in Urls : MakeSubscription(i, url)
    \/ \E req \in Requests : Call(req)
    \/ \E call \in calls : BodyArrives(call) \/ BodyFails(call)
    \/ \E url \in fetching : FetchFails(url) \/ \E p \in Published : Fetched(url, p)

\* `App::poll` takes an update.
Receive ==
    /\ channel # <<>>
    /\ channel' = Tail(channel)
    /\ UNCHANGED <<subs, made, calls, fetching>>

ContentSpec ==
    ContentInit /\ [][ContentNext \/ Receive \/ \E url \in Urls : Fetch(url)]_contentVars

------------------------------------------------------------------------------

ContentTypeOK ==
    /\ subs \in [SubIds -> SUBSET Urls] /\ made \in [SubIds -> SUBSET Urls]
    /\ \A i \in SubIds : subs[i] \subseteq made[i] /\ Cardinality(made[i]) <= 1
    /\ \A c \in calls : c.topic \in Urls /\ c.secret \in SubIds /\ c.kind \in {{"Atom"}, {"Rss"}, {"Xml"}}
    /\ fetching \subseteq Urls
    /\ \A i \in DOMAIN channel : channel[i].topic \in Urls /\ channel[i].signer \in SubIds \cup {NoId}

\* An update in the channel that came from a hub was signed, as it stands, with the secret
\* of a subscription to that very topic, although the row may be gone by now: the topic is
\* read with the request's head, and the body comes later.
Signs(req, update) ==
    \E s \in req.signature :
        /\ s.key = update.signer
        /\ \E m \in req.mime, k \in {"Atom", "Rss", "Xml"} :
            k \in MediaType(m) /\ update.feed \in Parse(k, s.content)

UpdatesAreSigned ==
    \A u \in ToSet(channel) :
        u.signer # NoId => u.topic \in made[u.signer] /\ \E req \in Requests : Signs(req, u)

==============================================================================
