-------------------------- MODULE SubscriptionStore --------------------------
(***************************************************************************)
(* The four WebSub tables of pipitor's SQLite database and the             *)
(* transactions the program runs on them (src/websub/hub.rs and            *)
(* src/websub/subscriber/service.rs, over the schema in migrations).       *)
(*                                                                         *)
(* What the tables may contain and how one committed statement or          *)
(* transaction may change them, whoever runs it (scheduler, request        *)
(* handler, start-up or the command-line tool).  The actors of module      *)
(* WebSub are made of these transactions.                                  *)
(***************************************************************************)
EXTENDS Integers

CONSTANTS
    Ids,      \* subscription ids: random 63-bit integers in the code
    NoId,     \* "no row" of websub_renewing_subscriptions
    Hubs,     \* hub URLs
    Topics,   \* topic URLs
    NoFeed,   \* "no row" of websub_subscriptions
    Times     \* the Unix times, in seconds, that rows and clocks hold

Feeds == [hub : Hubs, topic : Topics]

ASSUME NoIdAssumption == NoId \notin Ids
ASSUME NoFeedAssumption == NoFeed \notin Feeds
ASSUME TimesAssumption == Times \subseteq Nat

NotActive == -1

VARIABLES
    subs,       \* websub_subscriptions: id -> hub and topic (the secret is left out)
    pending,    \* websub_pending_subscriptions
    expiry,     \* websub_active_subscriptions: id -> expires_at
    renewing,   \* websub_renewing_subscriptions: new -> old
    used        \* ids ever drawn; a 63-bit random id is assumed never to come twice

storeVars == <<subs, pending, expiry, renewing, used>>

StoreTypeOK ==
    /\ subs \in [Ids -> Feeds \cup {NoFeed}]
    /\ pending \subseteq Ids
    /\ expiry \in [Ids -> Times \cup {NotActive}]
    /\ renewing \in [Ids -> Ids \cup {NoId}]
    /\ used \subseteq Ids

Held == {i \in Ids : subs[i] # NoFeed}
Active == {i \in Ids : expiry[i] # NotActive}
\* The subselect `query::renewing_subs`: subscriptions with a renewal in flight.
RenewingSubs == {renewing[n] : n \in Ids} \ {NoId}

StoreInit ==
    /\ subs = [i \in Ids |-> NoFeed]
    /\ pending = {}
    /\ expiry = [i \in Ids |-> NotActive]
    /\ renewing = [i \in Ids |-> NoId]
    /\ used = {}

------------------------------------------------------------------------------

\* `create_subscription`: a row under a fresh id, pending until the hub verifies it.
CreateSubscription(i, feed) ==
    /\ i \in Ids \ used
    /\ subs' = [subs EXCEPT ![i] = feed]
    /\ pending' = pending \cup {i}
    /\ used' = used \cup {i}

\* The database part of `hub::subscribe`.
Subscribe(i, feed) ==
    /\ CreateSubscription(i, feed)
    /\ UNCHANGED <<expiry, renewing>>

\* The transaction of `hub::renew` commits only if `old` is still active (foreign
\* key) and has no other renewal (UNIQUE).
Renewable(old) == old \in Active /\ old \notin RenewingSubs

Renew(old, new, feed) ==
    /\ CreateSubscription(new, feed)
    /\ renewing' = [renewing EXCEPT ![new] = old]
    /\ UNCHANGED expiry

\* A DELETE of the rows S of websub_subscriptions; ON DELETE CASCADE clears the
\* other tables, a renewing row from either end.
DeleteRows(S) ==
    /\ subs' = [i \in Ids |-> IF i \in S THEN NoFeed ELSE subs[i]]
    /\ pending' = pending \ S
    /\ expiry' = [i \in Ids |-> IF i \in S THEN NotActive ELSE expiry[i]]
    /\ renewing' = [n \in Ids |->
                       IF n \in S \/ renewing[n] \in S THEN NoId ELSE renewing[n]]
    /\ UNCHANGED used

\* The INSERT of the transaction that ends `verify_intent` succeeds if the row it
\* refers to is there and is not active yet.
Activatable(i) == i \in Held \ Active

\* Faulty variant: the pending row stays.
Activate_keeps_pending(i, expires_at) ==
    /\ Activatable(i)
    /\ expiry' = [expiry EXCEPT ![i] = expires_at]
    /\ UNCHANGED <<subs, pending, renewing, used>>

\* That transaction: the pending row goes (its renewing row with it) and the active
\* row appears.
Activate(i, expires_at) ==
    /\ Activatable(i)
    /\ pending' = pending \ {i}
    /\ renewing' = [renewing EXCEPT ![i] = NoId]
    /\ expiry' = [expiry EXCEPT ![i] = expires_at]
    /\ UNCHANGED <<subs, used>>

StoreNext ==
    \/ \E i \in Ids, feed \in Feeds : Subscribe(i, feed)
    \/ \E old, new \in Ids : Renewable(old) /\ Renew(old, new, subs[old])
    \/ \E S \in SUBSET Ids : DeleteRows(S)
    \/ \E i \in Ids, t \in Times : Activate(i, t)

StoreSpec == StoreInit /\ [][StoreNext]_storeVars

------------------------------------------------------------------------------

\* Every subscription is either waiting for its verification or active, never both
\* and never neither, and no pending or active row outlives it: `list` and the
\* scheduler would otherwise disagree on what is subscribed.
EachHeldOnce ==
    /\ Held = pending \cup Active
    /\ pending \cap Active = {}

\* A renewal links a pending subscription to the active one it will replace, for the
\* same hub and topic, and an active one has at most one replacement coming.
RenewalsLinked ==
    \A n \in Ids : renewing[n] # NoId =>
        /\ n \in pending
        /\ renewing[n] \in Active
        /\ subs[n] = subs[renewing[n]]
        /\ \A m \in Ids : renewing[m] = renewing[n] => m = n

\* An id in the tables was drawn at some time.
HeldAreUsed == Held \subseteq used

StoreConsistent == EachHeldOnce /\ RenewalsLinked /\ HeldAreUsed

==============================================================================
