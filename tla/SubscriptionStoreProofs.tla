----------------------- MODULE SubscriptionStoreProofs -----------------------
(***************************************************************************)
(* Whatever transactions run on the subscription tables, in whatever       *)
(* order, the tables stay well-typed and consistent.  The invariant        *)
(* StoreTypeOK /\ StoreConsistent is inductive as it stands.               *)
(***************************************************************************)
EXTENDS SubscriptionStore, TLAPS

StoreInv == StoreTypeOK /\ StoreConsistent

LEMMA StoreInitInv == StoreInit => StoreInv
  BY NoIdAssumption DEF StoreInit, StoreInv, StoreTypeOK, StoreConsistent, EachHeldOnce,
     RenewalsLinked, HeldAreUsed, Held, Active

LEMMA SubscribeInv ==
  ASSUME StoreInv, NEW i \in Ids, NEW feed \in Feeds, Subscribe(i, feed)
  PROVE  StoreInv'
<1> USE NoIdAssumption, NoFeedAssumption DEF StoreInv, Subscribe, CreateSubscription
<1>1. StoreTypeOK'
  BY DEF StoreTypeOK
<1>2. i \notin Held /\ i \notin Active
  BY DEF StoreTypeOK, StoreConsistent, EachHeldOnce, HeldAreUsed
<1>3. Held' = Held \cup {i} /\ Active' = Active
  BY DEF StoreTypeOK, Held, Active
<1>4. EachHeldOnce'
  BY <1>2, <1>3 DEF StoreConsistent, EachHeldOnce
<1>5. RenewalsLinked'
  BY <1>2, <1>3 DEF StoreTypeOK, StoreConsistent, EachHeldOnce, RenewalsLinked, Held
<1>6. HeldAreUsed'
  BY <1>3 DEF StoreConsistent, HeldAreUsed
<1> QED BY <1>1, <1>4, <1>5, <1>6 DEF StoreConsistent

LEMMA RenewInv ==
  ASSUME StoreInv, NEW old \in Ids, NEW new \in Ids,
         Renewable(old), Renew(old, new, subs[old])
  PROVE  StoreInv'
<1> USE NoIdAssumption, NoFeedAssumption DEF StoreInv, Renew, CreateSubscription
<1>1. old \in Held /\ subs[old] \in Feeds /\ old # new
  BY DEF Renewable, StoreTypeOK, StoreConsistent, EachHeldOnce, HeldAreUsed, Held
<1>2. StoreTypeOK'
  BY <1>1 DEF StoreTypeOK
<1>3. new \notin Held /\ new \notin Active
  BY DEF StoreTypeOK, StoreConsistent, EachHeldOnce, HeldAreUsed
<1>4. Held' = Held \cup {new} /\ Active' = Active
  BY <1>1 DEF StoreTypeOK, Held, Active
<1>5. EachHeldOnce'
  BY <1>3, <1>4 DEF StoreConsistent, EachHeldOnce
<1>6. RenewalsLinked'
  <2> SUFFICES ASSUME NEW n \in Ids, renewing'[n] # NoId
               PROVE  /\ n \in pending' /\ renewing'[n] \in Active'
                      /\ subs'[n] = subs'[renewing'[n]]
                      /\ \A m \in Ids : renewing'[m] = renewing'[n] => m = n
    BY DEF RenewalsLinked
  <2>1. \A m \in Ids : renewing[m] # old
    BY DEF Renewable, RenewingSubs
  <2>2. CASE n = new
    BY <1>1, <1>4, <2>1, <2>2 DEF Renewable, StoreTypeOK
  <2>3. CASE n # new
    <3>1. renewing'[n] = renewing[n] /\ renewing[n] # NoId /\ renewing[n] \in Ids
      BY <2>3 DEF StoreTypeOK
    <3>2. n \in pending /\ renewing[n] \in Active /\ subs[n] = subs[renewing[n]]
      BY <3>1 DEF StoreConsistent, RenewalsLinked
    <3>3. \A m \in Ids : renewing'[m] = renewing[n] => m = n
      BY <2>1, <3>1 DEF StoreTypeOK, StoreConsistent, RenewalsLinked
    <3> QED BY <1>3, <1>4, <2>3, <3>1, <3>2, <3>3 DEF StoreTypeOK
  <2> QED BY <2>2, <2>3
<1>7. HeldAreUsed'
  BY <1>4 DEF StoreConsistent, HeldAreUsed
<1> QED BY <1>2, <1>5, <1>6, <1>7 DEF StoreConsistent

LEMMA DeleteRowsInv ==
  ASSUME StoreInv, NEW S \in SUBSET Ids, DeleteRows(S)
  PROVE  StoreInv'
<1> USE NoIdAssumption, NoFeedAssumption DEF StoreInv, DeleteRows
<1>1. StoreTypeOK'
  BY DEF StoreTypeOK
<1>2. Held' = Held \ S /\ Active' = Active \ S
  BY DEF StoreTypeOK, Held, Active
<1>3. EachHeldOnce'
  BY <1>2 DEF StoreConsistent, EachHeldOnce
<1>4. RenewalsLinked'
  <2> SUFFICES ASSUME NEW n \in Ids, renewing'[n] # NoId
               PROVE  /\ n \in pending' /\ renewing'[n] \in Active'
                      /\ subs'[n] = subs'[renewing'[n]]
                      /\ \A m \in Ids : renewing'[m] = renewing'[n] => m = n
    BY DEF RenewalsLinked
  <2>1. n \notin S /\ renewing[n] \notin S /\ renewing'[n] = renewing[n]
    OBVIOUS
  <2>2. /\ n \in pending /\ renewing[n] \in Active
        /\ subs[n] = subs[renewing[n]]
        /\ \A m \in Ids : renewing[m] = renewing[n] => m = n
    BY <2>1 DEF StoreConsistent, RenewalsLinked
  <2> QED BY <1>2, <2>1, <2>2 DEF StoreTypeOK
<1>5. HeldAreUsed'
  BY <1>2 DEF StoreConsistent, HeldAreUsed
<1> QED BY <1>1, <1>3, <1>4, <1>5 DEF StoreConsistent

LEMMA ActivateInv ==
  ASSUME StoreInv, NEW i \in Ids, NEW t \in Times, Activate(i, t)
  PROVE  StoreInv'
<1> USE NoIdAssumption, NoFeedAssumption, TimesAssumption DEF StoreInv, Activate
<1>1. StoreTypeOK'
  BY DEF StoreTypeOK
<1>2. Held' = Held /\ Active' = Active \cup {i}
  BY DEF StoreTypeOK, Held, Active, NotActive
<1>3. EachHeldOnce'
  BY <1>2 DEF StoreConsistent, EachHeldOnce, Activatable
<1>4. RenewalsLinked'
  BY <1>2 DEF StoreTypeOK, StoreConsistent, RenewalsLinked
<1>5. HeldAreUsed'
  BY <1>2 DEF StoreConsistent, HeldAreUsed
<1> QED BY <1>1, <1>3, <1>4, <1>5 DEF StoreConsistent

\* A step that leaves the tables alone keeps the invariant.
LEMMA StoreStutterInv == StoreInv /\ UNCHANGED storeVars => StoreInv'
  BY DEF StoreInv, storeVars, StoreTypeOK, StoreConsistent, EachHeldOnce,
     RenewalsLinked, HeldAreUsed, Held, Active

LEMMA StoreStepInv == StoreInv /\ [StoreNext]_storeVars => StoreInv'
<1> SUFFICES ASSUME StoreInv, [StoreNext]_storeVars PROVE StoreInv'
  OBVIOUS
<1>1. CASE \E i \in Ids, feed \in Feeds : Subscribe(i, feed)
  BY <1>1, SubscribeInv
<1>2. CASE \E old, new \in Ids : Renewable(old) /\ Renew(old, new, subs[old])
  BY <1>2, RenewInv
<1>3. CASE \E S \in SUBSET Ids : DeleteRows(S)
  BY <1>3, DeleteRowsInv
<1>4. CASE \E i \in Ids, t \in Times : Activate(i, t)
  BY <1>4, ActivateInv
<1>5. CASE UNCHANGED storeVars
  BY <1>5, StoreStutterInv
<1> QED BY <1>1, <1>2, <1>3, <1>4, <1>5 DEF StoreNext

\* The tables keep their types, and every subscription is pending or active but not
\* both, renewals link a pending subscription to the one active it replaces, and no row
\* is orphaned: what the schema's foreign keys, the cascades and the program's
\* transactions give together (hub.rs, service.rs).
THEOREM StoreSafe == StoreSpec => [](StoreTypeOK /\ StoreConsistent)
<1>1. StoreInit => StoreInv
  BY StoreInitInv
<1>2. StoreInv /\ [StoreNext]_storeVars => StoreInv'
  BY StoreStepInv
<1> QED BY <1>1, <1>2, PTL DEF StoreSpec, StoreInv

==============================================================================
