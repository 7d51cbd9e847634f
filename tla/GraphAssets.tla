---------------------------- MODULE GraphAssets ----------------------------
(***************************************************************************)
(* The registry of shared graphs (src/src/ui_nodes_graph_asset.cpp).       *)
(*                                                                         *)
(* An asset is a document that may call the root graphs of other assets.   *)
(* The registry refuses what would break a dependency, finds the users of  *)
(* an asset through an index it updates by differences, and tells its      *)
(* subscribers of every change: of the asset first, then of all that       *)
(* depend on it.  The callbacks run after the commit, one at a time, and   *)
(* may subscribe, unsubscribe and read, but not write.                     *)
(*                                                                         *)
(* Of a document its calls, the interface of its root graph and the rest,  *)
(* the body, are kept; together they are what the hash stands for.  The    *)
(* source_uri, which it leaves out, is not: a write of the same content is *)
(* one of another source_uri.                                              *)
(***************************************************************************)
EXTENDS Naturals, Sequences, FiniteSets

CONSTANTS Assets, Interfaces, AssetBodies, Subscribers,
          LastGeneration, \* numeric_limits<GraphAssetGeneration>::max()
          NoRecord

ASSUME GraphAssetsAssumption ==
    /\ IsFiniteSet(Assets)
    /\ LastGeneration \in Nat \ {0}
    /\ \A S \in SUBSET Assets : NoRecord # S

VARIABLES
    records,     \* Impl::State::records
    reverse,     \* Impl::State::reverse: the direct dependents of every asset
    subscribed,  \* GraphAssetSubscription::State::callbacks, in the order of ids
    calls,       \* the events of a change with the callbacks still to run for each
    mirror,      \* what a subscriber knows: the generation of every asset
    fresh        \* the assets a subscriber has rebuilt since they changed

assets_vars == <<records, reverse, subscribed, calls, mirror, fresh>>

\* DependencyUse: the interface the caller expects of each asset it calls.
Uses == UNION {[S -> Interfaces] : S \in SUBSET Assets}
Contents == [uses : Uses, interface : Interfaces, body : AssetBodies]

Records == [content : Contents, generation : 1..LastGeneration]

ASSUME NoRecordAssumption == NoRecord \notin Records

Registered == {a \in Assets : records[a] # NoRecord}
Generations == [a \in Assets |-> IF records[a] = NoRecord THEN 0 ELSE records[a].generation]
DirectDependencies(record) == IF record = NoRecord THEN {} ELSE DOMAIN record.content.uses

-----------------------------------------------------------------------------
\* All that is reached from a, a itself only by a cycle: the smallest set that
\* holds what is next to a and to each of its members.
Closure(next, a) ==
    {b \in Assets : \A S \in SUBSET Assets :
        next[a] \subseteq S /\ (\A c \in S : next[c] \subseteq S) => b \in S}

Bucket(a) == IF reverse[a] = NoRecord THEN {} ELSE reverse[a]

\* CollectDependentClosure
DependentClosure(a) == Closure([b \in Assets |-> Bucket(b)], a)

\* DependencyClosure
DependencyClosure(r, a) == Closure([b \in Assets |-> DirectDependencies(r[b])], a)

\* ValidateDependencyUses, of a record among the records of r.
UsesValid(r, record) ==
    \A d \in DOMAIN record.content.uses :
        r[d] # NoRecord /\ r[d].content.interface = record.content.uses[d]

ValidateTheRecordAlone(a, record) ==
    LET candidate == [records EXCEPT ![a] = record]
    IN UsesValid(candidate, record) /\ a \notin DependencyClosure(candidate, a)

\* ValidateCandidate: the record itself, no cycle through it, its dependents.
ValidateCandidate(a, record) ==
    LET candidate == [records EXCEPT ![a] = record]
    IN /\ UsesValid(candidate, record)
       /\ a \notin DependencyClosure(candidate, a)
       /\ \A d \in DependentClosure(a) : UsesValid(candidate, candidate[d])

\* ApplyDependencyDelta
Reversed(a, old, new) ==
    [d \in Assets |->
        CASE d \in old \ new -> Bucket(d) \ {a}
          [] d \in new \ old -> Bucket(d) \cup {a}
          [] OTHER -> reverse[d]]

-----------------------------------------------------------------------------
(* Changes and their events                                                *)

\* What a subscriber builds of an asset: from it and all it depends on.
Built(r, a) ==
    IF r[a] = NoRecord THEN NoRecord
    ELSE [d \in DependencyClosure(r, a) \cup {a} |-> r[d].content]

\* SnapshotCallbacks and Dispatch: every callback for one event, then the next.
Dispatched(events) ==
    IF subscribed = <<>> THEN <<>>
    ELSE [i \in DOMAIN events |-> [event |-> events[i], waiting |-> subscribed]]

\* The dependents in the order of their set.
Sequences(S) == {s \in [1..Cardinality(S) -> S] : \A b \in S : \E i \in DOMAIN s : s[i] = b}

Publish(a, r, dependents) ==
    /\ records' = r
    /\ \E order \in Sequences(dependents) :
        calls' = Dispatched(
            <<[asset |-> a, after |-> IF r[a] = NoRecord THEN 0 ELSE r[a].generation]>> \o
            [i \in DOMAIN order |->
                [asset |-> order[i], after |-> records[order[i]].generation]]) \o calls
    /\ fresh' = [s \in Subscribers |-> {b \in fresh[s] : Built(r, b) = Built(records, b)}]
    /\ UNCHANGED <<subscribed, mirror>>

MayAlwaysMutate == TRUE

\* dispatch_depth = 0
MayMutate == calls = <<>>

\* Replaced events reach the dependents when the content has changed.
Affected(a, record) ==
    IF records[a] # NoRecord /\ records[a].content # record.content
    THEN DependentClosure(a) ELSE {}

\* PrepareWrite: the record to publish, NoRecord when no generation is left.  A write
\* of the same content changes the source URI; one that changes nothing at all
\* publishes nothing and is not a step.
Prepared(a, content) ==
    IF records[a] = NoRecord THEN [content |-> content, generation |-> 1]
    ELSE IF records[a].generation = LastGeneration THEN NoRecord
    ELSE [content |-> content, generation |-> records[a].generation + 1]

\* Write in the mode Upsert; Insert and Replace allow a part of it.
Write(a, content) ==
    LET old == records[a]
        record == Prepared(a, content)
    IN /\ MayMutate
       /\ record # NoRecord
       /\ ValidateCandidate(a, record)
       /\ LET delta == Reversed(a, DirectDependencies(old), DOMAIN content.uses)
          IN reverse' = [delta EXCEPT ![a] = IF @ = NoRecord THEN {} ELSE @]
       /\ Publish(a, [records EXCEPT ![a] = record], Affected(a, record))

Unregister(a) ==
    /\ MayMutate
    /\ records[a] # NoRecord
    /\ Bucket(a) = {}
    /\ reverse' = [Reversed(a, DirectDependencies(records[a]), {}) EXCEPT ![a] = NoRecord]
    /\ Publish(a, [records EXCEPT ![a] = NoRecord], {})

-----------------------------------------------------------------------------
(* Subscribers, in a callback or outside                                   *)

Subscribed(s) == \E i \in DOMAIN subscribed : subscribed[i] = s

\* A subscriber reads the registry when it subscribes.
Subscribe(s) ==
    /\ ~Subscribed(s)
    /\ ~\E i \in DOMAIN calls : \E k \in DOMAIN calls[i].waiting : calls[i].waiting[k] = s
    /\ subscribed' = Append(subscribed, s)
    /\ mirror' = [mirror EXCEPT ![s] = Generations]
    /\ fresh' = [fresh EXCEPT ![s] = Assets]
    /\ UNCHANGED <<records, reverse, calls>>

\* GraphAssetSubscription::Reset; calls of the running batch still reach it.
Reset(s) ==
    /\ \E i \in DOMAIN subscribed :
           /\ subscribed[i] = s
           /\ subscribed' = [k \in 1..Len(subscribed) - 1 |->
                                 subscribed[IF k < i THEN k ELSE k + 1]]
    /\ UNCHANGED <<records, reverse, calls, mirror, fresh>>

\* The subscriber takes the event's record and rebuilds the asset.
Callback ==
    /\ calls # <<>>
    /\ LET event == Head(calls).event
           s == Head(Head(calls).waiting)
           others == Tail(Head(calls).waiting)
       IN /\ mirror' = [mirror EXCEPT ![s][event.asset] = event.after]
          /\ fresh' = [fresh EXCEPT ![s] = @ \cup {event.asset}]
          /\ calls' = IF others = <<>> THEN Tail(calls)
                      ELSE <<[event |-> event, waiting |-> others]>> \o Tail(calls)
    /\ UNCHANGED <<records, reverse, subscribed>>

AssetsInit ==
    /\ records = [a \in Assets |-> NoRecord]
    /\ reverse = [a \in Assets |-> NoRecord]
    /\ subscribed = <<>>
    /\ calls = <<>>
    /\ mirror = [s \in Subscribers |-> [a \in Assets |-> 0]]
    /\ fresh = [s \in Subscribers |-> Assets]

AssetsNext ==
    \/ \E a \in Assets : Unregister(a)
    \/ \E a \in Assets, content \in Contents : Write(a, content)
    \/ \E s \in Subscribers : Subscribe(s) \/ Reset(s)
    \/ Callback

AssetsSpec == AssetsInit /\ [][AssetsNext]_assets_vars

-----------------------------------------------------------------------------
(* Properties                                                              *)

\* ValidateRegistryState holds after every write: dependencies are registered
\* with the interface their users expect and never form a cycle, and the reverse
\* index, which only ever sees differences, is exactly the inverse of them.
RegistrySound ==
    \A a \in Assets :
        IF records[a] = NoRecord THEN reverse[a] = NoRecord
        ELSE /\ UsesValid(records, records[a])
             /\ a \notin DependencyClosure(records, a)
             /\ reverse[a] = {b \in Assets : a \in DirectDependencies(records[b])}

\* Once the callbacks of a change have run, every subscriber that takes records
\* from its events and rebuilds what they name has the registry as it is, however
\* deep an asset uses the one that changed.
SubscribersUpToDate ==
    calls = <<>> =>
        \A s \in Subscribers : Subscribed(s) =>
            mirror[s] = Generations /\ fresh[s] = Assets
=============================================================================
