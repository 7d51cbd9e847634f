---------------------------- MODULE RouteSequence ----------------------------
(***************************************************************************)
(* PersistentRoutePointSequence (ui_nodes_presentation.cpp): the points of *)
(* a route in chunks that versions of the route share.  A version has the  *)
(* chunks in the order of the route, the same chunks by their ids, an      *)
(* index from a point to the id of its chunk, its size and a fingerprint,  *)
(* each updated by hand.                                                   *)
(*                                                                         *)
(* A point is a pair of its id and its place.  The fingerprint is an       *)
(* exclusive or of the points: here the set of those that were put in and  *)
(* not taken out.  The shards of the index are one function.               *)
(***************************************************************************)
EXTENDS Naturals, Sequences, FiniteSets, SequencesExt

CONSTANTS RoutePoints,    \* ids, 1..n, given in turn
          Places,
          ChunkCapacity,  \* points of a chunk, two at least
          StartSize,      \* points of the first version
          LastChunkId,    \* the last chunk id (2^64 - 1 in the code)
          Nil

VARIABLES
    route,         \* the current version, Nil when it has no point
    kept,          \* a version that a command keeps for its Revert
    next_point,    \* GraphPresentation::AllocateRoutePointId
    list           \* the points, as a list (history variable)

routeVars == <<route, kept, next_point, list>>

Points == RoutePoints \X Places
Chunks == [id : Nat, points : Seq(Points)]
RouteVersions == [chunks : Seq(Chunks), by_id : Seq(Chunks), index : [RoutePoints -> Nat],
             size : Nat, next_chunk : Nat, fingerprint : SUBSET Points]

ASSUME RouteAssumption ==
    /\ 1..StartSize \subseteq RoutePoints /\ RoutePoints \subseteq Nat /\ 0 \in Places
    /\ StartSize \in Nat \ {0} /\ ChunkCapacity \in Nat \ {0, 1}
    /\ Nil \notin RouteVersions \cup Points

Id(point) == point[1]
PointIds(points) == {Id(points[i]) : i \in DOMAIN points}
PointsOf(chunks) == FlattenSeq([i \in DOMAIN chunks |-> chunks[i].points])
ToVector(r) == IF r = Nil THEN <<>> ELSE PointsOf(r.chunks)
SizeOf(r) == IF r = Nil THEN 0 ELSE r.size

\* fingerprint ^= Fingerprint(point)
Toggle(fingerprint, point) ==
    IF point \in fingerprint THEN fingerprint \ {point} ELSE fingerprint \cup {point}

\* Impl::Impl: full chunks, numbered from 1.
FromVector(points) ==
    LET count == (Len(points) + ChunkCapacity - 1) \div ChunkCapacity
        part(i) == SubSeq(points, (i - 1) * ChunkCapacity + 1,
                          IF i = count THEN Len(points) ELSE i * ChunkCapacity)
        chunks == [i \in 1..count |-> [id |-> i, points |-> part(i)]]
    IN [chunks |-> chunks,
        by_id |-> chunks,
        index |-> [p \in RoutePoints |->
                      IF \E i \in 1..count : p \in PointIds(part(i))
                      THEN CHOOSE i \in 1..count : p \in PointIds(part(i)) ELSE 0],
        size |-> Len(points),
        next_chunk |-> count + 1,
        fingerprint |-> ToSet(points)]

FindChunkId(r, p) == IF r = Nil THEN 0 ELSE r.index[p]
HasChunk(r, id) == \E i \in DOMAIN r.by_id : r.by_id[i].id = id
FindChunk(r, id) == r.by_id[CHOOSE i \in DOMAIN r.by_id : r.by_id[i].id = id]
\* Find: the point, by way of the index.
Find(r, p) ==
    LET id == FindChunkId(r, p) IN
    IF id = 0 \/ ~HasChunk(r, id) THEN Nil
    ELSE LET points == FindChunk(r, id).points IN
         IF p \notin PointIds(points) THEN Nil
         ELSE points[CHOOSE i \in DOMAIN points : Id(points[i]) = p]

\* ReplaceChunk: in both places.
ReplaceChunk(r, chunk) ==
    LET put(chunks) == [i \in DOMAIN chunks |-> IF chunks[i].id = chunk.id THEN chunk ELSE chunks[i]]
    IN [r EXCEPT !.chunks = put(@), !.by_id = put(@)]

SetIndex(r, points, id) ==
    [r EXCEPT !.index = [p \in RoutePoints |-> IF p \in PointIds(points) THEN id ELSE @[p]]]

-----------------------------------------------------------------------------
(* Insert                                                                  *)

\* The chunk that takes a point at index: the first that reaches it.
ChunkFor(r, index) ==
    LET before(c) == Len(PointsOf(SubSeq(r.chunks, 1, c - 1)))
        c == CHOOSE c \in DOMAIN r.chunks :
                /\ c = Len(r.chunks) \/ index <= before(c) + Len(r.chunks[c].points)
                /\ \A b \in 1..c - 1 : index > before(b) + Len(r.chunks[b].points)
    IN [chunk |-> c, at |-> index - before(c)]

\* A chunk of one point too many: its second half gets a new id.
Halved(r, c, points) ==
    LET half == Len(points) \div 2
        left == [id |-> r.chunks[c].id, points |-> SubSeq(points, 1, half)]
        right == [id |-> r.next_chunk, points |-> SubSeq(points, half + 1, Len(points))]
    IN [ReplaceChunk(r, left) EXCEPT !.chunks = InsertAt(@, c + 1, right),
                                     !.by_id = Append(@, right),
                                     !.next_chunk = @ + 1]

SplitIndexingNew(r, c, points, point) ==
    LET halved == Halved(r, c, points)
        half == IF point \in ToSet(halved.chunks[c].points) THEN c ELSE c + 1
    IN SetIndex(halved, <<point>>, halved.chunks[half].id)

Split(r, c, points, point) ==
    LET halved == Halved(r, c, points)
        indexed == SetIndex(halved, <<point>>, halved.chunks[c].id)
    IN SetIndex(indexed, halved.chunks[c + 1].points, halved.chunks[c + 1].id)

\* Insert at index (from 0) of a point that is in no route.
Insert(r, index, point) ==
    IF r = Nil THEN FromVector(<<point>>)
    ELSE LET place == ChunkFor(r, index)
             chunk == r.chunks[place.chunk]
             points == InsertAt(chunk.points, place.at + 1, point)
             counted == [r EXCEPT !.size = @ + 1, !.fingerprint = Toggle(@, point)]
         IN IF Len(points) <= ChunkCapacity
            THEN SetIndex(ReplaceChunk(counted, [chunk EXCEPT !.points = points]),
                          <<point>>, chunk.id)
            ELSE Split(counted, place.chunk, points, point)

\* A point that would need a chunk when there is no id left for one.
NoChunkLeft(r, index) ==
    /\ r # Nil
    /\ Len(r.chunks[ChunkFor(r, index).chunk].points) = ChunkCapacity
    /\ r.next_chunk = LastChunkId

-----------------------------------------------------------------------------
(* Move and Remove                                                         *)

Move(r, p, place) ==
    LET point == Find(r, p)
        chunk == FindChunk(r, FindChunkId(r, p))
        moved == [chunk EXCEPT !.points = [i \in DOMAIN @ |->
                     IF Id(@[i]) = p THEN <<p, place>> ELSE @[i]]]
    IN IF point = <<p, place>> THEN r
       ELSE ReplaceChunk([r EXCEPT !.fingerprint = Toggle(Toggle(@, point), <<p, place>>)], moved)

\* The elements of a sequence that are in S, in their order.
Only(seq, S) ==
    LET only[i \in 0..Len(seq)] ==
          IF i = 0 THEN <<>>
          ELSE IF seq[i] \in S THEN Append(only[i - 1], seq[i]) ELSE only[i - 1]
    IN only[Len(seq)]

\* The chunks that are left, in groups that become one chunk each: a chunk
\* joins the group before it when their points fit into one, then both the
\* group before that, and so on.
Push(groups, chunk) ==
    LET from(k) == Append(FlattenSeq(SubSeq(groups, k, Len(groups))), chunk)
        fits(k) == Len(PointsOf(from(k))) <= ChunkCapacity
        first == CHOOSE k \in 1..Len(groups) + 1 :
                    (k = 1 \/ ~fits(k - 1)) /\ \A j \in k..Len(groups) : fits(j)
    IN Append(SubSeq(groups, 1, first - 1), from(first))
Grouped(chunks) ==
    LET grouped[i \in 0..Len(chunks)] ==
          IF i = 0 THEN <<>> ELSE Push(grouped[i - 1], chunks[i])
    IN grouped[Len(chunks)]

\* The first of the chunks of a group that have most points gives the id.
Survivor(group) ==
    CHOOSE i \in DOMAIN group :
        /\ \A j \in DOMAIN group : Len(group[j].points) <= Len(group[i].points)
        /\ \A j \in 1..i - 1 : Len(group[j].points) < Len(group[i].points)
Merged(group) ==
    [id |-> group[Survivor(group)].id,
     points |-> PointsOf(group)]

RemovePoints(r, gone) ==
    LET thin(chunk) == [chunk EXCEPT !.points = Only(@, {q \in ToSet(@) : Id(q) \notin gone})]
        thinned == [i \in DOMAIN r.chunks |-> thin(r.chunks[i])]
        groups == Grouped(Only(thinned, {chunk \in ToSet(thinned) : chunk.points # <<>>}))
        chunks == [i \in DOMAIN groups |-> Merged(groups[i])]
        active == {chunks[i].id : i \in DOMAIN chunks}
        current(id) == chunks[CHOOSE i \in DOMAIN chunks : chunks[i].id = id]
        stayed == Only(r.by_id, {chunk \in ToSet(r.by_id) : chunk.id \in active})
        index(p) ==
            IF p \in gone THEN 0
            ELSE IF \E i \in DOMAIN groups : Len(groups[i]) > 1 /\ p \in PointIds(chunks[i].points)
            THEN chunks[CHOOSE i \in DOMAIN groups : p \in PointIds(chunks[i].points)].id
            ELSE r.index[p]
    IN IF r.size = Cardinality(gone) THEN Nil
       ELSE [r EXCEPT !.chunks = chunks,
                      !.by_id = [i \in DOMAIN stayed |-> current(stayed[i].id)],
                      !.index = [p \in RoutePoints |-> index(p)],
                      !.size = @ - Cardinality(gone),
                      !.fingerprint = {q \in @ : Id(q) \notin gone}]

-----------------------------------------------------------------------------
(* DifferenceIds: the ids that another version adds and removes, chunk by  *)
(* chunk; a chunk that two versions share is not looked at.                *)

ChunkIds(r) == IF r = Nil THEN {} ELSE {r.by_id[i].id : i \in DOMAIN r.by_id}
IdsOfChunk(r, id) == IF id \in ChunkIds(r) THEN PointIds(FindChunk(r, id).points) ELSE {}

\* What is added and removed chunk by chunk.
ChunkDifference(r, other) ==
    LET added(id) == IdsOfChunk(other, id) \ IdsOfChunk(r, id)
        removed(id) == IdsOfChunk(r, id) \ IdsOfChunk(other, id)
        ids == ChunkIds(r) \cup ChunkIds(other)
    IN [added |-> UNION {added(id) : id \in ids}, removed |-> UNION {removed(id) : id \in ids}]

\* A point that went from one chunk to another is neither.
DifferenceIds(r, other) ==
    LET delta == ChunkDifference(r, other) IN
    [added |-> delta.added \ delta.removed, removed |-> delta.removed \ delta.added]

-----------------------------------------------------------------------------
(* Steps of a link's route                                                 *)

\* InsertRoutePoint, with a point that was just allocated.
InsertStep ==
    \E index \in 0..SizeOf(route) :
        /\ next_point \in RoutePoints
        /\ ~NoChunkLeft(route, index)
        /\ route' = Insert(route, index, <<next_point, 0>>)
        /\ list' = InsertAt(list, index + 1, <<next_point, 0>>)
        /\ next_point' = next_point + 1
        /\ UNCHANGED kept

MoveStep ==
    \E p \in RoutePoints, place \in Places :
        /\ Find(route, p) \notin {Nil, <<p, place>>}
        /\ route' = Move(route, p, place)
        /\ list' = [i \in DOMAIN list |-> IF Id(list[i]) = p THEN <<p, place>> ELSE list[i]]
        /\ UNCHANGED <<kept, next_point>>

\* Remove refuses when one of the points cannot be found.
RemoveStep ==
    \E gone \in (SUBSET RoutePoints) \ {{}} :
        /\ \A p \in gone : Find(route, p) # Nil
        /\ route' = RemovePoints(route, gone)
        /\ list' = Only(list, {point \in ToSet(list) : Id(point) \notin gone})
        /\ UNCHANGED <<kept, next_point>>

\* A command keeps the route it is about to change; its Revert puts it back.
KeepStep == kept' = route /\ UNCHANGED <<route, next_point, list>>
RestoreStep ==
    /\ route # kept
    /\ route' = kept
    /\ list' = ToVector(kept)
    /\ UNCHANGED <<kept, next_point>>

RouteInit ==
    /\ list = [i \in 1..StartSize |-> <<i, 0>>]
    /\ route = FromVector(list)
    /\ kept = route
    /\ next_point = StartSize + 1

RouteNext == InsertStep \/ MoveStep \/ RemoveStep \/ KeepStep \/ RestoreStep

RouteSpec == RouteInit /\ [][RouteNext]_routeVars

-----------------------------------------------------------------------------
(* Properties                                                              *)

\* ValidateStructure without its clause on neighbours.
Consistent(r) ==
    /\ Len(r.chunks) = Len(r.by_id) /\ ToSet(r.chunks) = ToSet(r.by_id)
    /\ \A i, j \in DOMAIN r.by_id : i < j => r.by_id[i].id < r.by_id[j].id
    /\ \A i \in DOMAIN r.chunks :
          /\ Len(r.chunks[i].points) \in 1..ChunkCapacity
          /\ r.chunks[i].id < r.next_chunk
    /\ \A p \in RoutePoints :
          IF p \in PointIds(ToVector(r))
          THEN \E i \in DOMAIN r.chunks : r.chunks[i].id = r.index[p] /\ p \in PointIds(r.chunks[i].points)
          ELSE r.index[p] = 0
    /\ r.size = Len(ToVector(r)) /\ IsInjective(ToVector(r))
    /\ r.fingerprint = ToSet(ToVector(r))

\* Two chunks side by side that would fit into one.
Mergeable(r) ==
    \E i \in 2..Len(r.chunks) :
        Len(r.chunks[i - 1].points) + Len(r.chunks[i].points) <= ChunkCapacity

\* Through every sequence of splits, merges, moves and undos a version holds
\* the points of the list in its order, and its lookup, index, size and
\* fingerprint are those of its chunks; the version that was kept is not
\* disturbed by what is done to the one that shares its chunks.
RouteConsistent ==
    /\ ToVector(route) = list
    /\ \A r \in {route, kept} : r # Nil => Consistent(r)

\* The ids that DifferenceIds reports between the kept version and the
\* current one are those that were added and removed, although chunk ids are
\* reused by versions and points move between chunks: GraphPresentation::SetLink
\* updates the owners of route points from this difference alone.
DifferenceExact ==
    /\ DifferenceIds(kept, route) =
          [added |-> PointIds(list) \ PointIds(ToVector(kept)),
           removed |-> PointIds(ToVector(kept)) \ PointIds(list)]
    /\ DifferenceIds(route, kept) =
          [added |-> PointIds(ToVector(kept)) \ PointIds(list),
           removed |-> PointIds(list) \ PointIds(ToVector(kept))]

\* A route that was edited by legal operations is one that ValidateStructure
\* accepts, neighbours included: ValidateGraphPresentation refuses to save or
\* register a graph with any other.
StructureValid == route # Nil => Consistent(route) /\ ~Mergeable(route)
=============================================================================
