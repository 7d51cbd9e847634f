-------------------------- MODULE RegistryCatalog --------------------------
(***************************************************************************)
(* The registry catalog: node types, conversions between value types and   *)
(* the compatibility callback, published as one immutable state that a     *)
(* staged update replaces as a whole; and the dependency recorder that     *)
(* tells a command prepared against an old state whether it may still run. *)
(*                                                                         *)
(* A descriptor is what the catalog asks of it: the conversion keys its    *)
(* default pins can serve and one further value (its look).  Shared        *)
(* pointers are told apart by the generation that made them (stamp).       *)
(***************************************************************************)
EXTENDS Naturals, Sequences, FiniteSets

CONSTANTS
  NodeTypes,        \* node type ids
  Keys,             \* conversion keys <<source, destination>>
  Schemas,          \* descriptors [serves |-> set of keys, look |-> value]
  Relations,        \* value pairs a compatibility callback accepts, as sets
  Queries,          \* value pairs a connection asks about
  MaxStaged,        \* operations staged in one update
  MaxReads,         \* reads one invocation records
  NodeDependencyCapacity,
  LastRevision,     \* largest generation, node and conversion revision
  LastRegistration, \* largest registration id
  Nothing           \* no callback

ASSUME CatalogAssumption ==
  /\ MaxStaged \in Nat /\ MaxReads \in Nat /\ NodeDependencyCapacity \in Nat
  /\ LastRevision \in Nat
  /\ LastRegistration \in Nat \ {0}

VARIABLES catalog, staged_operations, leased, recorder
catalog_vars == <<catalog, staged_operations, leased, recorder>>

Ids == 1..LastRegistration
ConversionDescriptors == [key : Keys, node : NodeTypes]
Assign(f, key, value) ==
  [k \in DOMAIN f \cup {key} |-> IF k = key THEN value ELSE f[k]]
Erase(f, key) == [k \in DOMAIN f \ {key} |-> f[k]]

(* What a lookup finds, in a set of at most one element.                   *)
RecipeAt(c, key) == {c.conversions[k] : k \in DOMAIN c.conversions \cap {key}}
DescriptorOf(c, type) == {c.descriptors[t] : t \in DOMAIN c.descriptors \cap {type}}

EmptyFunction == [k \in {} |-> {}]
EmptyCatalog ==
  [descriptors |-> EmptyFunction, conversions |-> EmptyFunction,
   registrations |-> EmptyFunction, reverse |-> EmptyFunction,
   compatibility |-> Nothing, node_revision |-> 0, conversion_revision |-> 0,
   next_registration |-> 1, exhausted |-> FALSE, generation |-> 0]

(* ------------------------------ staging -------------------------------- *)

NodeOperations ==
  [kind : {"register_node", "replace_node"}, type : NodeTypes, value : Schemas]
    \cup [kind : {"unregister_node"}, type : NodeTypes]
ConversionOperations ==
  [kind : {"register"}, to : ConversionDescriptors]
    \cup [kind : {"replace"}, id : Ids, to : ConversionDescriptors]
    \cup [kind : {"unregister"}, id : Ids]
(* An update keeps the operations on nodes and on conversions in a list     *)
(* each, in which they are staged, and the callback that was set last.     *)
UpTo(n, S) == UNION {[1..m -> S] : m \in 0..n}
Callbacks == {{}} \cup {{to} : to \in Relations \cup {Nothing}}
Size(update) ==
  Len(update.nodes) + Len(update.conversions) + Cardinality(update.compatibility)
Updates(n) ==
  {update \in [nodes : UpTo(n, NodeOperations), conversions : UpTo(n, ConversionOperations),
                compatibility : Callbacks] : Size(update) <= n}

(* A token names a registration its catalog handed out. *)
HandedOut(c, id) == id < c.next_registration \/ c.exhausted
TokensExist(ops) ==
  \A i \in DOMAIN ops : ops[i].kind # "register" => HandedOut(catalog, ops[i].id)

(* ------------------------- applying an update -------------------------- *)

Stamp(c) == c.generation + 1

ApplyNodeOperation(w, op) ==
  LET known == op.type \in DOMAIN w.c.descriptors
      wanted == IF op.kind = "register_node" THEN ~known ELSE known
      touched == [w EXCEPT !.types = @ \cup {op.type}]
  IN IF w.failed \/ ~wanted THEN [w EXCEPT !.failed = TRUE]
     ELSE IF op.kind = "unregister_node"
            THEN [touched EXCEPT !.c.descriptors = Erase(@, op.type)]
     ELSE IF op.kind = "replace_node" /\ w.c.descriptors[op.type].value = op.value
            THEN touched
     ELSE [touched EXCEPT !.c.descriptors =
             Assign(@, op.type, [value |-> op.value, stamp |-> Stamp(w.c)])]
ApplyNodeOperations(w, ops) ==
  LET after[n \in 0..Len(ops)] ==
        IF n = 0 THEN w ELSE ApplyNodeOperation(after[n - 1], ops[n])
  IN after[Len(ops)]

(* The pins a conversion names must exist, in the right direction and of    *)
(* the types of its key, among the default pins of its node type.          *)
Buildable(c, to) ==
  to.node \in DOMAIN c.descriptors /\ to.key \in c.descriptors[to.node].value.serves
BuiltRecipe(c, to, id) ==
  [id |-> id, to |-> to, built |-> c.descriptors[to.node].value, stamp |-> Stamp(c)]

AddReverse(reverse, type, id) ==
  Assign(reverse, type, (IF type \in DOMAIN reverse THEN reverse[type] ELSE {}) \cup {id})
RemoveReverse(reverse, type, id) ==
  IF type \notin DOMAIN reverse THEN reverse
  ELSE IF reverse[type] \subseteq {id} THEN Erase(reverse, type)
  ELSE Assign(reverse, type, reverse[type] \ {id})
MoveReverse(reverse, from, to, id) ==
  IF from = to THEN reverse ELSE AddReverse(RemoveReverse(reverse, from, id), to, id)

RegisterConversion(w, op) ==
  LET id == w.c.next_registration
  IN IF \/ op.to.key \in DOMAIN w.c.conversions
        \/ w.c.exhausted
        \/ ~Buildable(w.c, op.to)
       THEN [w EXCEPT !.failed = TRUE]
     ELSE [w EXCEPT
       !.c.conversions = Assign(@, op.to.key, BuiltRecipe(w.c, op.to, id)),
       !.c.registrations = Assign(@, id, op.to.key),
       !.c.reverse = AddReverse(@, op.to.node, id),
       !.c.exhausted = (id = LastRegistration),
       !.c.next_registration = IF id = LastRegistration THEN @ ELSE @ + 1]

(* The recipe stored under key if it is still the one of this registration *)
Holds(c, key, id) == key \in DOMAIN c.conversions /\ c.conversions[key].id = id
EraseUnchecked(c, key, id) == Erase(c.conversions, key)
EraseHeld(c, key, id) ==
  IF Holds(c, key, id) THEN Erase(c.conversions, key) ELSE c.conversions

(* The recipe a registration has while a commit runs: its own entry, or the *)
(* one another registration of the same update displaced.                  *)
HasRecipe(w, id) == id \in DOMAIN w.displaced \/ Holds(w.c, w.c.registrations[id], id)
RecipeInCommit(w, id) ==
  IF id \in DOMAIN w.displaced THEN w.displaced[id]
  ELSE w.c.conversions[w.c.registrations[id]]

(* The last operation staged on a registration takes it away from the key. *)
OperationsOn(ops, id) == {i \in DOMAIN ops : ops[i].kind # "register" /\ ops[i].id = id}
MovesAway(ops, id, key) ==
  \E i \in OperationsOn(ops, id) :
     /\ \A j \in OperationsOn(ops, id) : j <= i
     /\ ops[i].kind = "unregister" \/ ops[i].to.key # key

UnregisterConversion(w, id) ==
  [w EXCEPT
     !.displaced = Erase(@, id),
     !.c.conversions = EraseHeld(w.c, w.c.registrations[id], id),
     !.c.registrations = Erase(@, id),
     !.c.reverse = RemoveReverse(@, RecipeInCommit(w, id).to.node, id)]

ReplaceConversion(w, ops, id, to) ==
  LET old_key == w.c.registrations[id]
      old == RecipeInCommit(w, id)
      moves == to.key # old_key
      collides == moves /\ to.key \in DOMAIN w.c.conversions
      collision == w.c.conversions[to.key]
      built == BuiltRecipe(w.c, to, id)
      next == [w EXCEPT !.c.reverse = MoveReverse(@, old.to.node, to.node, id)]
  IN IF old.to = to THEN w
     ELSE IF \/ collides /\ ~MovesAway(ops, collision.id, to.key)
             \/ ~Buildable(w.c, to)
       THEN [w EXCEPT !.failed = TRUE]
     ELSE IF ~moves /\ id \in DOMAIN w.displaced
       THEN [next EXCEPT !.displaced = Assign(@, id, built)]
     ELSE [next EXCEPT
       !.displaced = Erase(IF collides THEN Assign(@, collision.id, collision) ELSE @, id),
       !.c.conversions =
          Assign(IF moves THEN EraseHeld(w.c, old_key, id) ELSE @, to.key, built),
       !.c.registrations = Assign(@, id, to.key)]

ApplyConversionOperation(w, ops, op) ==
  IF w.failed THEN w
  ELSE IF op.kind = "register" THEN RegisterConversion(w, op)
  ELSE IF op.id \notin DOMAIN w.c.registrations \/ ~HasRecipe(w, op.id)
    THEN [w EXCEPT !.failed = TRUE]
  ELSE IF op.kind = "unregister" THEN UnregisterConversion(w, op.id)
  ELSE ReplaceConversion(w, ops, op.id, op.to)
ApplyConversionOperations(w, ops) ==
  LET after[n \in 0..Len(ops)] ==
        IF n = 0 THEN w ELSE ApplyConversionOperation(after[n - 1], ops, ops[n])
  IN after[Len(ops)]

(* Every recipe of a touched node type is rebuilt unless it still matches; *)
(* a type that conversions use cannot leave.                               *)
TouchedRegistrations(w) ==
  UNION {w.c.reverse[t] : t \in w.types \cap DOMAIN w.c.reverse}
Stale(w) == {w.c.registrations[id] : id \in TouchedRegistrations(w)} \cap
            {k \in DOMAIN w.c.conversions :
               LET r == w.c.conversions[k]
               IN r.to.node \in DOMAIN w.c.descriptors
                    => r.built # w.c.descriptors[r.to.node].value}
RebuildRecipes(w) ==
  IF w.failed \/ \E k \in Stale(w) : ~Buildable(w.c, w.c.conversions[k].to)
    THEN [w EXCEPT !.failed = TRUE]
  ELSE [w EXCEPT
    !.c.conversions = [k \in DOMAIN @ |->
       IF k \in Stale(w) THEN BuiltRecipe(w.c, @[k].to, @[k].id) ELSE @[k]]]

(* Values that end as they began keep the object they began with. *)
KeepEqualDescriptors(before, after) ==
  [t \in DOMAIN after |->
     IF t \in DOMAIN before /\ before[t].value = after[t].value
       THEN before[t] ELSE after[t]]
SameRecipeValue(r, s) == r.id = s.id /\ r.to = s.to /\ r.built = s.built
KeepEqualRecipes(before, after) ==
  [k \in DOMAIN after |->
     IF k \in DOMAIN before /\ SameRecipeValue(before[k], after[k])
       THEN before[k] ELSE after[k]]

TypesDiffer(before, after) == DOMAIN before # DOMAIN after
NodesDiffer(before, after) == before # after

(* The whole commit: the next state, or the old one when a step refuses it *)
(* or nothing changes.                                                     *)
CommitResult(c, update) ==
  LET start == [c |-> c, types |-> {}, displaced |-> EmptyFunction, failed |-> FALSE]
      done == RebuildRecipes(ApplyConversionOperations(
                ApplyNodeOperations(start, update.nodes), update.conversions))
      descriptors == KeepEqualDescriptors(c.descriptors, done.c.descriptors)
      recipes == KeepEqualRecipes(c.conversions, done.c.conversions)
      compatibility == IF update.compatibility = {} THEN c.compatibility
                       ELSE CHOOSE to \in update.compatibility : TRUE
      \* a new callback is a new object even when it decides alike
      compatibility_set == update.compatibility # {}
                             /\ ~(compatibility = Nothing /\ c.compatibility = Nothing)
      node_changed == NodesDiffer(c.descriptors, descriptors)
      conversion_changed == recipes # c.conversions \/ compatibility_set
      overflow == \/ c.generation = LastRevision
                  \/ node_changed /\ c.node_revision = LastRevision
                  \/ conversion_changed /\ c.conversion_revision = LastRevision
  IN IF \/ done.failed
        \/ ~node_changed /\ ~conversion_changed
        \/ overflow
       THEN c
     ELSE [(IF conversion_changed THEN done.c ELSE c) EXCEPT
       !.descriptors = descriptors,
       !.conversions = recipes,
       !.compatibility = compatibility,
       !.node_revision = IF node_changed THEN @ + 1 ELSE @,
       !.conversion_revision = IF conversion_changed THEN @ + 1 ELSE @,
       !.generation = @ + 1]

Published(update) == catalog' = CommitResult(catalog, update)

(* ------------------------------ actions -------------------------------- *)

NoUpdate == [active |-> FALSE]
NoRecorder == [active |-> FALSE]

BeginUpdate ==
  /\ MaxStaged > 0
  /\ ~staged_operations.active
  /\ leased = 0
  /\ staged_operations' = [active |-> TRUE, base |-> catalog.generation, poisoned |-> FALSE]
  /\ UNCHANGED <<catalog, leased, recorder>>

(* An operation with an invalid descriptor, an empty type or a token of     *)
(* another catalog: the update remembers the error until it is committed.  *)
StageInvalid ==
  /\ staged_operations.active
  /\ staged_operations' = [staged_operations EXCEPT !.poisoned = TRUE]
  /\ UNCHANGED <<catalog, leased, recorder>>

(* Staging only appends to lists the update owns, so they are chosen here. *)
CommitUpdate(update) ==
  /\ staged_operations.active
  /\ TokensExist(update.conversions)
  /\ staged_operations' = NoUpdate
  /\ IF staged_operations.poisoned \/ leased > 0 \/ staged_operations.base # catalog.generation
       THEN UNCHANGED catalog
       ELSE Published(update)
  /\ UNCHANGED <<leased, recorder>>

(* RegistryCatalog::RegisterNodeType and its siblings: an update of one operation *)
UpdateDirectly(update) ==
  /\ leased = 0
  /\ Size(update) = 1
  /\ TokensExist(update.conversions)
  /\ Published(update)
  /\ UNCHANGED <<staged_operations, leased, recorder>>

(* ------------------- invocations and what they read -------------------- *)

(* An invocation leases the catalog and records what it reads of the state *)
(* it started from.  Sealed, it outlives its lease with a prepared command. *)
Invoke ==
  /\ MaxReads > 0
  /\ ~recorder.active
  /\ leased' = leased + 1
  /\ recorder' = [active |-> TRUE, sealed |-> FALSE, state |-> catalog,
                  nodes |-> {}, all_nodes |-> FALSE, recipes |-> {},
                  all_recipes |-> FALSE, compatibility |-> FALSE,
                  node_revision |-> FALSE, conversion_revision |-> FALSE,
                  generation |-> FALSE, reads |-> {}]
  /\ UNCHANGED <<catalog, staged_operations>>

Reads ==
  [kind : {"find"}, type : NodeTypes]
    \cup [kind : {"descriptors", "node_revision", "conversion_revision", "generation"}]
    \cup [kind : {"check"}, pair : Queries]
    \cup [kind : {"recipe"}, key : Keys]

Accepts(c, a, b) == a = b \/ (c.compatibility # Nothing /\ <<a, b>> \in c.compatibility.accepts)
Fallbacks(c, pair) ==
  {k \in DOMAIN c.conversions : Accepts(c, pair[1], k[1]) /\ Accepts(c, k[2], pair[2])}

(* The answer of a connection check. *)
ConnectionAnswer(c, pair) ==
  IF Accepts(c, pair[1], pair[2]) THEN "allowed"
  ELSE IF pair \in DOMAIN c.conversions THEN c.conversions[pair]
  ELSE IF c.compatibility = Nothing \/ Cardinality(Fallbacks(c, pair)) # 1 THEN "rejected"
  ELSE c.conversions[CHOOSE k \in Fallbacks(c, pair) : TRUE]

Answer(c, read) ==
  CASE read.kind = "find" -> DescriptorOf(c, read.type)
    [] read.kind = "descriptors" -> c.descriptors
    [] read.kind = "node_revision" -> <<c.node_revision, c.descriptors>>
    [] read.kind = "conversion_revision" -> <<c.conversion_revision, c.conversions>>
    [] read.kind = "generation" -> c
    [] read.kind = "check" -> ConnectionAnswer(c, read.pair)
    [] read.kind = "recipe" -> RecipeAt(c, read.key)

ForgetNodes(r) == [r EXCEPT !.nodes = {}]
RecordAllNodes(r) == [r EXCEPT !.all_nodes = TRUE, !.nodes = {}]
RecordNode(r, type) ==
  IF r.all_nodes \/ type \in r.nodes THEN r
  ELSE IF Cardinality(r.nodes) = NodeDependencyCapacity THEN RecordAllNodes(r)
  ELSE [r EXCEPT !.nodes = @ \cup {type}]

RecordCheck(r, pair) ==
  IF pair[1] = pair[2] THEN r
  ELSE LET asked == [r EXCEPT !.compatibility = TRUE]
       IN IF Accepts(r.state, pair[1], pair[2]) THEN asked
          ELSE IF pair \in DOMAIN r.state.conversions \/ r.state.compatibility = Nothing
            THEN [asked EXCEPT !.recipes = @ \cup {pair}]
          ELSE [asked EXCEPT !.all_recipes = TRUE]

Record(r, read) ==
  CASE read.kind = "find" -> RecordNode(r, read.type)
    [] read.kind = "descriptors" -> [r EXCEPT !.all_nodes = TRUE]
    [] read.kind = "node_revision" -> [r EXCEPT !.node_revision = TRUE]
    [] read.kind = "conversion_revision" -> [r EXCEPT !.conversion_revision = TRUE]
    [] read.kind = "generation" -> [r EXCEPT !.generation = TRUE]
    [] read.kind = "check" -> RecordCheck(r, read.pair)
    [] read.kind = "recipe" -> [r EXCEPT !.recipes = @ \cup {read.key}]

Read(read) ==
  /\ recorder.active
  /\ ~recorder.sealed
  /\ Cardinality(recorder.reads) < MaxReads
  /\ recorder' = [Record(recorder, read) EXCEPT !.reads = @ \cup {read}]
  /\ UNCHANGED <<catalog, staged_operations, leased>>

SealDependencies ==
  /\ recorder.active
  /\ ~recorder.sealed
  /\ recorder' = [recorder EXCEPT !.sealed = TRUE]
  /\ leased' = leased - 1
  /\ UNCHANGED <<catalog, staged_operations>>

(* A prepared command may still be applied. *)
DependenciesCurrent(c, r) ==
  /\ \A t \in r.nodes : DescriptorOf(c, t) = DescriptorOf(r.state, t)
  /\ \A k \in r.recipes : RecipeAt(c, k) = RecipeAt(r.state, k)
  /\ r.all_nodes => c.descriptors = r.state.descriptors
  /\ r.all_recipes => c.conversions = r.state.conversions
  /\ r.compatibility => c.compatibility = r.state.compatibility
  /\ r.node_revision =>
       c.node_revision = r.state.node_revision /\ c.descriptors = r.state.descriptors
  /\ r.conversion_revision =>
       /\ c.conversion_revision = r.state.conversion_revision
       /\ c.conversions = r.state.conversions
  /\ r.generation => c.generation = r.state.generation /\ c = r.state

DiscardUpdate ==
  /\ recorder.active
  /\ recorder.sealed
  /\ recorder' = NoRecorder
  /\ UNCHANGED <<catalog, staged_operations, leased>>

CatalogInit ==
  /\ catalog = EmptyCatalog
  /\ staged_operations = NoUpdate
  /\ leased = 0
  /\ recorder = NoRecorder

CatalogNext ==
  \/ BeginUpdate
  \/ StageInvalid
  \/ \E update \in Updates(MaxStaged) : CommitUpdate(update)
  \/ \E update \in Updates(1) : UpdateDirectly(update)
  \/ Invoke
  \/ \E read \in Reads : Read(read)
  \/ SealDependencies
  \/ DiscardUpdate

CatalogSpec == CatalogInit /\ [][CatalogNext]_catalog_vars

(* ----------------------------- properties ------------------------------ *)

(* RegistryState: registrations, conversions and the reverse index by node  *)
(* type agree entry by entry, every recipe was built from the descriptor    *)
(* the catalog now holds, and a registration id is never handed out twice,  *)
(* also after updates that swap keys or displace one another               *)
(* (RegistryUpdate::Commit).                                               *)
Index(node) ==
  [t \in {node[id] : id \in DOMAIN node} |-> {id \in DOMAIN node : node[id] = t}]

Sound(c) ==
  /\ \A id \in DOMAIN c.registrations :
       Holds(c, c.registrations[id], id) /\ HandedOut(c, id)
  /\ \A k \in DOMAIN c.conversions :
       LET r == c.conversions[k]
       IN /\ r.id \in DOMAIN c.registrations /\ c.registrations[r.id] = k
          /\ r.to.key = k
          /\ Buildable(c, r.to)
          /\ r.built = c.descriptors[r.to.node].value
  /\ c.reverse =
       Index([id \in DOMAIN c.registrations |-> c.conversions[c.registrations[id]].to.node])

CatalogSound == Sound(catalog)

(* RegistryAccess::DependenciesCurrent: when the recorder of a prepared     *)
(* command says its reads are current, repeating every one of them on the  *)
(* catalog of now gives the answer it had, whatever was committed since.   *)
CurrentMeansSameAnswers ==
  recorder.active /\ DependenciesCurrent(catalog, recorder) =>
    \A read \in recorder.reads : Answer(catalog, read) = Answer(recorder.state, read)

(* RegistryUpdate::Commit: the generation, the two revisions and the       *)
(* registration counter only grow, and equal revisions mean equal content, *)
(* so a cache keyed by a revision never shows another state.               *)
RevisionsIdentify ==
  recorder.active =>
    LET then == recorder.state
    IN /\ then.generation <= catalog.generation
       /\ then.node_revision <= catalog.node_revision
       /\ then.conversion_revision <= catalog.conversion_revision
       /\ then.next_registration <= catalog.next_registration
       /\ then.generation = catalog.generation => then = catalog
       /\ then.node_revision = catalog.node_revision
            => then.descriptors = catalog.descriptors
       /\ then.conversion_revision = catalog.conversion_revision
            => /\ then.conversions = catalog.conversions
               /\ then.compatibility = catalog.compatibility
=============================================================================
