--------------------------- MODULE GraphClipboard ---------------------------
(***************************************************************************)
(* Copying a selection out of a document and pasting it back, with all the *)
(* graphs its nodes own (nodes/commands/clipboard.cpp and the clipboard    *)
(* requests of the editor).                                                *)
(*                                                                         *)
(* A fragment is a value: the document, the registry and the protection of *)
(* its elements may change before it is pasted, and text from the system   *)
(* clipboard need not be a fragment this program wrote.  A paste gives     *)
(* every element a fresh identifier, adds it without protection and then   *)
(* protects it as the original was.                                        *)
(*                                                                         *)
(* The pins of a node are abstracted into the node: a link joins an output *)
(* and an input node, a channel (an intergraph link) two proxy nodes.      *)
(***************************************************************************)
EXTENDS Naturals, Sequences, FiniteSets, SequencesExt, TLC

CONSTANTS
  Opened,       \* the document a session starts from
  LastId,       \* bound: the largest identifier of each kind
  Versions,     \* versions the registry may hold of the node type; 0: none
  MaxEdits,     \* bound: edits around the copy and the paste
  None

VARIABLES source, type_version, clipboard, prepared, pasted, edits
clipboard_vars == <<source, type_version, clipboard, prepared, pasted, edits>>

Parts == {"graphs", "nodes", "links", "groups", "channels"}
Has(d, part, id) == id \in DOMAIN d[part]
Put(d, part, id, value) == [d EXCEPT ![part] = (id :> value) @@ @]
Drop(d, part, ids) == [d EXCEPT ![part] = [i \in DOMAIN @ \ ids |-> @[i]]]
Taken(d, part, ids) == [i \in ids |-> d[part][i]]

NodesIn(d, g) == {n \in DOMAIN d.nodes : d.nodes[n].graph = g}
LinksIn(d, g) == {l \in DOMAIN d.links : d.links[l].graph = g}
GroupsIn(d, g) == {c \in DOMAIN d.groups : d.groups[c].graph = g}
LinksAt(d, nodes) ==
  {l \in DOMAIN d.links : {d.links[l].output, d.links[l].input} \cap nodes # {}}
ChannelsAt(d, nodes) ==
  {c \in DOMAIN d.channels : {d.channels[c].from, d.channels[c].to} \cap nodes # {}}
OwnedBy(d, nodes) == {d.nodes[n].target : n \in {m \in nodes : d.nodes[m].owns}}
Owners(d, g) == {n \in DOMAIN d.nodes : d.nodes[n].owns /\ d.nodes[n].target = g}
Callers(d, g) == {n \in DOMAIN d.nodes : d.nodes[n].target = g}

DependsOn(d, g) ==
  ({d.nodes[n].target : n \in NodesIn(d, g)} \ {None})
    \cup {d.nodes[d.channels[c].to].graph : c \in
            {c \in DOMAIN d.channels : d.nodes[d.channels[c].from].graph = g}}
Reached(d, g) ==
  LET reach[i \in 0..Cardinality(DOMAIN d.graphs)] ==
        IF i = 0 THEN {g}
        ELSE reach[i - 1] \cup UNION {DependsOn(d, h) : h \in reach[i - 1]}
  IN reach[Cardinality(DOMAIN d.graphs)]

(* ------------------------------- copying ------------------------------- *)

(* OwnedClosure: the graphs that nodes own, directly or through one another *)
OwnedClosure(d, nodes) ==
  LET owned[i \in 0..Cardinality(DOMAIN d.graphs)] ==
        IF i = 0 THEN OwnedBy(d, nodes)
        ELSE owned[i - 1] \cup
               UNION {OwnedBy(d, NodesIn(d, g)) : g \in owned[i - 1] \cap DOMAIN d.graphs}
  IN owned[Cardinality(DOMAIN d.graphs)]

SelectedNodes(d, nodes, groups) == nodes \cup UNION {d.groups[c].members : c \in groups}

(* The links between selected nodes; one that leaves the selection stays. *)
InnerLinks(d, g, nodes) ==
  {l \in LinksIn(d, g) : {d.links[l].output, d.links[l].input} \subseteq nodes}

(* The channels that start and end in copied graphs. *)
InnerChannels(d, graphs) ==
  {c \in DOMAIN d.channels :
     {d.nodes[d.channels[c].from].graph, d.nodes[d.channels[c].to].graph} \subseteq graphs}

CaptureGraphFragment(d, g, selected, groups) ==
  LET top == SelectedNodes(d, selected, groups)
      owned == OwnedClosure(d, top)
      inside(In(_, _)) == UNION {In(d, h) : h \in owned}
  IN [top |-> top,
      graphs |-> Taken(d, "graphs", owned),
      nodes |-> Taken(d, "nodes", top \cup inside(NodesIn)),
      links |-> Taken(d, "links", InnerLinks(d, g, top) \cup inside(LinksIn)),
      groups |-> Taken(d, "groups", groups \cup inside(GroupsIn)),
      channels |-> Taken(d, "channels", InnerChannels(d, owned))]

(* ------------------------- preparing a paste --------------------------- *)

OnTop(f, part) == {i \in DOMAIN f[part] : f[part][i].graph \notin DOMAIN f.graphs}

(* Every owned graph of the fragment: lifetime, nodes, links and groups. *)
OwnedGraphsValid(f) ==
  /\ \A g \in DOMAIN f.graphs : f.graphs[g].lifetime = "owned"
  /\ \A l \in DOMAIN f.links \ OnTop(f, "links") :
       \A n \in {f.links[l].output, f.links[l].input} :
         n \in DOMAIN f.nodes /\ f.nodes[n].graph = f.links[l].graph
  /\ \A c \in DOMAIN f.groups \ OnTop(f, "groups") :
       \A n \in f.groups[c].members :
         n \in DOMAIN f.nodes /\ f.nodes[n].graph = f.groups[c].graph

(* A node pasted into graph g may own a graph of the fragment, or call one *)
(* of the document that does not lead back to g.                           *)
TopNodesValid(d, f, g) ==
  \A n \in f.top : LET v == f.nodes[n] IN
    v.target # None =>
      IF v.owns THEN v.target \in DOMAIN f.graphs
      ELSE v.target # g /\ Has(d, "graphs", v.target) /\ g \notin Reached(d, v.target)

TopLinksValid(f) ==
  /\ \A l \in OnTop(f, "links") : {f.links[l].output, f.links[l].input} \subseteq f.top
  /\ \A k, l \in DOMAIN f.links :
       k # l => <<f.links[k].output, f.links[k].input>> # <<f.links[l].output, f.links[l].input>>
TopGroupsValid(f) == \A c \in OnTop(f, "groups") : f.groups[c].members \subseteq DOMAIN f.nodes
ChannelsValid(f) ==
  \A c \in DOMAIN f.channels : \A n \in {f.channels[c].from, f.channels[c].to} :
    n \in DOMAIN f.nodes /\ f.nodes[n].graph \in DOMAIN f.graphs

InnerNodes(f) == DOMAIN f.nodes \ f.top

(* What the nodes of owned graphs own is there, and called graphs exist. *)
DependenciesPresent(d, f) ==
  \A n \in InnerNodes(f) : LET v == f.nodes[n] IN
    v.target # None =>
      IF v.owns THEN v.target \in DOMAIN f.graphs ELSE Has(d, "graphs", v.target)

FragmentEdges(f, g) == OwnedBy(f, {n \in InnerNodes(f) : f.nodes[n].graph = g})

(* Kahn's algorithm takes a graph when no graph left owns it: all are taken *)
(* unless some own each other in a circle.                                 *)
TakenUpTo(f) ==
  LET taken[i \in 0..Cardinality(DOMAIN f.graphs)] ==
        IF i = 0 THEN {}
        ELSE taken[i - 1] \cup
          {g \in DOMAIN f.graphs :
             \A h \in DOMAIN f.graphs \ taken[i - 1] : g \notin FragmentEdges(f, h)}
  IN taken
NotRecursive(f) == TakenUpTo(f)[Cardinality(DOMAIN f.graphs)] = DOMAIN f.graphs

FragmentAccepted(d, f, g) ==
  /\ Has(d, "graphs", g) /\ ~d.graphs[g].read_only
  /\ f.top # {} \/ OnTop(f, "groups") # {}
  /\ OwnedGraphsValid(f) /\ TopNodesValid(d, f, g)
  /\ TopLinksValid(f) /\ TopGroupsValid(f) /\ ChannelsValid(f)
  /\ DependenciesPresent(d, f) /\ NotRecursive(f)

PointsIn(f) == UNION {f.links[l].route : l \in DOMAIN f.links}
IdsOf(f, kind) == IF kind = "points" THEN PointsIn(f) ELSE DOMAIN f[kind]
IdKinds == Parts \cup {"points"}

(* AllocateNodeId and its siblings: the next identifiers of the document. *)
Renaming(d, f) ==
  [kind \in IdKinds |->
     LET ids == SetToSortSeq(IdsOf(f, kind), <)
     IN [i \in ToSet(ids) |-> d.next[kind] - 1 + CHOOSE k \in DOMAIN ids : ids[k] = i]]
Allocated(d, f) ==
  [d EXCEPT !.next = [kind \in IdKinds |-> @[kind] + Cardinality(IdsOf(f, kind))]]

Renamed(ids, S) == {ids[i] : i \in S}
RenamedGraph(m, f, g, target) == IF g \in DOMAIN f.graphs THEN m.graphs[g] ELSE target

RenamedNode(m, f, v, target) ==
  [v EXCEPT !.graph = RenamedGraph(m, f, @, target),
            !.target = IF v.owns THEN m.graphs[@] ELSE @]
RenamedLink(m, f, v, target) ==
  [v EXCEPT !.graph = RenamedGraph(m, f, @, target), !.output = m.nodes[@],
            !.input = m.nodes[@], !.route = Renamed(m.points, @)]
RenamedGroup(m, f, v, target) ==
  [v EXCEPT !.graph = RenamedGraph(m, f, @, target), !.members = Renamed(m.nodes, @)]
RenamedChannel(m, v) == [v EXCEPT !.from = m.nodes[@], !.to = m.nodes[@]]

Image(m, f, part, Value(_)) ==
  [j \in Renamed(m[part], DOMAIN f[part]) |->
     Value(f[part][CHOOSE i \in DOMAIN f[part] : m[part][i] = j])]

(* PreparedGraphFragment: the fragment under its new names, its graphs      *)
(* ordered so that an owner comes before what it owns.                     *)
PreparedFragment(d, f, target) ==
  LET m == Renaming(d, f)
      taken == TakenUpTo(f)
      depth(g) == CHOOSE i \in DOMAIN taken : g \in taken[i] /\ (i = 0 \/ g \notin taken[i - 1])
      before(g, h) == depth(g) < depth(h) \/ (depth(g) = depth(h) /\ m.graphs[g] < m.graphs[h])
      order == SetToSortSeq(DOMAIN f.graphs, before)
  IN [into |-> target, remap |-> m,
      order |-> [i \in DOMAIN order |-> m.graphs[order[i]]],
      top |-> Renamed(m.nodes, f.top),
      expected |-> type_version # 0,
      graphs |-> Image(m, f, "graphs", LAMBDA v : v),
      nodes |-> Image(m, f, "nodes", LAMBDA v : RenamedNode(m, f, v, target)),
      links |-> Image(m, f, "links", LAMBDA v : RenamedLink(m, f, v, target)),
      groups |-> Image(m, f, "groups", LAMBDA v : RenamedGroup(m, f, v, target)),
      channels |-> Image(m, f, "channels", LAMBDA v : RenamedChannel(m, v))]

(* --------------------- the transaction of a paste ---------------------- *)

(* A transaction is the document it stages, or None once it was refused;   *)
(* protection is what it began with or staged, and undo does not enforce it.*)
Then(t, Op(_)) == IF t = None THEN None ELSE Op(t)
When(condition, t) == IF condition THEN t ELSE None
ForEach(t, Op(_, _), ids) == FoldSet(LAMBDA i, x : Then(x, LAMBDA y : Op(y, i)), t, ids)
InOrder(t, Op(_, _), ids) == FoldLeft(LAMBDA x, i : Then(x, LAMBDA y : Op(y, i)), t, ids)

CallAllowed(t, v) ==
  v.target # None =>
    /\ Has(t, "graphs", v.target)
    /\ t.graphs[v.target].lifetime = IF v.owns THEN "owned" ELSE "reusable"
    /\ v.owns => Owners(t, v.target) = {}

Unprotected(part, v) ==
  CASE part = "graphs" -> [v EXCEPT !.read_only = FALSE]
    [] part = "nodes" -> [v EXCEPT !.read_only = FALSE, !.pins_read_only = FALSE, !.locked = FALSE]
    [] part = "links" -> [v EXCEPT !.read_only = FALSE, !.locked = FALSE]
    [] part = "groups" -> [v EXCEPT !.locked = FALSE]

AddGroup(t, c, v) ==
  When(/\ Has(t, "graphs", v.graph) /\ ~t.graphs[v.graph].read_only
       /\ ~Has(t, "groups", c) /\ v.members \subseteq NodesIn(t, v.graph),
       Put(t, "groups", c, v))
AddNode(t, n, v) ==
  When(/\ Has(t, "graphs", v.graph) /\ ~t.graphs[v.graph].read_only
       /\ ~Has(t, "nodes", n) /\ CallAllowed(t, v)
       /\ v.target # None => v.graph \notin Reached(t, v.target),
       Put(t, "nodes", n, v))
AddLink(t, l, v) ==
  When(/\ Has(t, "graphs", v.graph) /\ ~t.graphs[v.graph].read_only
       /\ ~Has(t, "links", l) /\ {v.output, v.input} \subseteq NodesIn(t, v.graph),
       Put(t, "links", l, v))
AddIntergraphLink(t, c, v) ==
  When(/\ ~Has(t, "channels", c) /\ {v.from, v.to} \subseteq DOMAIN t.nodes
       /\ t.nodes[v.from].role = "proxy_output" /\ t.nodes[v.to].role = "proxy_input"
       /\ ChannelsAt(t, {v.from, v.to}) = {}
       /\ t.nodes[v.from].graph \notin Reached(t, t.nodes[v.to].graph),
       Put(t, "channels", c, v))

(* One owned graph: its nodes and links at once, then what shows them. *)
AddOwnedGraph(t, p, g) ==
  LET nodes == NodesIn(p, g)
      links == LinksIn(p, g)
      withNodes == [t EXCEPT !.nodes = [n \in nodes |-> Unprotected("nodes", p.nodes[n])] @@ @]
      added == Put([withNodes EXCEPT !.links =
                      [l \in links |-> Unprotected("links", p.links[l])] @@ @],
                   "graphs", g, Unprotected("graphs", p.graphs[g]))
  IN When(\A n \in nodes : CallAllowed(t, p.nodes[n]),
          ForEach(added, LAMBDA x, c : AddGroup(x, c, Unprotected("groups", p.groups[c])),
                  GroupsIn(p, g)))

(* The setters of transaction_protection.cpp. *)
MayProtect(t, v) == ~t.graphs[v.graph].read_only
Protect(t, part, id, flag, p) ==
  IF p[part][id][flag] = t[part][id][flag] THEN t
  ELSE When(MayProtect(t, t[part][id]), [t EXCEPT ![part][id][flag] = p[part][id][flag]])
ProtectPins(t, n, p) ==
  IF p.nodes[n].pins_read_only = t.nodes[n].pins_read_only THEN t
  ELSE When(MayProtect(t, t.nodes[n]) /\ ~t.nodes[n].read_only,
            [t EXCEPT !.nodes[n].pins_read_only = p.nodes[n].pins_read_only])
ProtectGraph(t, g, p) == [t EXCEPT !.graphs[g].read_only = p.graphs[g].read_only]

(* The parts of one owned graph, and last the graph, as the originals were. *)
ProtectParts(t, p, g) ==
  LET links == ForEach(t, LAMBDA x, l : Protect(x, "links", l, "read_only", p), LinksIn(p, g))
      pins == Then(links, LAMBDA y : ForEach(y, LAMBDA x, n : ProtectPins(x, n, p), NodesIn(p, g)))
      nodes == Then(pins, LAMBDA y :
        ForEach(y, LAMBDA x, n : Protect(x, "nodes", n, "read_only", p), NodesIn(p, g)))
      locked == Then(nodes, LAMBDA y :
        ForEach(y, LAMBDA x, n : Protect(x, "nodes", n, "locked", p), NodesIn(p, g)))
      shown == Then(locked, LAMBDA y :
        ForEach(y, LAMBDA x, l : Protect(x, "links", l, "locked", p), LinksIn(p, g)))
  IN Then(shown, LAMBDA y :
        ForEach(y, LAMBDA x, c : Protect(x, "groups", c, "locked", p), GroupsIn(p, g)))
ProtectOwnedGraph(t, p, g) == Then(ProtectParts(t, p, g), LAMBDA x : ProtectGraph(x, g, p))

NodeThenPins(t, p, n) ==
  Then(Then(Protect(t, "nodes", n, "read_only", p), LAMBDA x : ProtectPins(x, n, p)),
       LAMBDA x : Protect(x, "nodes", n, "locked", p))
ProtectTopNode(t, p, n) ==
  Then(Then(ProtectPins(t, n, p), LAMBDA x : Protect(x, "nodes", n, "read_only", p)),
       LAMBDA x : Protect(x, "nodes", n, "locked", p))

(* ValidateNodeCreationSchema: a node whose type was known when the paste  *)
(* was prepared has the version that is registered now.                    *)
SchemasCurrent(p) ==
  p.expected => type_version # 0 /\ \A n \in DOMAIN p.nodes : p.nodes[n].version = type_version

(* PasteGraphFragmentCommand::Apply *)
ApplyPaste(t, p) ==
  LET graphs == InOrder(t, LAMBDA x, g : AddOwnedGraph(x, p, g), Reverse(p.order))
      nodes == Then(graphs, LAMBDA y :
        ForEach(y, LAMBDA x, n : AddNode(x, n, Unprotected("nodes", p.nodes[n])), p.top))
      topLinks == LinksIn(p, p.into)
      links == Then(nodes, LAMBDA y :
        ForEach(y, LAMBDA x, l : AddLink(x, l, Unprotected("links", p.links[l])), topLinks))
      groups == Then(links, LAMBDA y :
        ForEach(y, LAMBDA x, c : AddGroup(x, c, p.groups[c]), GroupsIn(p, p.into)))
      channels == Then(groups, LAMBDA y :
        ForEach(y, LAMBDA x, c : AddIntergraphLink(x, c, p.channels[c]), DOMAIN p.channels))
      linksReadOnly == Then(channels, LAMBDA y :
        ForEach(y, LAMBDA x, l : Protect(x, "links", l, "read_only", p), topLinks))
      ownedProtected == Then(linksReadOnly, LAMBDA y :
        InOrder(y, LAMBDA x, g : ProtectOwnedGraph(x, p, g), p.order))
      nodesProtected == Then(ownedProtected, LAMBDA y :
        ForEach(y, LAMBDA x, n : ProtectTopNode(x, p, n), p.top))
  IN When(SchemasCurrent(p), Then(nodesProtected, LAMBDA y :
        ForEach(y, LAMBDA x, l : Protect(x, "links", l, "locked", p), topLinks)))

RemoveNodes(t, ids) ==
  When(ids \subseteq DOMAIN t.nodes /\ ChannelsAt(t, ids) = {},
       Drop(Drop(t, "links", LinksAt(t, ids)), "nodes", ids))
RemoveGraph(t, p, g) ==
  When(Has(t, "graphs", g) /\ Callers(t, g) = {} /\ ChannelsAt(t, NodesIn(t, g)) = {},
       Drop(Drop(Drop(Drop(t, "groups", GroupsIn(p, g)), "links", LinksIn(t, g)),
                 "nodes", NodesIn(t, g)), "graphs", {g}))
GraphsToRemoveFirstOwned(p) == Reverse(p.order)
GraphsToRemove(p) == p.order

(* PasteGraphFragmentCommand::Revert *)
RevertPaste(t, p) ==
  LET channels == Drop(t, "channels", DOMAIN p.channels)
      groups == Drop(channels, "groups", GroupsIn(p, p.into))
      links == Drop(groups, "links", LinksIn(p, p.into))
      nodes == RemoveNodes(links, p.top)
  IN Then(nodes, LAMBDA y : InOrder(y, LAMBDA x, g : RemoveGraph(x, p, g), GraphsToRemove(p)))

(* What Commit requires of the result. *)
DocumentSound(d) ==
  /\ \A g \in DOMAIN d.graphs :
       Cardinality(Owners(d, g)) = IF d.graphs[g].lifetime = "owned" THEN 1 ELSE 0
  /\ \A n \in DOMAIN d.nodes : d.nodes[n].target # None =>
       /\ Has(d, "graphs", d.nodes[n].target)
       /\ d.nodes[n].graph \notin Reached(d, d.nodes[n].target)
Committed(t) == IF t = None \/ ~DocumentSound(t) THEN None ELSE t

(* ------------------------------- actions ------------------------------- *)

Edited(d) ==
  /\ edits < MaxEdits
  /\ d # source
  /\ source' = d
  /\ edits' = edits + 1
  /\ pasted' = None
  /\ UNCHANGED <<type_version, clipboard, prepared>>

(* The protection commands, on any part of the document. *)
SetProtection(part, id, flag) ==
  /\ part # "graphs" => ~source.graphs[source[part][id].graph].read_only
  /\ flag = "pins_read_only" => ~source.nodes[id].read_only
  /\ Edited([source EXCEPT ![part][id][flag] = ~@])

(* Nodes that own no graph are deleted with what joins them. *)
Joined(nodes) ==
  {source.channels[c].from : c \in ChannelsAt(source, nodes)}
    \cup {source.channels[c].to : c \in ChannelsAt(source, nodes)}
Deletable(nodes) ==
  LET links == LinksAt(source, nodes)
      ends == UNION {{source.links[l].output, source.links[l].input} : l \in links}
      writable(n) == ~source.nodes[n].read_only /\ ~source.graphs[source.nodes[n].graph].read_only
  IN /\ \A n \in nodes : ~source.nodes[n].owns /\ ~source.nodes[n].locked
     /\ \A n \in nodes \cup ends \cup Joined(nodes) : writable(n)
     /\ \A n \in nodes \cup ends : ~source.nodes[n].pins_read_only
     /\ \A l \in links : ~source.links[l].read_only /\ ~source.links[l].locked
     /\ \A c \in DOMAIN source.groups :
          source.groups[c].members \cap nodes # {} => ~source.groups[c].locked
Without(nodes) ==
  [RemoveNodes(Drop(source, "channels", ChannelsAt(source, nodes)), nodes) EXCEPT
     !.groups = [c \in DOMAIN @ |-> [@[c] EXCEPT !.members = @ \ nodes]]]
DeleteNode(n) == Deletable({n}) /\ Edited(Without({n}))

(* An empty graph is deleted, with its callers in one CompoundCommand. *)
DeleteGraph(g) ==
  /\ NodesIn(source, g) = {} /\ ~source.graphs[g].read_only /\ g # Opened.root
  /\ Deletable(Callers(source, g))
  /\ LET uncalled == Without(Callers(source, g))
     IN Edited(RemoveGraph(uncalled, uncalled, g))

ChangeRegistry(version) ==
  /\ edits < MaxEdits
  /\ version # type_version
  /\ type_version' = version
  /\ edits' = edits + 1
  /\ UNCHANGED <<source, clipboard, prepared, pasted>>

Copy(g, nodes, groups) ==
  /\ clipboard = None
  /\ SelectedNodes(source, nodes, groups) # {} \/ groups # {}
  /\ clipboard' = CaptureGraphFragment(source, g, nodes, groups)
  /\ UNCHANGED <<source, type_version, prepared, pasted, edits>>

(* The text on the clipboard was changed outside the program; in place of a *)
(* count, edits then says so, and no edit follows.                          *)
Foreign == MaxEdits + 1
Damaged(f) ==
  {[f EXCEPT !.nodes[n].target = g] : n \in {m \in DOMAIN f.nodes : f.nodes[m].target # None},
                                     g \in DOMAIN source.graphs}
    \cup {[f EXCEPT !.links[l].input = n] : l \in DOMAIN f.links, n \in DOMAIN f.nodes}
    \cup {[f EXCEPT !.groups[c].members = @ \cup {n}] : c \in DOMAIN f.groups, n \in DOMAIN f.nodes}
ReceiveText ==
  /\ clipboard # None /\ prepared = None /\ pasted = None
  /\ edits < MaxEdits
  /\ \E f \in Damaged(clipboard) : clipboard' = f
  /\ edits' = Foreign
  /\ UNCHANGED <<source, type_version, prepared, pasted>>

Room(f) == \A kind \in IdKinds : source.next[kind] + Cardinality(IdsOf(f, kind)) <= LastId + 1

(* PrepareGraphFragmentPaste: the identifiers are taken for good. *)
Prepare(g) ==
  /\ clipboard # None /\ prepared = None /\ pasted = None
  /\ FragmentAccepted(source, clipboard, g)
  /\ Room(clipboard)
  /\ prepared' = PreparedFragment(source, clipboard, g)
  /\ source' = Allocated(source, clipboard)
  /\ UNCHANGED <<type_version, clipboard, pasted, edits>>

Paste ==
  /\ prepared # None
  /\ LET result == Committed(ApplyPaste(source, prepared)) IN
     IF result = None THEN /\ prepared' = None
                           /\ UNCHANGED <<source, pasted>>
     ELSE /\ source' = result
          /\ pasted' = [p |-> prepared, before |-> source, done |-> TRUE]
          /\ prepared' = None
  /\ UNCHANGED <<type_version, clipboard, edits>>

Undo ==
  /\ pasted # None /\ pasted.done
  /\ Committed(RevertPaste(source, pasted.p)) # None
  /\ source' = Committed(RevertPaste(source, pasted.p))
  /\ pasted' = [pasted EXCEPT !.done = FALSE]
  /\ UNCHANGED <<type_version, clipboard, prepared, edits>>

Redo ==
  /\ pasted # None /\ ~pasted.done
  /\ Committed(ApplyPaste(source, pasted.p)) # None
  /\ source' = Committed(ApplyPaste(source, pasted.p))
  /\ pasted' = [pasted EXCEPT !.done = TRUE]
  /\ UNCHANGED <<type_version, clipboard, prepared, edits>>

ClipboardInit ==
  /\ source = Opened.document
  /\ type_version = 1
  /\ clipboard = None /\ prepared = None /\ pasted = None
  /\ edits = 0

FlagsOf(part) ==
  CASE part = "graphs" -> {"read_only"}
    [] part = "nodes" -> {"read_only", "pins_read_only", "locked"}
    [] part = "links" -> {"read_only", "locked"}
    [] part = "groups" -> {"locked"}

ClipboardNext ==
  \/ \E part \in Parts \ {"channels"} : \E id \in DOMAIN source[part], flag \in FlagsOf(part) :
       SetProtection(part, id, flag)
  \/ \E n \in DOMAIN source.nodes : DeleteNode(n)
  \/ \E g \in DOMAIN source.graphs : DeleteGraph(g)
  \/ \E version \in Versions : ChangeRegistry(version)
  \/ \E g \in DOMAIN source.graphs :
       \E nodes \in SUBSET NodesIn(source, g), groups \in SUBSET GroupsIn(source, g) :
         Copy(g, nodes, groups)
  \/ ReceiveText
  \/ \E g \in DOMAIN source.graphs : Prepare(g)
  \/ Paste
  \/ Undo
  \/ Redo

ClipboardSpec == ClipboardInit /\ [][ClipboardNext]_clipboard_vars

(* ------------------------------ properties ----------------------------- *)

(* clipboard.cpp, PasteGraphFragmentCommand::Apply: whatever text was        *)
(* pasted and whatever happened between copy and paste, an accepted paste   *)
(* adds to the document an exact copy of the fragment (links, groups,       *)
(* channels, owned graphs and the protection of each), under identifiers    *)
(* the document did not have, and changes nothing else.                     *)
PasteIsACopy ==
  pasted # None /\ pasted.done =>
    \A part \in Parts :
      /\ DOMAIN pasted.before[part] \cap DOMAIN pasted.p[part] = {}
      /\ source[part] = pasted.before[part] @@ pasted.p[part]

(* PasteGraphFragmentCommand::Revert: undo of a paste, which removes the     *)
(* pasted elements one by one, succeeds and gives the document back.        *)
UndoRemovesPaste ==
  pasted # None =>
    /\ ~pasted.done => source = pasted.before
    /\ pasted.done => RevertPaste(source, pasted.p) = pasted.before

(* What a prepared fragment needs is what Apply checks: a fragment this     *)
(* program copied is pasted, protected parts and all, unless the registry,  *)
(* the target (deleted or protected), or a graph the fragment calls from    *)
(* within is in the way.                                                    *)
PreparedIsPasted ==
  prepared # None /\ pasted = None /\ edits # Foreign =>
    \/ ~SchemasCurrent(prepared)
    \/ ~Has(source, "graphs", prepared.into)
    \/ source.graphs[prepared.into].read_only
    \/ \E n \in DOMAIN prepared.nodes \ prepared.top :
         LET v == prepared.nodes[n] IN v.target # None /\ ~v.owns /\
           (Has(source, "graphs", v.target) => prepared.into \in Reached(source, v.target))
    \/ \E n \in prepared.top :
         LET v == prepared.nodes[n] IN v.target # None /\ ~v.owns /\ ~Has(source, "graphs", v.target)
    \/ Committed(ApplyPaste(source, prepared)) # None
=============================================================================
