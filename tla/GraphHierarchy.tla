--------------------------- MODULE GraphHierarchy ---------------------------
(***************************************************************************)
(* Graphs that call and own each other in one document, edited by          *)
(* transactions (src/src/ui_nodes_graph.cpp, ui_nodes_graph_validation.cpp *)
(* and nodes/commands/transaction_semantic.cpp, transaction_commit.cpp).   *)
(*                                                                         *)
(* A transaction stages mutations on a copy of the document and journals   *)
(* what they touch.  Each mutation checks only a part of the structure;    *)
(* Commit then looks only at what the journal names, where                 *)
(* ValidateStructure looks at everything.  The module asks whether the two *)
(* agree.                                                                  *)
(*                                                                         *)
(* An interface is the number of its pins, 0 or 1, and the one pin is an   *)
(* input; a node has as many dynamic pins as pins says, and a channel (an  *)
(* intergraph link) ends at the pin of a proxy node, which the node stands *)
(* for.  Of a presentation only the set of nodes that have one is kept.    *)
(***************************************************************************)
EXTENDS Naturals, FiniteSets

CONSTANTS Graphs, Nodes, Channels,
          Roles,         \* the roles of the nodes that are added
          MaxMutations,  \* bound: mutations of one transaction
          MaxJoined,     \* bound: mutations of one that meets proxy nodes
          MaxShown,      \* bound: nodes that have a presentation
          Liberties,     \* what commands do beyond the profile below
          None

BoundaryRoles == {"boundary_input", "boundary_output"}
AllRoles == {"regular", "subgraph", "proxy_input", "proxy_output"} \cup BoundaryRoles

ASSUME GraphHierarchyAssumption ==
    /\ Roles \subseteq AllRoles
    /\ MaxMutations \in Nat
    /\ MaxJoined \in Nat
    /\ MaxShown \in Nat
    /\ Liberties \subseteq {"reuse", "prune", "lifetime", "hide", "forward",
                          "interface", "regain"}

\* The mutators allow any command more than the commands of the library make
\* of them.  The profile is what each of those keeps to; a liberty lifts one:
\*   reuse      an identifier the document or the transaction has used names
\*              an added graph again, or a node of another graph
\*   prune      a boundary node that the transaction adds is removed again
\*   lifetime   ReplaceGraph changes the lifetime of the graph
\*   hide       ReplaceGraph drops a node that has a presentation
\*   forward    ReplaceGraph calls a graph that is not there yet
\*   interface  ReplaceGraph changes the interface without its projections, or
\*              brings a node that is out of step
\*   regain     ReplaceGraph gives back an owned graph that its node has had
\*              before and lost
\* A CompoundCommand of library commands takes the first two.
Profile(liberty, condition) == liberty \notin Liberties => condition

VARIABLES
    document,   \* the committed document and presentation
    staged,     \* m_impl->staged_document and staged_presentation
    touched,    \* m_impl->journal
    replaced,   \* replacement_baselines
    mutations   \* how many mutations the transaction has staged

vars == <<document, staged, touched, replaced, mutations>>

NodeValues ==
    {v \in [graph : Graphs, role : AllRoles,
            target : Graphs \cup {None},
            ownership : {"owned", "referenced", None}, pins : {0, 1}] :
        /\ (v.role = "subgraph") <=> (v.target # None)
        /\ (v.ownership # None) <=> (v.target # None)}
GraphValues == [lifetime : {"reusable", "owned"}, interface : {0, 1}]
Endpoints == [graph : Graphs, node : Nodes]
Documents == [root : Graphs,
              graphs : [Graphs -> GraphValues \cup {None}],
              nodes : [Nodes -> NodeValues \cup {None}],
              channels : [Channels -> [source : Endpoints, destination : Endpoints]
                                          \cup {None}],
              shown : SUBSET Nodes]
Baselines == [graph : GraphValues, nodes : [Nodes -> NodeValues \cup {None}]]

ASSUME NoneAssumption ==
    /\ None \notin Graphs \cup GraphValues \cup NodeValues \cup Baselines
    /\ None \notin [source : Endpoints, destination : Endpoints]
    /\ None \notin {"owned", "referenced"}

Untouched == [graphs |-> {}, nodes |-> {}, channels |-> {}, shown |-> {},
              replaced |-> {}]

TypeOK ==
    /\ document \in Documents
    /\ staged \in Documents
    /\ touched \in [graphs : SUBSET Graphs, nodes : SUBSET (Graphs \X Nodes),
                    channels : SUBSET Channels, shown : SUBSET Nodes,
                    replaced : SUBSET Graphs]
    /\ replaced \in [Graphs -> Baselines \cup {None}]
    /\ mutations \in 0..MaxMutations
    /\ \A n \in document.shown : document.nodes[n] # None

-----------------------------------------------------------------------------
(* What a document says                                                    *)

Exists(d, g) == d.graphs[g] # None

\* FindNode: the node, when it lies in that graph.
FindNode(d, g, n) ==
    IF d.nodes[n] # None /\ d.nodes[n].graph = g THEN d.nodes[n] ELSE None

NodesOf(d, g) == {n \in Nodes : FindNode(d, g, n) # None}

Callers(d, g) == {n \in Nodes : d.nodes[n] # None /\ d.nodes[n].target = g}
Owners(d, g) == {n \in Callers(d, g) : d.nodes[n].ownership = "owned"}

ChannelsOf(d, n) ==
    {c \in Channels : /\ d.channels[c] # None
                      /\ n \in {d.channels[c].source.node,
                                d.channels[c].destination.node}}

ChannelsForGraph(d, g) ==
    {c \in Channels : /\ d.channels[c] # None
                      /\ g \in {d.channels[c].source.graph,
                                d.channels[c].destination.graph}}

\* A graph depends on the graphs its nodes call and its channels lead to.
DependsOn(d, g) ==
    {d.nodes[n].target : n \in {m \in NodesOf(d, g) : d.nodes[m].target # None}}
        \cup {d.channels[c].destination.graph :
                c \in {k \in ChannelsForGraph(d, g) : d.channels[k].source.graph = g}}

\* HasDependencyPath: the smallest set that holds g and what its members depend on.
Reached(d, g) ==
    {h \in Graphs : \A S \in SUBSET Graphs :
        g \in S /\ (\A k \in S : DependsOn(d, k) \subseteq S) => h \in S}

\* The pins ProjectionMatches expects of a node.
Projected(role, interface) == IF role = "boundary_output" THEN 0 ELSE interface

Boundary(g, role, interface) ==
    [graph |-> g, role |-> role, target |-> None, ownership |-> None,
     pins |-> Projected(role, interface)]

\* The cyclic reference check of AddNode, SetNodeSubgraph, AddIntergraphLink.
MayDepend(d, g, target) ==
    target \notin DependsOn(d, g) => g \notin Reached(d, target)

\* The target's lifetime is the one the caller's ownership asks for.
LifetimeFits(d, v) ==
    d.graphs[v.target].lifetime = IF v.ownership = "owned" THEN "owned" ELSE "reusable"

-----------------------------------------------------------------------------
(* Mutations                                                               *)

\* Bounds: a transaction that meets proxy nodes is shorter, and shows no node.
HasProxies(d) ==
    \E n \in Nodes : d.nodes[n] # None /\ d.nodes[n].role \in {"proxy_input", "proxy_output"}
MayStage(d) ==
    /\ mutations < MaxMutations
    /\ HasProxies(document) \/ HasProxies(d) => mutations < MaxJoined /\ d.shown = {}

Stage(d, names) ==
    /\ MayStage(d)
    /\ staged' = d
    /\ touched' = names
    /\ mutations' = mutations + 1
    /\ UNCHANGED document

\* TouchGraph and TouchNode: what a mutation enters in the journal.
TouchGraphs(graphs) == [touched EXCEPT !.graphs = @ \cup graphs]
TouchNode(g, n) == [touched EXCEPT !.nodes = @ \cup {<<g, n>>}]

SetRootGraph(g) ==
    /\ staged.root # g
    /\ Exists(staged, g)
    /\ staged.graphs[g].lifetime = "reusable"
    /\ Stage([staged EXCEPT !.root = g], touched)
    /\ UNCHANGED replaced

\* A graph value of its own: its nodes are counted by role, and a graph with
\* an interface or a boundary node needs one boundary node of each kind.
Bounded(d, g) ==
    LET inputs == {n \in NodesOf(d, g) : d.nodes[n].role = "boundary_input"}
        outputs == {n \in NodesOf(d, g) : d.nodes[n].role = "boundary_output"}
    IN d.graphs[g].interface # 0 \/ inputs # {} \/ outputs # {}
           => (\E n \in Nodes : inputs = {n}) /\ (\E n \in Nodes : outputs = {n})

\* The dynamic pins of a call site or a boundary node are the interface's.
InSync(d, v) ==
    /\ (v.role = "subgraph" => v.pins = d.graphs[v.target].interface)
    /\ (v.role \in BoundaryRoles
            => v.pins = Projected(v.role, d.graphs[v.graph].interface))

With(d, members) ==
    [n \in Nodes |-> IF n \in DOMAIN members THEN members[n] ELSE d.nodes[n]]

\* What the document asks of a graph that comes with its nodes.
GraphFits(d, g, members) ==
    /\ \A n \in DOMAIN members :
          /\ staged.nodes[n] = None
          /\ members[n].target # None =>
                /\ Exists(staged, members[n].target)
                /\ LifetimeFits(staged, members[n])
                /\ (members[n].ownership = "owned"
                        => Owners(d, members[n].target) = {n})
          /\ InSync(d, members[n])
    /\ Bounded(d, g)

\* AddGraph and RestoreGraph of the transaction.
AddGraph(g, value, members) ==
    LET d == [staged EXCEPT !.graphs[g] = value, !.nodes = With(staged, members)]
    IN /\ ~Exists(staged, g)
       /\ Profile("reuse", /\ ~Exists(document, g) /\ g \notin touched.graphs
                           /\ \A n \in DOMAIN members : document.nodes[n] = None)
       /\ GraphFits(d, g, members)
       /\ Stage(d, TouchGraphs({g}))
       /\ UNCHANGED replaced

\* Nothing leads to the graph.
GraphUnused(g) ==
    /\ staged.root # g
    /\ Callers(staged, g) = {}
    /\ ChannelsForGraph(staged, g) = {}

RemoveGraph(g) ==
    /\ Exists(staged, g)
    /\ GraphUnused(g)
    /\ Stage([staged EXCEPT
                !.graphs[g] = None,
                !.nodes = [n \in Nodes |->
                    IF n \in NodesOf(staged, g) THEN None ELSE @[n]]],
             TouchGraphs({g}))
    /\ UNCHANGED replaced

\* AddNode and RestoreNode.
AddNode(n, v) ==
    /\ Exists(staged, v.graph)
    /\ staged.nodes[n] = None
    /\ Profile("reuse", document.nodes[n] # None => document.nodes[n].graph = v.graph)
    /\ v.target # None =>
        /\ v.target # v.graph
        /\ Exists(staged, v.target)
        /\ MayDepend(staged, v.graph, v.target)
        /\ v.pins = staged.graphs[v.target].interface
        /\ LifetimeFits(staged, v)
        /\ (v.ownership = "owned" => Owners(staged, v.target) = {})
    /\ Stage([staged EXCEPT !.nodes[n] = v],
             TouchNode(v.graph, n))
    /\ UNCHANGED replaced

RemoveNode(n) ==
    /\ staged.nodes[n] # None
    /\ ChannelsOf(staged, n) = {}
    /\ Profile("prune", staged.nodes[n].role \in BoundaryRoles =>
                            FindNode(document, staged.nodes[n].graph, n) # None)
    /\ Stage([staged EXCEPT !.nodes[n] = None],
             TouchNode(staged.nodes[n].graph, n))
    /\ UNCHANGED replaced

\* AddDynamicPin and RemoveDynamicPin.
SetPins(n, pins) ==
    /\ staged.nodes[n] # None
    /\ staged.nodes[n].pins # pins
    /\ (pins = 0 => ChannelsOf(staged, n) = {})
    /\ Stage([staged EXCEPT !.nodes[n].pins = pins],
             TouchNode(staged.nodes[n].graph, n))
    /\ UNCHANGED replaced

ReboundInItsRole(v, target, ownership) ==
    [v EXCEPT !.target = target, !.ownership = ownership]

Rebound(v, target, ownership) ==
    [v EXCEPT !.target = target, !.ownership = ownership,
              !.role = IF target = None THEN "regular" ELSE "subgraph"]

\* What the document asks of a new reference v of node n.
ReferenceFits(n, v) ==
    /\ staged.nodes[n].ownership # "owned"
    /\ v.target # None =>
          /\ v.target # v.graph
          /\ Exists(staged, v.target)
          /\ MayDepend(staged, v.graph, v.target)
          /\ InSync(staged, v)
          /\ LifetimeFits(staged, v)
          /\ (v.ownership = "owned" => Owners(staged, v.target) = {})

SetNodeSubgraph(n, target, ownership) ==
    LET v == Rebound(staged.nodes[n], target, ownership)
    IN /\ staged.nodes[n] # None
       /\ staged.nodes[n] # v
       /\ Profile("prune", staged.nodes[n].role \notin BoundaryRoles)
       /\ ReferenceFits(n, v)
       /\ Stage([staged EXCEPT !.nodes[n] = v],
                TouchNode(v.graph, n))
       /\ UNCHANGED replaced

Connected(d, source, destination) ==
    LET from == FindNode(d, source.graph, source.node)
        to == FindNode(d, destination.graph, destination.node)
    IN /\ source.graph # destination.graph
       /\ from # None /\ from.role = "proxy_output" /\ from.pins = 1
       /\ to # None /\ to.role = "proxy_input" /\ to.pins = 1

\* What the document asks of a channel.
ChannelFits(source, destination) ==
    /\ Connected(staged, source, destination)
    /\ ChannelsOf(staged, source.node) = {}
    /\ ChannelsOf(staged, destination.node) = {}
    /\ MayDepend(staged, source.graph, destination.graph)

AddIntergraphLink(c, source, destination) ==
    /\ staged.channels[c] = None
    /\ ChannelFits(source, destination)
    /\ Stage([staged EXCEPT !.channels[c] =
                [source |-> source, destination |-> destination]],
             [touched EXCEPT !.channels = @ \cup {c}])
    /\ UNCHANGED replaced

RemoveIntergraphLink(c) ==
    /\ staged.channels[c] # None
    /\ Stage([staged EXCEPT !.channels[c] = None],
             [touched EXCEPT !.channels = @ \cup {c}])
    /\ UNCHANGED replaced

SetNodePresentation(n) ==
    /\ n \notin staged.shown => /\ staged.nodes[n] # None
                               /\ Cardinality(staged.shown) < MaxShown
    /\ Stage([staged EXCEPT !.shown = IF n \in @ THEN @ \ {n} ELSE @ \cup {n}],
             [touched EXCEPT !.shown = @ \cup {n}])
    /\ UNCHANGED replaced

\* The graph as it was before its first replacement.
Baseline(d, g) == [graph |-> d.graphs[g],
                   nodes |-> [n \in Nodes |-> FindNode(d, g, n)]]

KeepBaselines(graphs) ==
    replaced' = [g \in Graphs |-> IF g \in graphs /\ replaced[g] = None
                                  THEN Baseline(staged, g) ELSE replaced[g]]

\* A new value for the graph, in which one node may differ (v = None: it is
\* gone).  Identities and cycles are checked; all the rest is left to Commit.
ReplaceGraph(g, value, n, v) ==
    LET d == [staged EXCEPT !.graphs[g] = value, !.nodes[n] = v]
        without == [staged EXCEPT !.nodes[n] = None]
        has(before) == before # None /\ before.target = v.target /\ before.ownership = "owned"
    IN /\ Exists(staged, g)
       /\ d # staged
       /\ staged.nodes[n] # None => staged.nodes[n].graph = g
       /\ Profile("reuse", v # None /\ document.nodes[n] # None => document.nodes[n].graph = g)
       /\ Profile("interface", /\ value.interface = staged.graphs[g].interface
                               /\ v # None /\ (v.target = None \/ Exists(staged, v.target))
                                     => InSync(d, v))
       /\ Profile("lifetime", value.lifetime = staged.graphs[g].lifetime)
       /\ Profile("hide", v = None => n \notin staged.shown)
       /\ Profile("regain", v # None /\ v.ownership = "owned" /\ ~has(staged.nodes[n]) =>
                    ~has(document.nodes[n]) /\ (replaced[g] # None => ~has(replaced[g].nodes[n])))
       /\ v # None /\ v.target # None =>
            /\ Profile("forward", Exists(staged, v.target))
            /\ v.target \notin DependsOn(without, g) /\
                    (staged.nodes[n] = None \/ staged.nodes[n].target # v.target)
                => g \notin Reached(d, v.target)
       /\ Stage(d, [TouchGraphs({g}) EXCEPT !.replaced = @ \cup {g}])
       /\ KeepBaselines({g})

\* EnsureBoundaryNode: the one the graph has, or a fresh node.
BoundaryNode(g, role, n) ==
    LET existing == {m \in NodesOf(staged, g) : staged.nodes[m].role = role}
    IN IF existing = {} THEN staged.nodes[n] = None /\ document.nodes[n] = None
       ELSE existing = {n}

\* SetGraphInterfaceCommand: the graph gets the boundary nodes it lacks, all
\* projections follow, and every graph that this changes is replaced.
SetGraphInterface(g, interface, input, output) ==
    LET d == [staged EXCEPT
                !.graphs[g].interface = interface,
                !.nodes = [n \in Nodes |->
                    CASE n = input -> Boundary(g, "boundary_input", interface)
                      [] n = output -> Boundary(g, "boundary_output", interface)
                      [] n \in Callers(staged, g) -> [@[n] EXCEPT !.pins = interface]
                      [] OTHER -> @[n]]]
        changed == {h \in Graphs : Baseline(d, h) # Baseline(staged, h)}
    IN /\ Exists(staged, g)
       /\ input # output
       /\ BoundaryNode(g, "boundary_input", input)
       /\ BoundaryNode(g, "boundary_output", output)
       /\ changed # {}
       /\ Stage(d, [TouchGraphs(changed) EXCEPT !.replaced = @ \cup changed])
       /\ KeepBaselines(changed)

\* A ReplaceGraph that fails has already kept the baseline.
RejectedReplacement(g) ==
    /\ Exists(staged, g)
    /\ replaced[g] = None
    /\ Stage(staged, touched)
    /\ KeepBaselines({g})

-----------------------------------------------------------------------------
(* Commit                                                                  *)

\* ValidateTargetOwnership
OwnedOnce(d, g) ==
    Exists(d, g) => IF d.graphs[g].lifetime = "owned" THEN \E n \in Nodes : Owners(d, g) = {n}
                    ELSE Owners(d, g) = {}

\* ValidateIntergraphLinkStructure
ChannelValid(d, c) ==
    d.channels[c] # None => Connected(d, d.channels[c].source, d.channels[c].destination)

\* What ValidateNodeRelations says of the node itself.
CallValid(d, v) ==
    v.target # None =>
        /\ Exists(d, v.target)
        /\ v.target # v.graph
        /\ LifetimeFits(d, v)
        /\ OwnedOnce(d, v.target)

\* ValidateNodeRelations
NodeValid(d, g, n) ==
    LET v == FindNode(d, g, n)
    IN Exists(d, g) /\ v # None =>
        /\ \A c \in ChannelsOf(d, n) : ChannelValid(d, c)
        /\ CallValid(d, v)
        /\ InSync(d, v)

\* ValidateBoundaryRelations
BoundariesValid(d, g) ==
    Exists(d, g) =>
        /\ Bounded(d, g)
        /\ \A n \in NodesOf(d, g) :
            d.nodes[n].role \in BoundaryRoles => NodeValid(d, g, n)

Differing(before, g) ==
    {n \in Nodes : before.nodes[n] # FindNode(staged, g, n)}

\* ValidateReplacement
ReplacementValid(before, g) ==
    /\ \A n \in Differing(before, g) :
        IF FindNode(staged, g, n) = None THEN staged.nodes[n] = None
        ELSE NodeValid(staged, g, n)
    /\ before.graph.interface # staged.graphs[g].interface =>
        /\ Bounded(staged, g)
        /\ \A n \in Callers(staged, g) : InSync(staged, staged.nodes[n])
    /\ before.graph.lifetime # staged.graphs[g].lifetime => OwnedOnce(staged, g)

\* FinalizeJournal: what was touched and has changed.
ChangedGraphs == {g \in touched.graphs :
                    Baseline(document, g) # Baseline(staged, g)}
ChangedNodes == {e \in touched.nodes :
                    FindNode(document, e[1], e[2]) # FindNode(staged, e[1], e[2])}
ChangedChannels == {c \in touched.channels : document.channels[c] # staged.channels[c]}
ChangedShown == {n \in touched.shown : (n \in document.shown) # (n \in staged.shown)}

Removed == {g \in ChangedGraphs : ~Exists(staged, g) /\ Exists(document, g)}
Added == {g \in ChangedGraphs : Exists(staged, g) /\ ~Exists(document, g)}
Replacements == IF ChangedGraphs \cap touched.replaced = {} THEN {}
                ELSE {g \in touched.replaced : Exists(staged, g)}

\* The nodes whose relations collect_node_relations collects.
Collected ==
    ChangedNodes \cup
    UNION {{<<g, n>> : n \in Differing(replaced[g], g)} : g \in Replacements}

\* collect_node_relations: of the nodes as they were, and as they are.
CollectedNodes(d) == {FindNode(d, e[1], e[2]) : e \in Collected} \ {None}

OwnershipTargetsNow == {v.target : v \in CollectedNodes(staged)} \ {None}

OwnershipTargets ==
    ({v.target : v \in CollectedNodes(document) \cup CollectedNodes(staged)}
        \cup {document.nodes[n].target :
                 n \in UNION {NodesOf(document, g) : g \in Removed}}) \ {None}

BoundaryGraphsNow ==
    Replacements \cup
    {v.graph : v \in {w \in CollectedNodes(staged) : w.role \in BoundaryRoles}}

BoundaryGraphs ==
    Replacements \cup
    {v.graph : v \in {w \in CollectedNodes(document) \cup CollectedNodes(staged) :
                        w.role \in BoundaryRoles}}

IntergraphLinksTouched == ChangedChannels

IntergraphLinks ==
    ChangedChannels \cup
    UNION {ChannelsOf(d, e[2]) : d \in {document, staged}, e \in Collected}

PresentationKeptSinceBaseline ==
    /\ \A n \in ChangedShown : n \in staged.shown => staged.nodes[n] # None
    /\ \A e \in ChangedNodes :
        FindNode(staged, e[1], e[2]) = None => e[2] \notin staged.shown
    /\ \A g \in Removed : NodesOf(document, g) \cap document.shown = {}

\* No presentation without its node, as far as the journal shows it.
PresentationKept ==
    /\ \A n \in ChangedShown : n \in staged.shown => staged.nodes[n] # None
    /\ \A e \in ChangedNodes :
        FindNode(staged, e[1], e[2]) = None => e[2] \notin staged.shown
    /\ \A g \in Removed : NodesOf(document, g) \cap staged.shown = {}

Accepted ==
    /\ PresentationKept
    /\ \A e \in ChangedNodes : NodeValid(staged, e[1], e[2])
    /\ \A g \in Added : OwnedOnce(staged, g)
    /\ \A g \in Replacements : ReplacementValid(replaced[g], g)
    /\ \A g \in OwnershipTargets : OwnedOnce(staged, g)
    /\ \A g \in BoundaryGraphs : BoundariesValid(staged, g)
    /\ \A c \in IntergraphLinks : ChannelValid(staged, c)

End(d) ==
    /\ document' = d
    /\ staged' = d
    /\ touched' = Untouched
    /\ replaced' = [g \in Graphs |-> None]
    /\ mutations' = 0

Commit == mutations > 0 /\ Accepted /\ End(staged)

\* Commit fails, or the command gives up: the staged copy is dropped.
Discard == mutations > 0 /\ End(document)

-----------------------------------------------------------------------------
Init ==
    \E root \in Graphs :
        /\ document =
            [root |-> root,
             graphs |-> [g \in Graphs |->
                IF g = root THEN [lifetime |-> "reusable", interface |-> 0] ELSE None],
             nodes |-> [n \in Nodes |-> None],
             channels |-> [c \in Channels |-> None],
             shown |-> {}]
        /\ staged = document
        /\ touched = Untouched
        /\ replaced = [g \in Graphs |-> None]
        /\ mutations = 0

\* The graph values and the nodes a command may bring along.
NodesFor == [g \in Graphs |-> {v \in NodeValues : v.graph = g /\ v.role \in Roles}]
\* A graph comes with no node, one, or its two boundary nodes.
BoundaryPair(g, input, output, interface) ==
    [m \in {input, output} |->
        Boundary(g, IF m = input THEN "boundary_input" ELSE "boundary_output", interface)]

BodiesOf(g) ==
    (UNION {[S -> NodesFor[g]] : S \in {{}} \cup {{n} : n \in Nodes}})
        \cup {BoundaryPair(g, input, output, interface) :
                input, output \in Nodes, interface \in {0, 1}}
Bodies == [g \in Graphs |-> BodiesOf(g)]

Mutate ==
    \/ \E g \in Graphs :
        \/ SetRootGraph(g)
        \/ ~Exists(staged, g) /\ \E value \in GraphValues, members \in Bodies[g] :
                AddGraph(g, value, members)
        \/ RemoveGraph(g)
        \/ Exists(staged, g) /\ \E value \in GraphValues, n \in Nodes, v \in NodesFor[g] \cup {None} :
                ReplaceGraph(g, value, n, v)
        \/ \E interface \in {0, 1}, input, output \in Nodes :
                SetGraphInterface(g, interface, input, output)
        \/ RejectedReplacement(g)
    \/ \E n \in Nodes :
        \/ staged.nodes[n] = None /\ \E g \in Graphs : \E v \in NodesFor[g] : AddNode(n, v)
        \/ RemoveNode(n)
        \/ \E pins \in {0, 1} : SetPins(n, pins)
        \/ \E target \in Graphs, ownership \in {"owned", "referenced"} :
                SetNodeSubgraph(n, target, ownership)
        \/ SetNodeSubgraph(n, None, None)
        \/ SetNodePresentation(n)
    \/ \E c \in Channels :
        \/ \E source, destination \in Endpoints : AddIntergraphLink(c, source, destination)
        \/ RemoveIntergraphLink(c)

Next ==
    \/ MayStage(staged) /\ Mutate
    \/ Commit
    \/ Discard

Spec == Init /\ [][Next]_vars

-----------------------------------------------------------------------------
(* ValidateStructure, which looks at the whole document                    *)

ValidRoot(d) ==
    Exists(d, d.root) /\ d.graphs[d.root].lifetime = "reusable"

ValidOwners(d) == \A g \in Graphs : OwnedOnce(d, g)

ValidCalls(d) ==
    \A n \in Nodes : d.nodes[n] # None =>
        Exists(d, d.nodes[n].graph) /\ CallValid(d, d.nodes[n])

ValidDependencies(d) ==
    \A g \in Graphs : \A h \in DependsOn(d, g) : g \notin Reached(d, h)

ValidInterfaces(d) ==
    /\ \A g \in Graphs : Exists(d, g) => Bounded(d, g)
    /\ \A n \in Nodes : d.nodes[n] # None => InSync(d, d.nodes[n])

ValidChannels(d) ==
    /\ \A c \in Channels : ChannelValid(d, c)
    /\ \A n \in Nodes : \A c, k \in ChannelsOf(d, n) : c = k

\* ValidateGraphPresentation: no presentation of a node that is not there.
ValidPresentation(d) == \A n \in d.shown : d.nodes[n] # None

ValidateStructure(d) ==
    /\ ValidRoot(d)
    /\ ValidOwners(d)
    /\ ValidCalls(d)
    /\ ValidDependencies(d)
    /\ ValidInterfaces(d)
    /\ ValidChannels(d)
    /\ ValidPresentation(d)

-----------------------------------------------------------------------------
(* Properties                                                              *)

\* An owned graph has exactly one owner, a reusable graph and the root none,
\* and every call names a graph of the lifetime its ownership asks for:
\* what Commit looks at is enough to keep it so.
OwnersMatchLifetimes ==
    /\ ValidRoot(document)
    /\ ValidOwners(document)
    /\ ValidCalls(document)

\* The same, of the owners alone: what hierarchy.md promises of a document.
OwnedGraphsHaveOneOwner == ValidOwners(document)

\* The pins of every call site and boundary node are those of the interface, and
\* no commit leaves a graph with an interface and a boundary node missing.
InterfacesInSync == ValidInterfaces(document)

\* Every channel joins the pins of two proxy nodes that are there, in graphs that
\* differ, and no pin has two, whatever mutation reached its ends; and calls,
\* ownership and channels together never form a cycle of graphs, though only the
\* mutators look for one and Commit does not.
ChannelsSound == ValidChannels(document) /\ ValidDependencies(document)

\* A node identifier that left one graph and names a node of another.
Moved ==
    \E n \in Nodes : staged.nodes[n] # None /\
        \E v \in {document.nodes[n]} \cup
                    {replaced[g].nodes[n] : g \in {h \in Graphs : replaced[h] # None}} :
            v # None /\ v.graph # staged.nodes[n].graph

\* Commit refuses no document that ValidateStructure would accept: baselines and
\* journals that are stale, or wider than the change, never reject an edit.
OnlyInvalidIsRefused == ValidateStructure(staged) /\ ~Moved => Accepted
=============================================================================
