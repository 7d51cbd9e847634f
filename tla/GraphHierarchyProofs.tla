----------------------- MODULE GraphHierarchyProofs -----------------------
(***************************************************************************)
(* What Commit looks at is enough: every document that a transaction in    *)
(* the profile commits passes ValidateStructure, for any number of graphs, *)
(* nodes, channels and mutations.  And nothing else is refused: in the     *)
(* profile or out of it, Commit accepts every document that passes.        *)
(***************************************************************************)
EXTENDS GraphHierarchy, TLAPS

-----------------------------------------------------------------------------
(* The inductive invariant                                                 *)

Typed ==
    /\ document \in Documents
    /\ staged \in Documents
    /\ touched \in [graphs : SUBSET Graphs, nodes : SUBSET (Graphs \X Nodes),
                    channels : SUBSET Channels, shown : SUBSET Nodes,
                    replaced : SUBSET Graphs]
    /\ replaced \in [Graphs -> Baselines \cup {None}]
    /\ mutations \in 0..MaxMutations

\* Nodes lie in graphs that are there.
Placed(d) == \A n \in Nodes : d.nodes[n] # None => Exists(d, d.nodes[n].graph)

\* Baselines are of the graph they are kept for, and kept before it is replaced.
Kept ==
    /\ \A g \in touched.replaced : replaced[g] # None
    /\ \A g \in Graphs, n \in Nodes : replaced[g] # None /\ replaced[g].nodes[n] # None
            => replaced[g].nodes[n].graph = g

\* What every transaction keeps up, in the profile or out of it.
Based == Typed /\ Placed(staged) /\ Kept

\* Calls and channels lead to graphs that are there.
Referring(d) ==
    /\ \A n \in Nodes : d.nodes[n] # None /\ d.nodes[n].target # None
           => Exists(d, d.nodes[n].target)
    /\ \A c \in Channels : d.channels[c] # None =>
           /\ Exists(d, d.channels[c].source.graph)
           /\ Exists(d, d.channels[c].destination.graph)

Unforked(d) == \A n \in Nodes : \A c, k \in ChannelsOf(d, n) : c = k

Noted(g, n) == <<g, n>> \in touched.nodes

\* What the journal knows of graphs and channels: all that has changed, and a
\* graph keeps its lifetime; a baseline has the interface of the document.
Journal ==
    /\ touched.replaced \subseteq touched.graphs
    /\ \A c \in Channels : document.channels[c] # staged.channels[c] => c \in touched.channels
    /\ \A g \in Graphs : ~(Exists(document, g) <=> Exists(staged, g)) => g \in touched.graphs
    /\ \A g \in Graphs : Exists(document, g) /\ Exists(staged, g) =>
           /\ staged.graphs[g].lifetime = document.graphs[g].lifetime
           /\ g \notin touched.replaced => staged.graphs[g] = document.graphs[g]
    /\ \A g \in Graphs : Exists(document, g) /\ replaced[g] # None =>
           replaced[g].graph = document.graphs[g]

\* ... and of the nodes of the document: a change is journaled, or its graph has a
\* baseline, which differs from the document only where a change is journaled.
Seen ==
    \A g \in Graphs, n \in Nodes : Exists(document, g) =>
        /\ replaced[g] # None /\ replaced[g].nodes[n] # FindNode(document, g, n) => Noted(g, n)
        /\ Exists(staged, g) /\ FindNode(staged, g, n) # FindNode(document, g, n)
               => Noted(g, n) \/ g \in touched.replaced

\* No node identifier leaves its graph for another.
NoMoves ==
    \A n \in Nodes : staged.nodes[n] # None /\ document.nodes[n] # None =>
        staged.nodes[n].graph = document.nodes[n].graph

\* A presentation that its node has left is one that the journal shows.
ShownKept ==
    /\ \A n \in Nodes : ~(n \in staged.shown <=> n \in document.shown) => n \in touched.shown
    /\ \A n \in staged.shown : staged.nodes[n] = None =>
           \/ n \notin document.shown
           \/ ~Exists(staged, document.nodes[n].graph)
           \/ Noted(document.nodes[n].graph, n)

\* A call that does not fit the lifetime of its graph is journaled, or in a graph
\* with a baseline; and one of a baseline is journaled, or its graph is removed.
Fits ==
    /\ \A n \in Nodes : staged.nodes[n] # None /\ staged.nodes[n].target # None =>
           \/ LifetimeFits(staged, staged.nodes[n])
           \/ Noted(staged.nodes[n].graph, n)
           \/ staged.nodes[n].graph \in touched.replaced
    /\ \A g \in Graphs, n \in Nodes :
           replaced[g] # None /\ replaced[g].nodes[n] # None /\ replaced[g].nodes[n].target # None =>
               /\ \/ Exists(staged, replaced[g].nodes[n].target)
                  \/ replaced[g].nodes[n].target \in touched.graphs
               /\ Exists(staged, replaced[g].nodes[n].target) =>
                      LifetimeFits(staged, replaced[g].nodes[n]) \/ Noted(g, n)

Owns(v, t) == v # None /\ v.target = t /\ v.ownership = "owned"

\* Beside the owner that a graph keeps, another is one that the journal shows.
Excl ==
    \A t \in Graphs, n, m \in Nodes :
        /\ Exists(document, t) /\ n # m
        /\ Owns(staged.nodes[n], t) /\ Owns(staged.nodes[m], t) /\ Owns(document.nodes[m], t)
        /\ ~Exists(document, staged.nodes[n].graph)
        => \/ Noted(staged.nodes[n].graph, n)
           \/ /\ staged.nodes[n].graph \in touched.replaced
              /\ ~Owns(replaced[staged.nodes[n].graph].nodes[n], t)

\* Pins that are out of step are journaled, and a graph that is added with a
\* boundary node missing, or lost one since, is replaced or has one journaled.
Synced ==
    /\ \A n \in Nodes : staged.nodes[n] # None =>
           InSync(staged, staged.nodes[n]) \/ Noted(staged.nodes[n].graph, n)
    /\ \A g \in Graphs : Exists(staged, g) /\ ~Exists(document, g) =>
           \/ Bounded(staged, g)
           \/ g \in touched.replaced
           \/ \E n \in NodesOf(staged, g) : staged.nodes[n].role \in BoundaryRoles /\ Noted(g, n)

Inv ==
    /\ Typed
    /\ ValidateStructure(document)
    /\ Placed(staged) /\ Referring(staged) /\ Unforked(staged)
    /\ ValidRoot(staged) /\ ValidDependencies(staged)
    /\ Kept /\ Journal /\ Seen /\ NoMoves
    /\ ShownKept /\ Fits /\ Excl /\ Synced

-----------------------------------------------------------------------------
(* Documents and their parts                                               *)

LEMMA DocumentIs ==
    ASSUME NEW d \in Documents
    PROVE  /\ d.root \in Graphs
           /\ \A g \in Graphs : d.graphs[g] \in GraphValues \cup {None}
           /\ \A n \in Nodes : d.nodes[n] \in NodeValues \cup {None}
           /\ \A c \in Channels : d.channels[c] \in
                  [source : Endpoints, destination : Endpoints] \cup {None}
           /\ d.shown \in SUBSET Nodes
BY DEF Documents

LEMMA NodeIs ==
    ASSUME NEW v \in NodeValues
    PROVE  /\ v # None
           /\ v.graph \in Graphs /\ v.role \in AllRoles
           /\ v.target \in Graphs \cup {None}
           /\ v.ownership \in {"owned", "referenced", None}
           /\ v.pins \in {0, 1}
           /\ (v.role = "subgraph") <=> (v.target # None)
           /\ (v.ownership # None) <=> (v.target # None)
BY NoneAssumption DEF NodeValues

LEMMA GraphIs ==
    ASSUME NEW v \in GraphValues
    PROVE  v # None /\ v.lifetime \in {"reusable", "owned"} /\ v.interface \in {0, 1}
BY NoneAssumption DEF GraphValues

LEMMA ChannelIs ==
    ASSUME NEW v \in [source : Endpoints, destination : Endpoints]
    PROVE  /\ v # None
           /\ v.source.graph \in Graphs /\ v.source.node \in Nodes
           /\ v.destination.graph \in Graphs /\ v.destination.node \in Nodes
BY NoneAssumption DEF Endpoints

LEMMA BaselineIs ==
    ASSUME NEW d \in Documents, NEW g \in Graphs, Exists(d, g)
    PROVE  /\ Baseline(d, g) \in Baselines /\ Baseline(d, g) # None
           /\ Baseline(d, g).graph = d.graphs[g]
           /\ \A n \in Nodes : Baseline(d, g).nodes[n] = FindNode(d, g, n)
<1>1. d.graphs[g] \in GraphValues
  BY DocumentIs DEF Exists
<1>2. \A n \in Nodes : FindNode(d, g, n) \in NodeValues \cup {None}
  BY DocumentIs DEF FindNode
<1>3. Baseline(d, g) \in Baselines
  BY <1>1, <1>2 DEF Baseline, Baselines
<1> QED
  BY <1>3, NoneAssumption DEF Baseline

-----------------------------------------------------------------------------
(* What the mutators do                                                    *)

\* Node n of graph g becomes v.
Edits(g, n, v) ==
    /\ Exists(staged, g)
    /\ staged.nodes[n] # None => staged.nodes[n].graph = g
    /\ v # None => v.graph = g
    /\ staged' = [staged EXCEPT !.nodes[n] = v]
    /\ touched' = TouchNode(g, n)
    /\ mutations' \in 0..MaxMutations
    /\ UNCHANGED <<document, replaced>>

LEMMA EditsIs ==
    ASSUME Typed, NEW g \in Graphs, NEW n \in Nodes, NEW v \in NodeValues \cup {None},
           Edits(g, n, v)
    PROVE  /\ Typed'
           /\ UNCHANGED <<document, replaced>>
           /\ staged'.root = staged.root /\ staged'.graphs = staged.graphs
           /\ staged'.channels = staged.channels /\ staged'.shown = staged.shown
           /\ staged'.nodes[n] = v
           /\ \A m \in Nodes \ {n} : staged'.nodes[m] = staged.nodes[m]
           /\ FindNode(staged', g, n) = v
           /\ \A h \in Graphs, m \in Nodes : <<h, m>> # <<g, n>> =>
                  FindNode(staged', h, m) = FindNode(staged, h, m)
           /\ touched'.graphs = touched.graphs /\ touched'.replaced = touched.replaced
           /\ touched'.nodes = touched.nodes \cup {<<g, n>>}
           /\ touched'.channels = touched.channels /\ touched'.shown = touched.shown
<1>1. /\ staged' \in Documents
      /\ staged'.root = staged.root /\ staged'.graphs = staged.graphs
      /\ staged'.channels = staged.channels /\ staged'.shown = staged.shown
      /\ staged'.nodes[n] = v
      /\ \A m \in Nodes \ {n} : staged'.nodes[m] = staged.nodes[m]
  <2>1. staged \in Documents /\ staged' = [staged EXCEPT !.nodes[n] = v]
    BY DEF Typed, Edits
  <2> QED
    BY <2>1 DEF Documents
<1>2. /\ touched'.graphs = touched.graphs /\ touched'.replaced = touched.replaced
      /\ touched'.nodes = touched.nodes \cup {<<g, n>>}
      /\ touched'.channels = touched.channels /\ touched'.shown = touched.shown
      /\ touched' \in [graphs : SUBSET Graphs, nodes : SUBSET (Graphs \X Nodes),
                       channels : SUBSET Channels, shown : SUBSET Nodes,
                       replaced : SUBSET Graphs]
  BY DEF Typed, Edits, TouchNode
<1>3. Typed' /\ UNCHANGED <<document, replaced>>
  BY <1>1, <1>2 DEF Typed, Edits
<1>4. FindNode(staged', g, n) = v
  BY <1>1 DEF FindNode, Edits
<1>5. ASSUME NEW h \in Graphs, NEW m \in Nodes, <<h, m>> # <<g, n>>
      PROVE  FindNode(staged', h, m) = FindNode(staged, h, m)
  <2>1. CASE m # n
    BY <1>1, <2>1 DEF FindNode
  <2>2. CASE m = n
    <3>1. h # g
      BY <1>5, <2>2
    <3>2. FindNode(staged, h, n) = None
      BY <3>1 DEF FindNode, Edits
    <3>3. FindNode(staged', h, n) = None
      BY <1>1, <3>1 DEF FindNode, Edits
    <3> QED
      BY <2>2, <3>2, <3>3
  <2> QED
    BY <2>1, <2>2
<1> QED
  BY <1>1, <1>2, <1>3, <1>4, <1>5

\* The graphs of H are replaced, with some of their nodes.
Replaces(H) ==
    /\ \A g \in H : Exists(staged, g)
    /\ staged' \in Documents
    /\ staged'.root = staged.root
    /\ staged'.channels = staged.channels /\ staged'.shown = staged.shown
    /\ \A g \in Graphs : Exists(staged', g) <=> Exists(staged, g)
    /\ \A g \in Graphs \ H : staged'.graphs[g] = staged.graphs[g]
    /\ \A n \in Nodes : staged'.nodes[n] # staged.nodes[n] =>
           \E g \in H : /\ staged.nodes[n] # None => staged.nodes[n].graph = g
                        /\ staged'.nodes[n] # None => staged'.nodes[n].graph = g
    /\ touched' = [TouchGraphs(H) EXCEPT !.replaced = @ \cup H]
    /\ KeepBaselines(H)
    /\ mutations' \in 0..MaxMutations
    /\ UNCHANGED document

LEMMA KeepBaselinesIs ==
    ASSUME Typed, NEW H \in SUBSET Graphs, \A g \in H : Exists(staged, g), KeepBaselines(H)
    PROVE  /\ replaced' \in [Graphs -> Baselines \cup {None}]
           /\ \A g \in Graphs : replaced[g] # None \/ g \notin H => replaced'[g] = replaced[g]
           /\ \A g \in H : replaced'[g] # None
           /\ \A g \in H : replaced[g] = None =>
                  /\ replaced'[g].graph = staged.graphs[g]
                  /\ \A n \in Nodes : replaced'[g].nodes[n] = FindNode(staged, g, n)
<1>1. \A g \in H : /\ Baseline(staged, g) \in Baselines /\ Baseline(staged, g) # None
                   /\ Baseline(staged, g).graph = staged.graphs[g]
                   /\ \A n \in Nodes : Baseline(staged, g).nodes[n] = FindNode(staged, g, n)
  BY BaselineIs DEF Typed
<1> QED
  BY <1>1 DEF KeepBaselines, Typed

LEMMA ReplacesIs ==
    ASSUME Typed, NEW H \in SUBSET Graphs, Replaces(H)
    PROVE  /\ Typed'
           /\ touched'.graphs = touched.graphs \cup H
           /\ touched'.replaced = touched.replaced \cup H
           /\ touched'.nodes = touched.nodes
           /\ touched'.channels = touched.channels /\ touched'.shown = touched.shown
           /\ \A g \in Graphs : replaced[g] # None \/ g \notin H => replaced'[g] = replaced[g]
           /\ \A g \in H : replaced'[g] # None
           /\ \A g \in H : replaced[g] = None =>
                  /\ replaced'[g].graph = staged.graphs[g]
                  /\ \A n \in Nodes : replaced'[g].nodes[n] = FindNode(staged, g, n)
           /\ \A g \in Graphs \ H, n \in Nodes : FindNode(staged', g, n) = FindNode(staged, g, n)
<1>1. /\ touched'.graphs = touched.graphs \cup H
      /\ touched'.replaced = touched.replaced \cup H
      /\ touched'.nodes = touched.nodes
      /\ touched'.channels = touched.channels /\ touched'.shown = touched.shown
      /\ touched' \in [graphs : SUBSET Graphs, nodes : SUBSET (Graphs \X Nodes),
                       channels : SUBSET Channels, shown : SUBSET Nodes,
                       replaced : SUBSET Graphs]
  BY DEF Typed, Replaces, TouchGraphs
<1>2. /\ replaced' \in [Graphs -> Baselines \cup {None}]
      /\ \A g \in Graphs : replaced[g] # None \/ g \notin H => replaced'[g] = replaced[g]
      /\ \A g \in H : replaced'[g] # None
      /\ \A g \in H : replaced[g] = None =>
             /\ replaced'[g].graph = staged.graphs[g]
             /\ \A n \in Nodes : replaced'[g].nodes[n] = FindNode(staged, g, n)
  BY KeepBaselinesIs DEF Replaces
<1>3. Typed'
  BY <1>1, <1>2 DEF Typed, Replaces
<1>4. \A g \in Graphs \ H, n \in Nodes : FindNode(staged', g, n) = FindNode(staged, g, n)
  BY DEF Replaces, FindNode
<1> QED
  BY <1>1, <1>2, <1>3, <1>4

LEMMA StageIs ==
    ASSUME Typed, NEW d, NEW names, Stage(d, names)
    PROVE  staged' = d /\ touched' = names /\ document' = document /\ mutations' \in 0..MaxMutations
BY GraphHierarchyAssumption DEF Stage, MayStage, Typed

LEMMA AddNodeEdits ==
    ASSUME Typed, NEW g \in Graphs, NEW v \in NodesFor[g], NEW n \in Nodes, AddNode(n, v)
    PROVE  v \in NodeValues /\ v.graph = g /\ Edits(g, n, v)
<1>1. v \in NodeValues /\ v.graph = g
  BY DEF NodesFor
<1>2. /\ Exists(staged, g) /\ staged.nodes[n] = None /\ replaced' = replaced
      /\ Stage([staged EXCEPT !.nodes[n] = v], TouchNode(g, n))
  BY <1>1 DEF AddNode
<1> QED
  BY <1>1, <1>2, StageIs DEF Edits

LEMMA RemoveNodeEdits ==
    ASSUME Typed, Placed(staged), NEW n \in Nodes, RemoveNode(n)
    PROVE  /\ staged.nodes[n].graph \in Graphs
           /\ Edits(staged.nodes[n].graph, n, None)
<1>1. staged.nodes[n] \in NodeValues /\ staged.nodes[n].graph \in Graphs
  BY DocumentIs, NodeIs DEF Typed, RemoveNode
<1> QED
  BY <1>1, StageIs DEF Placed, RemoveNode, Edits

LEMMA SetPinsEdits ==
    ASSUME Typed, Placed(staged), NEW n \in Nodes, NEW pins \in {0, 1}, SetPins(n, pins)
    PROVE  /\ staged.nodes[n].graph \in Graphs
           /\ [staged.nodes[n] EXCEPT !.pins = pins] \in NodeValues
           /\ Edits(staged.nodes[n].graph, n, [staged.nodes[n] EXCEPT !.pins = pins])
<1> DEFINE v == staged.nodes[n]
           w == [v EXCEPT !.pins = pins]
<1>1. v \in NodeValues /\ v.graph \in Graphs /\ v # None
  BY DocumentIs, NodeIs DEF Typed, SetPins
<1>2. w \in NodeValues /\ w.graph = v.graph
  BY <1>1 DEF NodeValues
<1>3. [staged EXCEPT !.nodes[n].pins = pins] = [staged EXCEPT !.nodes[n] = w]
  BY DEF Typed, Documents
<1>4. Exists(staged, v.graph)
  BY <1>1 DEF Placed
<1> QED
  BY <1>1, <1>2, <1>3, <1>4, StageIs DEF SetPins, Edits

LEMMA SetNodeSubgraphEdits ==
    ASSUME Typed, Placed(staged), NEW n \in Nodes, NEW target \in Graphs \cup {None},
           NEW ownership \in {"owned", "referenced", None},
           target # None <=> ownership # None,
           SetNodeSubgraph(n, target, ownership)
    PROVE  /\ staged.nodes[n].graph \in Graphs
           /\ Rebound(staged.nodes[n], target, ownership) \in NodeValues
           /\ Edits(staged.nodes[n].graph, n, Rebound(staged.nodes[n], target, ownership))
<1> DEFINE v == staged.nodes[n]
           w == Rebound(v, target, ownership)
<1>1. v \in NodeValues /\ v.graph \in Graphs /\ v # None
  BY DocumentIs, NodeIs DEF Typed, SetNodeSubgraph
<1>2. w \in NodeValues /\ w.graph = v.graph
  BY <1>1, NoneAssumption DEF NodeValues, Rebound, AllRoles
<1>3. Exists(staged, v.graph)
  BY <1>1 DEF Placed
<1>4. Stage([staged EXCEPT !.nodes[n] = w], TouchNode(w.graph, n)) /\ UNCHANGED replaced
  BY DEF SetNodeSubgraph
<1> QED
  BY <1>1, <1>2, <1>3, <1>4, StageIs DEF Edits

LEMMA ReplaceGraphReplaces ==
    ASSUME Typed, NEW g \in Graphs, NEW value \in GraphValues, NEW n \in Nodes,
           NEW v \in NodesFor[g] \cup {None}, ReplaceGraph(g, value, n, v)
    PROVE  /\ Replaces({g})
           /\ staged'.graphs[g] = value /\ staged'.nodes[n] = v
           /\ \A m \in Nodes \ {n} : staged'.nodes[m] = staged.nodes[m]
           /\ v # None => v \in NodeValues /\ v.graph = g
           /\ staged.nodes[n] # None => staged.nodes[n].graph = g
<1>1. v # None => v \in NodeValues /\ v.graph = g
  BY DEF NodesFor
<1>2. /\ Exists(staged, g)
      /\ staged' = [staged EXCEPT !.graphs[g] = value, !.nodes[n] = v]
      /\ staged.nodes[n] # None => staged.nodes[n].graph = g
      /\ touched' = [TouchGraphs({g}) EXCEPT !.replaced = @ \cup {g}]
      /\ KeepBaselines({g}) /\ UNCHANGED document /\ mutations' \in 0..MaxMutations
  BY StageIs DEF ReplaceGraph
<1>3. /\ staged' \in Documents
      /\ staged'.root = staged.root
      /\ staged'.channels = staged.channels /\ staged'.shown = staged.shown
      /\ staged'.graphs[g] = value /\ \A h \in Graphs \ {g} : staged'.graphs[h] = staged.graphs[h]
      /\ staged'.nodes[n] = v /\ \A m \in Nodes \ {n} : staged'.nodes[m] = staged.nodes[m]
  BY <1>1, <1>2 DEF Typed, Documents
<1>4. value # None
  BY GraphIs
<1> QED
  BY <1>1, <1>2, <1>3, <1>4 DEF Replaces, Exists

\* The boundary node that a new interface gets.
LEMMA BoundariesCallNothing ==
    ASSUME Typed, NEW g \in Graphs, NEW r \in BoundaryRoles, NEW n \in Nodes,
           BoundaryNode(g, r, n)
    PROVE  /\ n \notin Callers(staged, g)
           /\ \/ staged.nodes[n] = None /\ document.nodes[n] = None
                  /\ \A m \in NodesOf(staged, g) : staged.nodes[m].role # r
              \/ /\ n \in NodesOf(staged, g) /\ staged.nodes[n].role = r
                 /\ \A m \in NodesOf(staged, g) : staged.nodes[m].role = r => m = n
<1> DEFINE existing == {m \in NodesOf(staged, g) : staged.nodes[m].role = r}
<1>1. CASE existing = {}
  BY <1>1 DEF BoundaryNode, Callers
<1>2. CASE existing # {}
  <2>1. existing = {n}
    BY <1>2 DEF BoundaryNode
  <2>2. /\ n \in NodesOf(staged, g) /\ staged.nodes[n].role = r
        /\ \A m \in NodesOf(staged, g) : staged.nodes[m].role = r => m = n
    BY <2>1
  <2>3. staged.nodes[n] \in NodeValues
    BY <2>2, DocumentIs DEF NodesOf, FindNode, Typed
  <2>4. staged.nodes[n].target = None
    BY <2>2, <2>3, NodeIs DEF BoundaryRoles
  <2>5. n \notin Callers(staged, g)
    BY <2>4, NoneAssumption DEF Callers
  <2> QED
    BY <2>2, <2>5
<1> QED
  BY <1>1, <1>2

\* The graph g has another interface, and all that projects it is in step.
Reprojected(g, interface, input, output) ==
    /\ Exists(staged, g)
    /\ staged' \in Documents
    /\ staged'.root = staged.root
    /\ staged'.channels = staged.channels /\ staged'.shown = staged.shown
    /\ staged'.graphs[g] = [staged.graphs[g] EXCEPT !.interface = interface]
    /\ \A h \in Graphs \ {g} : staged'.graphs[h] = staged.graphs[h]
    /\ staged'.nodes[input] = Boundary(g, "boundary_input", interface)
    /\ staged'.nodes[output] = Boundary(g, "boundary_output", interface)
    /\ \A n \in Nodes \ {input, output} : staged'.nodes[n] =
           IF n \in Callers(staged, g) THEN [staged.nodes[n] EXCEPT !.pins = interface]
           ELSE staged.nodes[n]

LEMMA SetGraphInterfaceIs ==
    ASSUME Typed, NEW g \in Graphs, NEW interface \in {0, 1},
           NEW input \in Nodes, NEW output \in Nodes,
           SetGraphInterface(g, interface, input, output)
    PROVE  Reprojected(g, interface, input, output)
<1> DEFINE nodes == [n \in Nodes |->
                        CASE n = input -> Boundary(g, "boundary_input", interface)
                          [] n = output -> Boundary(g, "boundary_output", interface)
                          [] n \in Callers(staged, g) ->
                                 [staged.nodes[n] EXCEPT !.pins = interface]
                          [] OTHER -> staged.nodes[n]]
           graphs == [staged.graphs EXCEPT ![g].interface = interface]
<1>1. Exists(staged, g) /\ input # output
  BY DEF SetGraphInterface
<1>2. staged' = [staged EXCEPT !.graphs = graphs, !.nodes = nodes]
  BY DEF SetGraphInterface, Stage, Typed, Documents
<1>3. graphs \in [Graphs -> GraphValues \cup {None}]
  BY <1>1, DocumentIs DEF Typed, Documents, Exists, GraphValues
<1>4. \A r \in BoundaryRoles : Boundary(g, r, interface) \in NodeValues
  BY NoneAssumption DEF BoundaryRoles, Boundary, NodeValues, Projected, AllRoles
<1>5. \A n \in Callers(staged, g) : [staged.nodes[n] EXCEPT !.pins = interface] \in NodeValues
  BY DEF Callers, NodeValues, Typed, Documents
<1>6. nodes \in [Nodes -> NodeValues \cup {None}]
  BY <1>4, <1>5 DEF Typed, Documents, BoundaryRoles
<1>7. /\ graphs[g] = [staged.graphs[g] EXCEPT !.interface = interface]
      /\ \A h \in Graphs \ {g} : graphs[h] = staged.graphs[h]
  BY DEF Typed, Documents
<1>8. /\ nodes[input] = Boundary(g, "boundary_input", interface)
      /\ nodes[output] = Boundary(g, "boundary_output", interface)
      /\ \A n \in Nodes \ {input, output} : nodes[n] =
                  IF n \in Callers(staged, g) THEN [staged.nodes[n] EXCEPT !.pins = interface]
                  ELSE staged.nodes[n]
  <2>0. input \notin Callers(staged, g) /\ output \notin Callers(staged, g)
    <3>1. BoundaryNode(g, "boundary_input", input) /\ BoundaryNode(g, "boundary_output", output)
      BY DEF SetGraphInterface
    <3>2. "boundary_input" \in BoundaryRoles /\ "boundary_output" \in BoundaryRoles
      BY DEF BoundaryRoles
    <3> QED
      BY <3>1, <3>2, BoundariesCallNothing
  <2>1. nodes[input] = Boundary(g, "boundary_input", interface)
    BY <1>1, <2>0
  <2>2. nodes[output] = Boundary(g, "boundary_output", interface)
    BY <1>1, <2>0
  <2>3. ASSUME NEW n \in Nodes \ {input, output}
        PROVE  nodes[n] = IF n \in Callers(staged, g)
                          THEN [staged.nodes[n] EXCEPT !.pins = interface]
                          ELSE staged.nodes[n]
    <3>1. n # input /\ n # output
      OBVIOUS
    <3> QED
      BY <3>1
  <2> QED
    BY <2>1, <2>2, <2>3
<1> HIDE DEF graphs, nodes
<1>9. /\ staged' \in Documents
      /\ staged'.root = staged.root /\ staged'.graphs = graphs /\ staged'.nodes = nodes
      /\ staged'.channels = staged.channels /\ staged'.shown = staged.shown
  BY <1>2, <1>3, <1>6 DEF Typed, Documents
<1> QED
  BY <1>1, <1>7, <1>8, <1>9 DEF Reprojected

\* Every node that a new interface changes stays in its graph, and keeps its role
\* and what it calls.
LEMMA SetGraphInterfaceKeeps ==
    ASSUME Typed, NEW g \in Graphs, NEW interface \in {0, 1},
           NEW input \in Nodes, NEW output \in Nodes,
           SetGraphInterface(g, interface, input, output), NEW n \in Nodes
    PROVE  /\ staged.nodes[n] # None =>
                  /\ staged'.nodes[n] # None
                  /\ staged'.nodes[n].graph = staged.nodes[n].graph
                  /\ staged'.nodes[n].role = staged.nodes[n].role
                  /\ staged'.nodes[n].target = staged.nodes[n].target
                  /\ staged'.nodes[n].ownership = staged.nodes[n].ownership
           /\ staged.nodes[n] = None /\ staged'.nodes[n] # None =>
                  /\ document.nodes[n] = None
                  /\ staged'.nodes[n].graph = g
                  /\ staged'.nodes[n].target = None /\ staged'.nodes[n].ownership = None
<1>1. /\ BoundaryNode(g, "boundary_input", input) /\ BoundaryNode(g, "boundary_output", output)
      /\ "boundary_input" \in BoundaryRoles /\ "boundary_output" \in BoundaryRoles
  BY DEF SetGraphInterface, BoundaryRoles
<1>2. ASSUME NEW r \in BoundaryRoles, BoundaryNode(g, r, n),
             staged'.nodes[n] = Boundary(g, r, interface)
      PROVE  /\ staged.nodes[n] # None =>
                  /\ staged'.nodes[n] # None
                  /\ staged'.nodes[n].graph = staged.nodes[n].graph
                  /\ staged'.nodes[n].role = staged.nodes[n].role
                  /\ staged'.nodes[n].target = staged.nodes[n].target
                  /\ staged'.nodes[n].ownership = staged.nodes[n].ownership
             /\ staged.nodes[n] = None /\ staged'.nodes[n] # None =>
                  /\ document.nodes[n] = None
                  /\ staged'.nodes[n].graph = g
                  /\ staged'.nodes[n].target = None /\ staged'.nodes[n].ownership = None
  <2>1. /\ Boundary(g, r, interface).graph = g /\ Boundary(g, r, interface).role = r
        /\ Boundary(g, r, interface).target = None
        /\ Boundary(g, r, interface).ownership = None
    BY DEF Boundary
  <2>2. Boundary(g, r, interface) # None
    <3>1. Boundary(g, r, interface) \in NodeValues
      BY NoneAssumption DEF BoundaryRoles, Boundary, NodeValues, Projected, AllRoles
    <3> QED
      BY <3>1, NodeIs
  <2>3. \/ staged.nodes[n] = None /\ document.nodes[n] = None
        \/ n \in NodesOf(staged, g) /\ staged.nodes[n].role = r
    BY <1>2, BoundariesCallNothing
  <2>4. ASSUME n \in NodesOf(staged, g), staged.nodes[n].role = r
        PROVE  /\ staged.nodes[n].graph = g
               /\ staged.nodes[n].target = None /\ staged.nodes[n].ownership = None
    <3>1. staged.nodes[n] \in NodeValues /\ staged.nodes[n].graph = g
      BY <2>4, DocumentIs DEF Typed, NodesOf, FindNode
    <3> QED
      BY <2>4, <3>1, NodeIs DEF BoundaryRoles
  <2>5. CASE staged.nodes[n] = None
    <3>1. document.nodes[n] = None
      BY <2>3, <2>5 DEF NodesOf, FindNode
    <3> QED
      BY <1>2, <2>1, <2>5, <3>1
  <2>6. CASE staged.nodes[n] # None
    <3>1. n \in NodesOf(staged, g) /\ staged.nodes[n].role = r
      BY <2>3, <2>6
    <3> QED
      BY <1>2, <2>1, <2>2, <2>4, <2>6, <3>1
  <2> QED
    BY <2>5, <2>6
<1>6. Reprojected(g, interface, input, output)
  BY SetGraphInterfaceIs
<1>3. CASE n = input
  BY <1>1, <1>2, <1>3, <1>6 DEF Reprojected
<1>4. CASE n = output
  BY <1>1, <1>2, <1>4, <1>6 DEF Reprojected
<1>5. CASE n \notin {input, output}
  <2>1. staged'.nodes[n] = IF n \in Callers(staged, g)
                           THEN [staged.nodes[n] EXCEPT !.pins = interface]
                           ELSE staged.nodes[n]
    BY <1>5, <1>6 DEF Reprojected
  <2>2. CASE n \in Callers(staged, g)
    <3>1. staged.nodes[n] # None /\ staged.nodes[n] \in NodeValues
      BY <2>2, DocumentIs DEF Callers, Typed
    <3>2. [staged.nodes[n] EXCEPT !.pins = interface] \in NodeValues
      BY <3>1 DEF NodeValues
    <3> QED
      BY <2>1, <2>2, <3>1, <3>2, NodeIs DEF NodeValues
  <2> QED
    BY <2>1, <2>2
<1> QED
  BY <1>3, <1>4, <1>5

LEMMA SetGraphInterfaceReplaces ==
    ASSUME Typed, Placed(staged), NEW g \in Graphs, NEW interface \in {0, 1},
           NEW input \in Nodes, NEW output \in Nodes,
           SetGraphInterface(g, interface, input, output)
    PROVE  \E H \in SUBSET Graphs : Replaces(H)
<1> DEFINE H == {h \in Graphs : Baseline(staged', h) # Baseline(staged, h)}
<1>1. /\ touched' = [TouchGraphs(H) EXCEPT !.replaced = @ \cup H]
      /\ KeepBaselines(H) /\ document' = document /\ mutations' \in 0..MaxMutations
  <2> DEFINE d == [staged EXCEPT
                !.graphs[g].interface = interface,
                !.nodes = [n \in Nodes |->
                    CASE n = input -> Boundary(g, "boundary_input", interface)
                      [] n = output -> Boundary(g, "boundary_output", interface)
                      [] n \in Callers(staged, g) -> [@[n] EXCEPT !.pins = interface]
                      [] OTHER -> @[n]]]
             changed == {h \in Graphs : Baseline(d, h) # Baseline(staged, h)}
  <2>1. /\ Stage(d, [TouchGraphs(changed) EXCEPT !.replaced = @ \cup changed])
        /\ KeepBaselines(changed)
    BY DEF SetGraphInterface
  <2> HIDE DEF d
  <2>2. staged' = d /\ document' = document /\ mutations' \in 0..MaxMutations
        /\ touched' = [TouchGraphs(changed) EXCEPT !.replaced = @ \cup changed]
    BY <2>1, StageIs
  <2>3. changed = H
    BY <2>2
  <2> QED
    BY <2>1, <2>2, <2>3
<1>2. /\ staged' \in Documents
      /\ staged'.root = staged.root
      /\ staged'.channels = staged.channels /\ staged'.shown = staged.shown
      /\ staged'.graphs[g] = [staged.graphs[g] EXCEPT !.interface = interface]
      /\ \A h \in Graphs \ {g} : staged'.graphs[h] = staged.graphs[h]
      /\ Exists(staged, g)
  BY SetGraphInterfaceIs DEF Reprojected
<1>3. \A h \in Graphs : Exists(staged', h) <=> Exists(staged, h)
  <2>1. staged.graphs[g] \in GraphValues
    BY <1>2, DocumentIs DEF Typed, Exists
  <2>2. staged'.graphs[g] \in GraphValues
    BY <1>2, <2>1 DEF GraphValues
  <2> QED
    BY <1>2, <2>1, <2>2, GraphIs DEF Exists
<1>4. \A h \in Graphs \ H : staged'.graphs[h] = staged.graphs[h]
  BY DEF Baseline
<1>5. ASSUME NEW n \in Nodes, staged'.nodes[n] # staged.nodes[n]
      PROVE  \E h \in H : /\ staged.nodes[n] # None => staged.nodes[n].graph = h
                          /\ staged'.nodes[n] # None => staged'.nodes[n].graph = h
  <2>1. staged'.nodes[n] # None
    BY <1>5, SetGraphInterfaceKeeps
  <2> DEFINE h == staged'.nodes[n].graph
  <2>2. h \in Graphs
    BY <1>2, <2>1, DocumentIs, NodeIs
  <2>3. staged.nodes[n] # None => staged.nodes[n].graph = h
    BY SetGraphInterfaceKeeps
  <2>4. FindNode(staged', h, n) # FindNode(staged, h, n)
    BY <1>5, <2>1, <2>3 DEF FindNode
  <2>5. Baseline(staged', h) # Baseline(staged, h)
    <3>1. Baseline(staged', h).nodes[n] = FindNode(staged', h, n)
      BY DEF Baseline
    <3>2. Baseline(staged, h).nodes[n] = FindNode(staged, h, n)
      BY DEF Baseline
    <3> QED
      BY <2>4, <3>1, <3>2
  <2> QED
    BY <2>2, <2>3, <2>5
<1>6. \A h \in H : Exists(staged, h)
  <2> SUFFICES ASSUME NEW h \in Graphs, ~Exists(staged, h)
               PROVE  Baseline(staged', h) = Baseline(staged, h)
    OBVIOUS
  <2>1. staged'.graphs[h] = staged.graphs[h]
    BY <1>2
  <2>2. ASSUME NEW n \in Nodes PROVE FindNode(staged', h, n) = FindNode(staged, h, n)
    <3>1. staged.nodes[n] # None => staged.nodes[n].graph # h
      BY DEF Placed
    <3>2. staged'.nodes[n] # None => staged'.nodes[n].graph # h
      BY <1>2, <3>1, SetGraphInterfaceKeeps
    <3> QED
      BY <3>1, <3>2 DEF FindNode
  <2> QED
    BY <2>1, <2>2 DEF Baseline
<1> HIDE DEF H
<1>7. Replaces(H)
  BY <1>1, <1>2, <1>3, <1>4, <1>5, <1>6 DEF Replaces
<1>8. H \in SUBSET Graphs
  BY DEF H
<1> QED
  BY <1>7, <1>8

\* The graph g is there, with the nodes it brings.
Adds(g, value, members) ==
    /\ ~Exists(staged, g)
    /\ staged' \in Documents
    /\ staged'.root = staged.root
    /\ staged'.channels = staged.channels /\ staged'.shown = staged.shown
    /\ staged'.graphs[g] = value
    /\ \A h \in Graphs \ {g} : staged'.graphs[h] = staged.graphs[h]
    /\ \A n \in DOMAIN members : staged.nodes[n] = None /\ staged'.nodes[n] = members[n]
    /\ \A n \in Nodes \ DOMAIN members : staged'.nodes[n] = staged.nodes[n]
    /\ GraphFits(staged', g, members)
    /\ touched' = TouchGraphs({g})
    /\ mutations' \in 0..MaxMutations
    /\ UNCHANGED <<document, replaced>>

LEMMA BodyIs ==
    ASSUME NEW g \in Graphs, NEW members \in Bodies[g]
    PROVE  /\ DOMAIN members \in SUBSET Nodes
           /\ \A n \in DOMAIN members : members[n] \in NodeValues /\ members[n].graph = g
<1> DEFINE Few == UNION {[S -> NodesFor[g]] : S \in {{}} \cup {{n} : n \in Nodes}}
           Pairs == {BoundaryPair(g, input, output, interface) :
                        input, output \in Nodes, interface \in {0, 1}}
<1>1. Bodies[g] = Few \cup Pairs
  <2>1. Bodies[g] = BodiesOf(g)
    BY DEF Bodies
  <2> QED
    BY <2>1 DEF BodiesOf
<1>2. CASE members \in Few
  <2>1. PICK S \in {{}} \cup {{n} : n \in Nodes} : members \in [S -> NodesFor[g]]
    BY <1>2
  <2>2. DOMAIN members = S /\ \A n \in S : members[n] \in NodesFor[g]
    BY <2>1
  <2>3. S \in SUBSET Nodes
    BY <2>1
  <2> QED
    BY <2>2, <2>3 DEF NodesFor
<1>3. CASE members \in Pairs
  <2>1. PICK input \in Nodes, output \in Nodes, interface \in {0, 1} :
            members = BoundaryPair(g, input, output, interface)
    BY <1>3
  <2>2. \A r \in BoundaryRoles :
            Boundary(g, r, interface) \in NodeValues /\ Boundary(g, r, interface).graph = g
    BY NoneAssumption DEF BoundaryRoles, Boundary, NodeValues, Projected, AllRoles
  <2> QED
    BY <2>1, <2>2 DEF BoundaryPair, BoundaryRoles
<1> HIDE DEF Few, Pairs
<1> QED
  BY <1>1, <1>2, <1>3

LEMMA AddGraphAdds ==
    ASSUME Typed, NEW g \in Graphs, NEW value \in GraphValues, NEW members \in Bodies[g],
           AddGraph(g, value, members)
    PROVE  Adds(g, value, members)
<1> DEFINE graphs == [staged.graphs EXCEPT ![g] = value]
           nodes == With(staged, members)
           d == [staged EXCEPT !.graphs[g] = value, !.nodes = With(staged, members)]
<1>1. /\ ~Exists(staged, g) /\ GraphFits(d, g, members) /\ replaced' = replaced
      /\ Stage(d, TouchGraphs({g}))
  BY DEF AddGraph
<1>2. nodes \in [Nodes -> NodeValues \cup {None}]
  BY BodyIs DEF With, Typed, Documents
<1>3. /\ d \in Documents
      /\ d.root = staged.root /\ d.channels = staged.channels /\ d.shown = staged.shown
      /\ d.graphs[g] = value /\ \A h \in Graphs \ {g} : d.graphs[h] = staged.graphs[h]
      /\ d.nodes = nodes
  BY <1>2 DEF Typed, Documents
<1>4. /\ \A n \in DOMAIN members : staged.nodes[n] = None /\ nodes[n] = members[n]
      /\ \A n \in Nodes \ DOMAIN members : nodes[n] = staged.nodes[n]
  BY <1>1, BodyIs DEF With, GraphFits
<1> HIDE DEF nodes, d
<1>5. /\ staged' = d /\ touched' = TouchGraphs({g}) /\ document' = document
      /\ mutations' \in 0..MaxMutations
  BY <1>1, StageIs
<1> QED
  BY <1>1, <1>3, <1>4, <1>5 DEF Adds

LEMMA AddsIs ==
    ASSUME Typed, NEW g \in Graphs, NEW value \in GraphValues, NEW members \in Bodies[g],
           Adds(g, value, members)
    PROVE  /\ Typed'
           /\ touched'.graphs = touched.graphs \cup {g}
           /\ touched'.nodes = touched.nodes /\ touched'.replaced = touched.replaced
           /\ touched'.channels = touched.channels /\ touched'.shown = touched.shown
           /\ \A h \in Graphs : Exists(staged', h) <=> h = g \/ Exists(staged, h)
           /\ \A h \in Graphs \ {g}, n \in Nodes : FindNode(staged', h, n) = FindNode(staged, h, n)
<1>1. /\ touched'.graphs = touched.graphs \cup {g}
      /\ touched'.nodes = touched.nodes /\ touched'.replaced = touched.replaced
      /\ touched'.channels = touched.channels /\ touched'.shown = touched.shown
      /\ Typed'
  BY DEF Adds, TouchGraphs, Typed
<1>2. \A h \in Graphs : Exists(staged', h) <=> h = g \/ Exists(staged, h)
  BY GraphIs DEF Adds, Exists
<1>3. \A h \in Graphs \ {g}, n \in Nodes : FindNode(staged', h, n) = FindNode(staged, h, n)
  BY BodyIs DEF Adds, FindNode
<1> QED
  BY <1>1, <1>2, <1>3

\* The graph g is gone, with its nodes.
Removes(g) ==
    /\ Exists(staged, g)
    /\ GraphUnused(g)
    /\ staged' \in Documents
    /\ staged'.root = staged.root
    /\ staged'.channels = staged.channels /\ staged'.shown = staged.shown
    /\ staged'.graphs[g] = None
    /\ \A h \in Graphs \ {g} : staged'.graphs[h] = staged.graphs[h]
    /\ \A n \in Nodes : staged'.nodes[n] =
           IF staged.nodes[n] # None /\ staged.nodes[n].graph = g THEN None ELSE staged.nodes[n]
    /\ touched' = TouchGraphs({g})
    /\ mutations' \in 0..MaxMutations
    /\ UNCHANGED <<document, replaced>>

LEMMA RemoveGraphRemoves ==
    ASSUME Typed, NEW g \in Graphs, RemoveGraph(g)
    PROVE  Removes(g)
<1> DEFINE nodes == [n \in Nodes |-> IF n \in NodesOf(staged, g) THEN None ELSE staged.nodes[n]]
           d == [staged EXCEPT !.graphs[g] = None,
                    !.nodes = [n \in Nodes |-> IF n \in NodesOf(staged, g) THEN None ELSE @[n]]]
<1>1. /\ Exists(staged, g) /\ GraphUnused(g) /\ replaced' = replaced
      /\ Stage(d, TouchGraphs({g}))
  BY DEF RemoveGraph
<1>2. nodes \in [Nodes -> NodeValues \cup {None}]
  BY DEF Typed, Documents
<1>3. /\ d \in Documents
      /\ d.root = staged.root /\ d.channels = staged.channels /\ d.shown = staged.shown
      /\ d.graphs[g] = None /\ \A h \in Graphs \ {g} : d.graphs[h] = staged.graphs[h]
      /\ d.nodes = nodes
  BY <1>2 DEF Typed, Documents
<1>4. \A n \in Nodes : nodes[n] =
          IF staged.nodes[n] # None /\ staged.nodes[n].graph = g THEN None ELSE staged.nodes[n]
  BY DEF NodesOf, FindNode
<1> HIDE DEF nodes, d
<1>5. /\ staged' = d /\ touched' = TouchGraphs({g}) /\ document' = document
      /\ mutations' \in 0..MaxMutations
  BY <1>1, StageIs
<1> QED
  BY <1>1, <1>3, <1>4, <1>5 DEF Removes

LEMMA RemovesIs ==
    ASSUME Typed, NEW g \in Graphs, Removes(g)
    PROVE  /\ Typed'
           /\ touched'.graphs = touched.graphs \cup {g}
           /\ touched'.nodes = touched.nodes /\ touched'.replaced = touched.replaced
           /\ touched'.channels = touched.channels /\ touched'.shown = touched.shown
           /\ \A h \in Graphs : Exists(staged', h) <=> h # g /\ Exists(staged, h)
           /\ \A h \in Graphs \ {g}, n \in Nodes : FindNode(staged', h, n) = FindNode(staged, h, n)
<1>1. /\ touched'.graphs = touched.graphs \cup {g}
      /\ touched'.nodes = touched.nodes /\ touched'.replaced = touched.replaced
      /\ touched'.channels = touched.channels /\ touched'.shown = touched.shown
      /\ Typed'
  BY DEF Removes, TouchGraphs, Typed
<1>2. \A h \in Graphs : Exists(staged', h) <=> h # g /\ Exists(staged, h)
  BY DEF Removes, Exists
<1>3. \A h \in Graphs \ {g}, n \in Nodes : FindNode(staged', h, n) = FindNode(staged, h, n)
  BY DEF Removes, FindNode
<1> QED
  BY <1>1, <1>2, <1>3

\* Graphs and nodes stay as they are, and so do their journal and baselines.
Spares ==
    /\ Typed'
    /\ UNCHANGED <<document, replaced>>
    /\ staged'.graphs = staged.graphs /\ staged'.nodes = staged.nodes
    /\ touched'.graphs = touched.graphs /\ touched'.nodes = touched.nodes
    /\ touched'.replaced = touched.replaced

LEMMA SetRootGraphSpares ==
    ASSUME Typed, NEW g \in Graphs, SetRootGraph(g)
    PROVE  /\ Spares
           /\ Exists(staged, g) /\ staged.graphs[g].lifetime = "reusable"
           /\ staged'.root = g
           /\ staged'.channels = staged.channels /\ staged'.shown = staged.shown
           /\ touched' = touched
<1>1. /\ Exists(staged, g) /\ staged.graphs[g].lifetime = "reusable"
      /\ staged' = [staged EXCEPT !.root = g] /\ touched' = touched
      /\ document' = document /\ replaced' = replaced /\ mutations' \in 0..MaxMutations
  BY StageIs DEF SetRootGraph
<1>2. /\ staged' \in Documents
      /\ staged'.root = g /\ staged'.graphs = staged.graphs /\ staged'.nodes = staged.nodes
      /\ staged'.channels = staged.channels /\ staged'.shown = staged.shown
  BY <1>1 DEF Typed, Documents
<1> QED
  BY <1>1, <1>2 DEF Typed, Spares

LEMMA SetNodePresentationSpares ==
    ASSUME Typed, NEW n \in Nodes, SetNodePresentation(n)
    PROVE  /\ Spares
           /\ staged'.root = staged.root /\ staged'.channels = staged.channels
           /\ \A m \in Nodes \ {n} : m \in staged'.shown <=> m \in staged.shown
           /\ n \in staged'.shown => staged.nodes[n] # None
           /\ touched'.channels = touched.channels
           /\ touched'.shown = touched.shown \cup {n}
<1> DEFINE shown == IF n \in staged.shown THEN staged.shown \ {n} ELSE staged.shown \cup {n}
<1>1. /\ staged' = [staged EXCEPT !.shown = shown]
      /\ touched' = [touched EXCEPT !.shown = @ \cup {n}]
      /\ document' = document /\ replaced' = replaced /\ mutations' \in 0..MaxMutations
      /\ n \notin staged.shown => staged.nodes[n] # None
  <2>1. /\ Stage([staged EXCEPT !.shown = IF n \in @ THEN @ \ {n} ELSE @ \cup {n}],
                 [touched EXCEPT !.shown = @ \cup {n}])
        /\ replaced' = replaced
        /\ n \notin staged.shown => staged.nodes[n] # None
    BY DEF SetNodePresentation
  <2>2. [staged EXCEPT !.shown = IF n \in @ THEN @ \ {n} ELSE @ \cup {n}]
            = [staged EXCEPT !.shown = shown]
    BY DEF Typed, Documents
  <2> QED
    BY <2>1, <2>2, StageIs
<1>2. /\ staged' \in Documents
      /\ staged'.root = staged.root /\ staged'.graphs = staged.graphs
      /\ staged'.nodes = staged.nodes
      /\ staged'.channels = staged.channels /\ staged'.shown = shown
  BY <1>1 DEF Typed, Documents
<1>3. /\ touched'.graphs = touched.graphs /\ touched'.nodes = touched.nodes
      /\ touched'.replaced = touched.replaced /\ touched'.channels = touched.channels
      /\ touched'.shown = touched.shown \cup {n}
      /\ Typed'
  BY <1>1, <1>2 DEF Typed
<1> QED
  BY <1>1, <1>2, <1>3 DEF Spares

LEMMA RemoveIntergraphLinkSpares ==
    ASSUME Typed, NEW c \in Channels, RemoveIntergraphLink(c)
    PROVE  /\ Spares
           /\ staged'.root = staged.root /\ staged'.shown = staged.shown
           /\ staged'.channels[c] = None
           /\ \A k \in Channels \ {c} : staged'.channels[k] = staged.channels[k]
           /\ touched'.shown = touched.shown
           /\ touched'.channels = touched.channels \cup {c}
<1>1. /\ staged' = [staged EXCEPT !.channels[c] = None]
      /\ touched' = [touched EXCEPT !.channels = @ \cup {c}]
      /\ document' = document /\ replaced' = replaced /\ mutations' \in 0..MaxMutations
  BY StageIs DEF RemoveIntergraphLink
<1>2. /\ staged' \in Documents
      /\ staged'.root = staged.root /\ staged'.graphs = staged.graphs
      /\ staged'.nodes = staged.nodes /\ staged'.shown = staged.shown
      /\ staged'.channels[c] = None
      /\ \A k \in Channels \ {c} : staged'.channels[k] = staged.channels[k]
  BY <1>1 DEF Typed, Documents
<1>3. /\ touched'.graphs = touched.graphs /\ touched'.nodes = touched.nodes
      /\ touched'.replaced = touched.replaced /\ touched'.shown = touched.shown
      /\ touched'.channels = touched.channels \cup {c}
      /\ Typed'
  BY <1>1, <1>2 DEF Typed
<1> QED
  BY <1>1, <1>2, <1>3 DEF Spares

LEMMA AddIntergraphLinkSpares ==
    ASSUME Typed, NEW c \in Channels, NEW source \in Endpoints, NEW destination \in Endpoints,
           AddIntergraphLink(c, source, destination)
    PROVE  /\ Spares
           /\ staged'.root = staged.root /\ staged'.shown = staged.shown
           /\ staged.channels[c] = None /\ staged'.channels[c] # None
           /\ staged'.channels[c].source = source
           /\ staged'.channels[c].destination = destination
           /\ \A k \in Channels \ {c} : staged'.channels[k] = staged.channels[k]
           /\ touched'.shown = touched.shown
           /\ touched'.channels = touched.channels \cup {c}
<1> DEFINE link == [source |-> source, destination |-> destination]
<1>1. /\ staged.channels[c] = None
      /\ staged' = [staged EXCEPT !.channels[c] = link]
      /\ touched' = [touched EXCEPT !.channels = @ \cup {c}]
      /\ document' = document /\ replaced' = replaced /\ mutations' \in 0..MaxMutations
  BY StageIs DEF AddIntergraphLink
<1>2. /\ link \in [source : Endpoints, destination : Endpoints]
      /\ link.source = source /\ link.destination = destination
  OBVIOUS
<1>3. link # None
  BY <1>2, NoneAssumption
<1> HIDE DEF link
<1>4. /\ staged' \in Documents
      /\ staged'.root = staged.root /\ staged'.graphs = staged.graphs
      /\ staged'.nodes = staged.nodes /\ staged'.shown = staged.shown
      /\ staged'.channels[c] = link
      /\ \A k \in Channels \ {c} : staged'.channels[k] = staged.channels[k]
  BY <1>1, <1>2 DEF Typed, Documents
<1>5. /\ touched'.graphs = touched.graphs /\ touched'.nodes = touched.nodes
      /\ touched'.replaced = touched.replaced /\ touched'.shown = touched.shown
      /\ touched'.channels = touched.channels \cup {c}
      /\ Typed'
  BY <1>1, <1>4 DEF Typed
<1> QED
  BY <1>1, <1>2, <1>3, <1>4, <1>5 DEF Spares

-----------------------------------------------------------------------------
(* What every transaction keeps up                                         *)

LEMMA SparesKeepBased ==
    ASSUME Based, Spares
    PROVE  Based'
<1>1. Placed(staged)'
  BY DEF Based, Spares, Placed, Exists
<1>2. Kept'
  BY DEF Based, Spares, Kept
<1> QED
  BY <1>1, <1>2 DEF Based, Spares

LEMMA ReplacesKeepBased ==
    ASSUME Based, NEW H \in SUBSET Graphs, Replaces(H)
    PROVE  Based'
<1>1. /\ Typed'
      /\ touched'.replaced = touched.replaced \cup H
      /\ \A g \in Graphs : replaced[g] # None \/ g \notin H => replaced'[g] = replaced[g]
      /\ \A g \in H : replaced'[g] # None
      /\ \A g \in H : replaced[g] = None =>
             \A n \in Nodes : replaced'[g].nodes[n] = FindNode(staged, g, n)
  BY ReplacesIs DEF Based
<1>2. Placed(staged)'
  <2>1. \A n \in Nodes : staged'.nodes[n] # None => staged'.nodes[n].graph \in Graphs
    BY <1>1, DocumentIs, NodeIs DEF Typed
  <2> QED
    BY <2>1 DEF Based, Placed, Replaces
<1>3. Kept'
  <2>1. \A g \in touched'.replaced : replaced'[g] # None
    BY <1>1 DEF Based, Kept, Typed
  <2>2. ASSUME NEW g \in Graphs, NEW n \in Nodes, replaced'[g] # None, replaced'[g].nodes[n] # None
        PROVE  replaced'[g].nodes[n].graph = g
    <3>1. CASE replaced'[g] = replaced[g]
      BY <2>2, <3>1 DEF Based, Kept
    <3>2. CASE replaced'[g] # replaced[g]
      <4>1. replaced'[g].nodes[n] = FindNode(staged, g, n)
        BY <1>1, <3>2
      <4> QED
        BY <2>2, <4>1 DEF FindNode
    <3> QED
      BY <3>1, <3>2
  <2> QED
    BY <2>1, <2>2 DEF Kept
<1> QED
  BY <1>1, <1>2, <1>3 DEF Based

LEMMA EditsKeepBased ==
    ASSUME Based, NEW g \in Graphs, NEW n \in Nodes, NEW v \in NodeValues \cup {None},
           Edits(g, n, v)
    PROVE  Based'
<1>1. /\ Typed'
      /\ UNCHANGED <<document, replaced>>
      /\ staged'.graphs = staged.graphs
      /\ staged'.nodes[n] = v
      /\ \A m \in Nodes \ {n} : staged'.nodes[m] = staged.nodes[m]
      /\ touched'.replaced = touched.replaced
  BY EditsIs DEF Based
<1>2. Placed(staged)'
  BY <1>1 DEF Based, Placed, Exists, Edits
<1>3. Kept'
  BY <1>1 DEF Based, Kept
<1> QED
  BY <1>1, <1>2, <1>3 DEF Based

LEMMA AddsKeepBased ==
    ASSUME Based, NEW g \in Graphs, NEW value \in GraphValues, NEW members \in Bodies[g],
           Adds(g, value, members)
    PROVE  Based'
<1>1. /\ Typed'
      /\ touched'.replaced = touched.replaced
      /\ \A h \in Graphs : Exists(staged', h) <=> h = g \/ Exists(staged, h)
  BY AddsIs DEF Based
<1>2. Placed(staged)'
  <2>1. \A n \in Nodes : staged.nodes[n] # None => staged.nodes[n].graph \in Graphs
    BY DocumentIs, NodeIs DEF Based, Typed
  <2> QED
    BY <1>1, <2>1, BodyIs DEF Based, Placed, Adds
<1>3. Kept'
  BY <1>1 DEF Based, Kept, Adds
<1> QED
  BY <1>1, <1>2, <1>3 DEF Based

LEMMA RemovesKeepBased ==
    ASSUME Based, NEW g \in Graphs, Removes(g)
    PROVE  Based'
<1>1. /\ Typed'
      /\ touched'.replaced = touched.replaced
      /\ \A h \in Graphs : Exists(staged', h) <=> h # g /\ Exists(staged, h)
  BY RemovesIs DEF Based
<1>2. Placed(staged)'
  <2>1. \A n \in Nodes : staged.nodes[n] # None => staged.nodes[n].graph \in Graphs
    BY DocumentIs, NodeIs DEF Based, Typed
  <2> QED
    BY <1>1, <2>1 DEF Based, Placed, Removes
<1>3. Kept'
  BY <1>1 DEF Based, Kept, Removes
<1> QED
  BY <1>1, <1>2, <1>3 DEF Based

LEMMA RejectedReplacementKeepsBased ==
    ASSUME Based, NEW g \in Graphs, RejectedReplacement(g)
    PROVE  Based'
<1>1. /\ Exists(staged, g) /\ replaced[g] = None /\ KeepBaselines({g})
      /\ staged' = staged /\ touched' = touched /\ document' = document
      /\ mutations' \in 0..MaxMutations
  BY StageIs DEF RejectedReplacement, Based
<1>2. /\ replaced' \in [Graphs -> Baselines \cup {None}]
      /\ \A h \in Graphs \ {g} : replaced'[h] = replaced[h]
      /\ replaced'[g] # None
      /\ \A n \in Nodes : replaced'[g].nodes[n] = FindNode(staged, g, n)
  BY <1>1, KeepBaselinesIs DEF Based
<1>3. Typed'
  BY <1>1, <1>2 DEF Based, Typed
<1>4. Kept'
  <2>1. \A h \in touched'.replaced : replaced'[h] # None
    BY <1>1, <1>2 DEF Based, Kept, Typed
  <2>2. \A h \in Graphs, n \in Nodes : replaced'[h] # None /\ replaced'[h].nodes[n] # None
            => replaced'[h].nodes[n].graph = h
    BY <1>2 DEF Based, Kept, FindNode
  <2> QED
    BY <2>1, <2>2 DEF Kept
<1> QED
  BY <1>1, <1>3, <1>4 DEF Based

-----------------------------------------------------------------------------
(* Dependencies                                                            *)

LEMMA EdgeIs ==
    ASSUME NEW d \in Documents, NEW g \in Graphs
    PROVE  /\ DependsOn(d, g) \subseteq Graphs
           /\ \A h \in Graphs : h \in DependsOn(d, g) <=>
                  \/ \E n \in Nodes : /\ d.nodes[n] # None /\ d.nodes[n].graph = g
                                      /\ d.nodes[n].target = h
                  \/ \E c \in Channels : /\ d.channels[c] # None
                                         /\ d.channels[c].source.graph = g
                                         /\ d.channels[c].destination.graph = h
<1> DEFINE called == {d.nodes[n].target : n \in {m \in NodesOf(d, g) : d.nodes[m].target # None}}
           led == {d.channels[c].destination.graph :
                      c \in {k \in ChannelsForGraph(d, g) : d.channels[k].source.graph = g}}
<1>1. DependsOn(d, g) = called \cup led
  BY DEF DependsOn
<1>2. \A n \in Nodes : n \in NodesOf(d, g) <=> d.nodes[n] # None /\ d.nodes[n].graph = g
  BY DEF NodesOf, FindNode
<1>3. \A c \in Channels : c \in ChannelsForGraph(d, g) /\ d.channels[c].source.graph = g
                             <=> d.channels[c] # None /\ d.channels[c].source.graph = g
  BY DEF ChannelsForGraph
<1>4. called \subseteq Graphs
  <2> SUFFICES ASSUME NEW n \in NodesOf(d, g), d.nodes[n].target # None
               PROVE  d.nodes[n].target \in Graphs
    OBVIOUS
  <2>1. n \in Nodes
    BY DEF NodesOf
  <2>2. d.nodes[n] \in NodeValues
    BY <1>2, <2>1, DocumentIs
  <2> QED
    BY <2>2, NodeIs
<1>5. led \subseteq Graphs
  BY <1>3, DocumentIs, ChannelIs DEF ChannelsForGraph
<1>6. \A h \in Graphs : h \in called <=>
          \E n \in Nodes : d.nodes[n] # None /\ d.nodes[n].graph = g /\ d.nodes[n].target = h
  <2>1. None \notin Graphs
    BY NoneAssumption
  <2>2. NodesOf(d, g) \subseteq Nodes
    BY DEF NodesOf
  <2> QED
    BY <1>2, <2>1, <2>2
<1>7. \A h \in Graphs : h \in led <=>
          \E c \in Channels : /\ d.channels[c] # None
                              /\ d.channels[c].source.graph = g
                              /\ d.channels[c].destination.graph = h
  <2>1. ChannelsForGraph(d, g) \subseteq Channels
    BY DEF ChannelsForGraph
  <2> QED
    BY <1>3, <2>1
<1> HIDE DEF called, led
<1> QED
  BY <1>1, <1>4, <1>5, <1>6, <1>7

Closed(d, S) == \A k \in S : DependsOn(d, k) \subseteq S

LEMMA ReachedIs ==
    ASSUME NEW d \in Documents, NEW g \in Graphs
    PROVE  /\ Reached(d, g) \in SUBSET Graphs
           /\ g \in Reached(d, g)
           /\ Closed(d, Reached(d, g))
           /\ \A S \in SUBSET Graphs : g \in S /\ Closed(d, S) => Reached(d, g) \subseteq S
<1>1. \A h \in Graphs : h \in Reached(d, g) <=>
          \A S \in SUBSET Graphs : g \in S /\ Closed(d, S) => h \in S
  BY DEF Reached, Closed
<1>2. Reached(d, g) \in SUBSET Graphs
  BY DEF Reached
<1>3. g \in Reached(d, g)
  BY <1>1
<1>4. ASSUME NEW k \in Reached(d, g), NEW h \in DependsOn(d, k) PROVE h \in Reached(d, g)
  <2>1. k \in Graphs
    BY <1>2
  <2>2. h \in Graphs
    BY <2>1, EdgeIs
  <2>3. ASSUME NEW S \in SUBSET Graphs, g \in S, Closed(d, S) PROVE h \in S
    <3>1. k \in S
      BY <1>1, <2>1, <2>3
    <3> QED
      BY <3>1, <2>3 DEF Closed
  <2> QED
    BY <1>1, <2>2, <2>3
<1>5. \A S \in SUBSET Graphs : g \in S /\ Closed(d, S) => Reached(d, g) \subseteq S
  BY <1>1, <1>2
<1> QED
  BY <1>2, <1>3, <1>4, <1>5 DEF Closed

\* A document with no more dependencies reaches no more.
LEMMA FewerReached ==
    ASSUME NEW d \in Documents, NEW e \in Documents,
           \A k \in Graphs : DependsOn(e, k) \subseteq DependsOn(d, k), NEW g \in Graphs
    PROVE  Reached(e, g) \subseteq Reached(d, g)
<1>1. Closed(e, Reached(d, g))
  BY ReachedIs DEF Closed
<1> QED
  BY <1>1, ReachedIs

LEMMA FewerDependencies ==
    ASSUME NEW d \in Documents, NEW e \in Documents,
           \A k \in Graphs : DependsOn(e, k) \subseteq DependsOn(d, k), ValidDependencies(d)
    PROVE  ValidDependencies(e)
<1> SUFFICES ASSUME NEW g \in Graphs, NEW h \in DependsOn(e, g) PROVE g \notin Reached(e, h)
  BY DEF ValidDependencies
<1>1. h \in DependsOn(d, g) /\ h \in Graphs
  BY EdgeIs
<1> QED
  BY <1>1, FewerReached DEF ValidDependencies

\* A dependency that leads to a graph that does not reach its start closes no cycle.
LEMMA OneMoreDependency ==
    ASSUME NEW d \in Documents, NEW e \in Documents, ValidDependencies(d),
           NEW g \in Graphs, NEW t \in Graphs, g \notin Reached(d, t),
           \A k \in Graphs \ {g} : DependsOn(e, k) \subseteq DependsOn(d, k),
           DependsOn(e, g) \subseteq DependsOn(d, g) \cup {t}
    PROVE  ValidDependencies(e)
<1>1. \A k \in Graphs : DependsOn(d, k) \subseteq Graphs /\ DependsOn(e, k) \subseteq Graphs
  BY EdgeIs
<1>2. /\ Reached(d, t) \in SUBSET Graphs /\ t \in Reached(d, t) /\ Closed(d, Reached(d, t))
  BY ReachedIs
<1>3. Closed(e, Reached(d, t))
  BY <1>2 DEF Closed
<1>4. Reached(e, t) \subseteq Reached(d, t)
  BY <1>2, <1>3, ReachedIs
<1> SUFFICES ASSUME NEW k \in Graphs, NEW h \in DependsOn(e, k) PROVE k \notin Reached(e, h)
  BY DEF ValidDependencies
<1>5. h \in Graphs
  BY <1>1
<1>6. CASE k = g /\ h = t
  BY <1>4, <1>6
<1>7. CASE h \in DependsOn(d, k)
  <2>1. k \notin Reached(d, h)
    BY <1>7 DEF ValidDependencies
  <2>2. /\ Reached(d, h) \in SUBSET Graphs /\ h \in Reached(d, h) /\ Closed(d, Reached(d, h))
    BY <1>5, ReachedIs
  <2>3. CASE g \notin Reached(d, h)
    <3>1. Closed(e, Reached(d, h))
      BY <2>2, <2>3 DEF Closed
    <3> QED
      BY <1>5, <2>1, <2>2, <3>1, ReachedIs
  <2>4. CASE g \in Reached(d, h)
    <3> DEFINE S == Reached(d, h) \cup Reached(d, t)
    <3>1. Closed(e, S)
      BY <1>2, <2>2 DEF Closed
    <3>2. k \notin Reached(d, t)
      <4> SUFFICES ASSUME k \in Reached(d, t) PROVE FALSE
        OBVIOUS
      <4>1. h \in Reached(d, t)
        BY <1>2, <1>7 DEF Closed
      <4>2. Reached(d, h) \subseteq Reached(d, t)
        BY <1>2, <1>5, <4>1, ReachedIs
      <4> QED
        BY <2>4, <4>2
    <3>3. Reached(e, h) \subseteq S
      BY <1>2, <1>5, <2>2, <3>1, ReachedIs
    <3> QED
      BY <2>1, <3>2, <3>3
  <2> QED
    BY <2>3, <2>4
<1> QED
  BY <1>6, <1>7

\* A graph with the same value and the same nodes is as well bounded.
LEMMA SameGraph ==
    ASSUME NEW d, NEW e, NEW g, d.graphs[g] = e.graphs[g],
           \A n \in Nodes : FindNode(d, g, n) = FindNode(e, g, n)
    PROVE  /\ NodesOf(d, g) = NodesOf(e, g)
           /\ \A n \in NodesOf(e, g) : d.nodes[n] = e.nodes[n]
           /\ Bounded(d, g) <=> Bounded(e, g)
<1>1. NodesOf(d, g) = NodesOf(e, g)
  BY DEF NodesOf
<1>2. \A n \in NodesOf(e, g) : d.nodes[n] = e.nodes[n]
  <2> SUFFICES ASSUME NEW n \in Nodes, FindNode(e, g, n) # None
               PROVE  d.nodes[n] = e.nodes[n]
    BY DEF NodesOf
  <2>1. FindNode(d, g, n) = FindNode(e, g, n)
    OBVIOUS
  <2> QED
    BY <2>1 DEF FindNode
<1>3. /\ {n \in NodesOf(d, g) : d.nodes[n].role = "boundary_input"}
            = {n \in NodesOf(e, g) : e.nodes[n].role = "boundary_input"}
      /\ {n \in NodesOf(d, g) : d.nodes[n].role = "boundary_output"}
            = {n \in NodesOf(e, g) : e.nodes[n].role = "boundary_output"}
  BY <1>1, <1>2
<1>4. Bounded(d, g) <=> Bounded(e, g)
  BY <1>3 DEF Bounded
<1> QED
  BY <1>1, <1>2, <1>4

-----------------------------------------------------------------------------
(* One node is edited                                                      *)

LEMMA ValidPlaces ==
    ASSUME NEW d \in Documents, ValidCalls(d), ValidChannels(d)
    PROVE  Placed(d) /\ Referring(d)
<1>1. Placed(d)
  BY DEF ValidCalls, Placed
<1>2. \A n \in Nodes : d.nodes[n] # None /\ d.nodes[n].target # None
          => Exists(d, d.nodes[n].target)
  BY DEF ValidCalls, CallValid
<1>3. ASSUME NEW c \in Channels, d.channels[c] # None
      PROVE  /\ Exists(d, d.channels[c].source.graph)
             /\ Exists(d, d.channels[c].destination.graph)
  <2> DEFINE a == d.channels[c].source
             b == d.channels[c].destination
  <2>1. /\ a.graph \in Graphs /\ a.node \in Nodes
        /\ b.graph \in Graphs /\ b.node \in Nodes
    BY <1>3, DocumentIs, ChannelIs
  <2>2. FindNode(d, a.graph, a.node) # None /\ FindNode(d, b.graph, b.node) # None
    BY <1>3 DEF ValidChannels, ChannelValid, Connected
  <2> QED
    BY <1>1, <2>1, <2>2 DEF Placed, FindNode
<1> QED
  BY <1>1, <1>2, <1>3 DEF Referring

\* An edit that leads to a graph that is there and does not lead back, that gives
\* nothing a second owner, and that lets no boundary node of a new graph go.
EditsWell(g, n, v) ==
    /\ Edits(g, n, v)
    /\ v # None /\ v.target # None =>
           /\ Exists(staged, v.target)
           /\ v.target \in DependsOn(staged, g) \/ g \notin Reached(staged, v.target)
    /\ v # None /\ v.ownership = "owned" =>
           \/ Owns(staged.nodes[n], v.target)
           \/ \A m \in Nodes : ~Owns(staged.nodes[m], v.target)
    /\ v # None /\ document.nodes[n] # None => document.nodes[n].graph = g
    /\ staged.nodes[n] # None /\ staged.nodes[n].role \in BoundaryRoles /\ ~Exists(document, g)
           => v # None /\ v.role = staged.nodes[n].role

LEMMA EditsDependWell ==
    ASSUME Typed, ValidDependencies(staged), NEW g \in Graphs, NEW n \in Nodes,
           NEW v \in NodeValues \cup {None}, EditsWell(g, n, v)
    PROVE  ValidDependencies(staged')
<1>1. /\ staged' \in Documents /\ staged \in Documents
      /\ staged'.channels = staged.channels
      /\ staged'.nodes[n] = v
      /\ \A m \in Nodes \ {n} : staged'.nodes[m] = staged.nodes[m]
  BY EditsIs DEF EditsWell, Typed
<1>2. v # None => v.graph = g
  BY DEF EditsWell, Edits
<1>3. ASSUME NEW k \in Graphs, NEW h \in DependsOn(staged', k), h \notin DependsOn(staged, k)
      PROVE  k = g /\ v # None /\ v.target = h
  <2>1. h \in Graphs
    BY <1>1, EdgeIs
  <2>2. \/ \E m \in Nodes : /\ staged'.nodes[m] # None /\ staged'.nodes[m].graph = k
                            /\ staged'.nodes[m].target = h
        \/ \E c \in Channels : /\ staged'.channels[c] # None
                               /\ staged'.channels[c].source.graph = k
                               /\ staged'.channels[c].destination.graph = h
    BY <1>1, <2>1, EdgeIs
  <2>3. /\ ~\E m \in Nodes : /\ staged.nodes[m] # None /\ staged.nodes[m].graph = k
                             /\ staged.nodes[m].target = h
        /\ ~\E c \in Channels : /\ staged.channels[c] # None
                                /\ staged.channels[c].source.graph = k
                                /\ staged.channels[c].destination.graph = h
    BY <1>1, <1>3, <2>1, EdgeIs
  <2> QED
    BY <1>1, <1>2, <2>2, <2>3
<1>4. CASE v # None /\ v.target # None /\ g \notin Reached(staged, v.target)
  <2>1. v.target \in Graphs
    BY <1>4, NodeIs
  <2>2. /\ \A k \in Graphs \ {g} : DependsOn(staged', k) \subseteq DependsOn(staged, k)
        /\ DependsOn(staged', g) \subseteq DependsOn(staged, g) \cup {v.target}
    BY <1>3
  <2> QED
    BY <1>1, <1>4, <2>1, <2>2, OneMoreDependency
<1>5. CASE ~(v # None /\ v.target # None /\ g \notin Reached(staged, v.target))
  <2>1. v # None /\ v.target # None => v.target \in DependsOn(staged, g)
    BY <1>5 DEF EditsWell
  <2>2. \A k \in Graphs : DependsOn(staged', k) \subseteq DependsOn(staged, k)
    <3> SUFFICES ASSUME NEW k \in Graphs, NEW h \in DependsOn(staged', k),
                        h \notin DependsOn(staged, k)
                 PROVE  FALSE
      OBVIOUS
    <3>1. k = g /\ v # None /\ v.target = h
      BY <1>3
    <3>2. h \in Graphs
      BY <1>1, EdgeIs
    <3> QED
      BY <2>1, <3>1, <3>2, NoneAssumption
  <2> QED
    BY <1>1, <2>2, FewerDependencies
<1> QED
  BY <1>4, <1>5

LEMMA EditsKeep ==
    ASSUME Inv, NEW g \in Graphs, NEW n \in Nodes, NEW v \in NodeValues \cup {None},
           EditsWell(g, n, v)
    PROVE  Inv'
<1>1. /\ Typed'
      /\ UNCHANGED <<document, replaced>>
      /\ staged'.root = staged.root /\ staged'.graphs = staged.graphs
      /\ staged'.channels = staged.channels /\ staged'.shown = staged.shown
      /\ staged'.nodes[n] = v
      /\ \A m \in Nodes \ {n} : staged'.nodes[m] = staged.nodes[m]
      /\ FindNode(staged', g, n) = v
      /\ \A h \in Graphs, m \in Nodes : <<h, m>> # <<g, n>> =>
             FindNode(staged', h, m) = FindNode(staged, h, m)
      /\ touched'.graphs = touched.graphs /\ touched'.replaced = touched.replaced
      /\ touched'.nodes = touched.nodes \cup {<<g, n>>}
      /\ touched'.channels = touched.channels /\ touched'.shown = touched.shown
  BY EditsIs DEF EditsWell, Inv
<1>2. /\ Exists(staged, g)
      /\ staged.nodes[n] # None => staged.nodes[n].graph = g
      /\ v # None => v.graph = g
  BY DEF EditsWell, Edits
<1>3. \A d \in Documents : \A m \in Nodes : d.nodes[m] # None => d.nodes[m] \in NodeValues
  BY DocumentIs
<1>4. /\ staged \in Documents /\ staged' \in Documents /\ document \in Documents
      /\ Placed(document) /\ ValidPresentation(document)
  BY <1>1, ValidPlaces DEF Inv, Typed, ValidateStructure
<1>5. /\ \A h : Exists(staged', h) <=> Exists(staged, h)
      /\ \A w : LifetimeFits(staged', w) <=> LifetimeFits(staged, w)
      /\ \A w : InSync(staged', w) <=> InSync(staged, w)
  BY <1>1 DEF Exists, LifetimeFits, InSync
<1>6. /\ <<g, n>> \in touched'.nodes
      /\ \A h, m : Noted(h, m) => <<h, m>> \in touched'.nodes
  BY <1>1 DEF Noted
<1>11. ValidateStructure(document)'
  BY <1>1 DEF Inv
<1>12. Placed(staged)' /\ Kept'
  BY EditsKeepBased DEF EditsWell, Inv, Based
<1>13. Referring(staged)'
  <2>1. v # None /\ v.target # None => Exists(staged, v.target)
    BY DEF EditsWell
  <2> QED
    BY <1>1, <1>5, <2>1 DEF Inv, Referring
<1>14. Unforked(staged)'
  BY <1>1 DEF Inv, Unforked, ChannelsOf
<1>15. ValidRoot(staged)'
  BY <1>1 DEF Inv, ValidRoot, Exists
<1>16. ValidDependencies(staged)'
  BY EditsDependWell DEF Inv
<1>18. Journal'
  BY <1>1, <1>5 DEF Inv, Journal
<1>19. Seen'
  BY <1>1, <1>5 DEF Inv, Seen, Noted
<1>20. NoMoves'
  BY <1>1, <1>2 DEF Inv, NoMoves, EditsWell
<1>21. ShownKept'
  <2>1. ASSUME NEW m \in staged'.shown, staged'.nodes[m] = None, m \in document.shown,
               Exists(staged', document.nodes[m].graph)
        PROVE  <<document.nodes[m].graph, m>> \in touched'.nodes
    <3>1. m \in Nodes /\ document.nodes[m] # None
      BY <1>4, <2>1, DocumentIs DEF ValidPresentation
    <3>2. CASE staged.nodes[m] = None
      BY <1>1, <1>5, <1>6, <2>1, <3>2 DEF Inv, ShownKept
    <3>3. CASE staged.nodes[m] # None
      <4>1. m = n
        BY <1>1, <2>1, <3>1, <3>3
      <4>2. document.nodes[m].graph = g
        BY <1>2, <3>1, <3>3, <4>1 DEF Inv, NoMoves
      <4> QED
        BY <1>6, <4>1, <4>2
    <3> QED
      BY <3>2, <3>3
  <2>2. \A m \in Nodes : ~(m \in staged'.shown <=> m \in document'.shown) => m \in touched'.shown
    BY <1>1 DEF Inv, ShownKept
  <2> QED
    BY <1>1, <2>1, <2>2 DEF ShownKept, Noted
<1>22. Fits'
  BY <1>1, <1>2, <1>5 DEF Inv, Fits, Noted
<1>23. Excl'
  <2> SUFFICES ASSUME NEW t \in Graphs, NEW a \in Nodes, NEW m \in Nodes,
                      Exists(document, t), a # m,
                      Owns(staged'.nodes[a], t), Owns(staged'.nodes[m], t),
                      Owns(document.nodes[m], t),
                      ~Exists(document, staged'.nodes[a].graph)
               PROVE  \/ <<staged'.nodes[a].graph, a>> \in touched'.nodes
                      \/ /\ staged'.nodes[a].graph \in touched'.replaced
                         /\ ~Owns(replaced'[staged'.nodes[a].graph].nodes[a], t)
    BY <1>1 DEF Excl, Noted
  <2>1. CASE a = n
    BY <1>1, <1>2, <1>6, <2>1 DEF Owns
  <2>2. CASE a # n
    <3>1. staged'.nodes[a] = staged.nodes[a]
      BY <1>1, <2>2
    <3>2. Owns(staged.nodes[m], t)
      <4>1. CASE m = n
        <5>1. v # None /\ v.ownership = "owned" /\ v.target = t
          BY <1>1, <4>1 DEF Owns
        <5> QED
          BY <3>1, <4>1, <5>1 DEF EditsWell
      <4> QED
        BY <1>1, <4>1
    <3>3. \/ Noted(staged.nodes[a].graph, a)
          \/ /\ staged.nodes[a].graph \in touched.replaced
             /\ ~Owns(replaced[staged.nodes[a].graph].nodes[a], t)
      BY <3>1, <3>2 DEF Inv, Excl
    <3> QED
      BY <1>1, <1>6, <3>1, <3>3
  <2> QED
    BY <2>1, <2>2
<1>24. Synced'
  <2>1. \A m \in Nodes : staged'.nodes[m] # None =>
            InSync(staged', staged'.nodes[m]) \/ <<staged'.nodes[m].graph, m>> \in touched'.nodes
    BY <1>1, <1>2, <1>5, <1>6 DEF Inv, Synced
  <2>2. ASSUME NEW h \in Graphs, Exists(staged', h), ~Exists(document, h), h \notin touched'.replaced
        PROVE  \/ Bounded(staged', h)
               \/ \E m \in NodesOf(staged', h) :
                     staged'.nodes[m].role \in BoundaryRoles /\ <<h, m>> \in touched'.nodes
    <3>1. \/ Bounded(staged, h)
          \/ \E m \in NodesOf(staged, h) : staged.nodes[m].role \in BoundaryRoles /\ Noted(h, m)
      BY <1>1, <1>5, <2>2 DEF Inv, Synced
    <3>2. CASE v # None /\ v.role \in BoundaryRoles /\ h = g
      <4>1. n \in NodesOf(staged', g)
        BY <1>1, <3>2 DEF NodesOf
      <4> QED
        BY <1>1, <1>6, <3>2, <4>1
    <3>3. CASE ~(v # None /\ v.role \in BoundaryRoles /\ h = g)
      <4>1. \A m \in Nodes, r \in BoundaryRoles :
                m \in NodesOf(staged', h) /\ staged'.nodes[m].role = r
                    <=> m \in NodesOf(staged, h) /\ staged.nodes[m].role = r
        <5> SUFFICES ASSUME NEW m \in Nodes, NEW r \in BoundaryRoles
                     PROVE  m \in NodesOf(staged', h) /\ staged'.nodes[m].role = r
                                <=> m \in NodesOf(staged, h) /\ staged.nodes[m].role = r
          OBVIOUS
        <5>1. CASE <<h, m>> # <<g, n>>
          <6>1. FindNode(staged', h, m) = FindNode(staged, h, m)
            BY <1>1, <5>1
          <6>2. FindNode(staged', h, m) # None => FindNode(staged', h, m) = staged'.nodes[m]
            BY DEF FindNode
          <6>3. FindNode(staged, h, m) # None => FindNode(staged, h, m) = staged.nodes[m]
            BY DEF FindNode
          <6> QED
            BY <6>1, <6>2, <6>3 DEF NodesOf
        <5>2. CASE h = g /\ m = n
          <6>1. ~(m \in NodesOf(staged', h) /\ staged'.nodes[m].role = r)
            BY <1>1, <3>3, <5>2 DEF NodesOf
          <6>2. staged.nodes[n] # None /\ staged.nodes[n].role \in BoundaryRoles
                    => v # None /\ v.role = staged.nodes[n].role
            BY <2>2, <5>2 DEF EditsWell
          <6>3. ~(m \in NodesOf(staged, h) /\ staged.nodes[m].role = r)
            BY <3>3, <5>2, <6>2 DEF NodesOf, FindNode
          <6> QED
            BY <6>1, <6>3
        <5> QED
          BY <5>1, <5>2
      <4>2. CASE Bounded(staged, h)
        <5>1. /\ {m \in NodesOf(staged', h) : staged'.nodes[m].role = "boundary_input"}
                    = {m \in NodesOf(staged, h) : staged.nodes[m].role = "boundary_input"}
              /\ {m \in NodesOf(staged', h) : staged'.nodes[m].role = "boundary_output"}
                    = {m \in NodesOf(staged, h) : staged.nodes[m].role = "boundary_output"}
          BY <4>1 DEF BoundaryRoles, NodesOf
        <5> QED
          BY <1>1, <4>2, <5>1 DEF Bounded
      <4>3. ASSUME NEW m \in NodesOf(staged, h), staged.nodes[m].role \in BoundaryRoles, Noted(h, m)
            PROVE  m \in NodesOf(staged', h) /\ staged'.nodes[m].role \in BoundaryRoles
                      /\ <<h, m>> \in touched'.nodes
        BY <1>6, <4>1, <4>3 DEF NodesOf
      <4> QED
        BY <3>1, <4>2, <4>3
    <3> QED
      BY <3>2, <3>3
  <2> QED
    BY <1>1, <2>1, <2>2 DEF Synced, Noted
<1> QED
  BY <1>1, <1>11, <1>12, <1>13, <1>14, <1>15, <1>16, <1>18, <1>19, <1>20, <1>21,
     <1>22, <1>23, <1>24 DEF Inv

LEMMA OwnersAre ==
    ASSUME NEW d \in Documents, NEW t \in Graphs
    PROVE  /\ Owners(d, t) \subseteq Nodes
           /\ \A n \in Nodes : n \in Owners(d, t) <=> Owns(d.nodes[n], t)
BY DEF Owners, Callers, Owns

LEMMA AddNodeWell ==
    ASSUME Inv, Liberties = {}, NEW g \in Graphs, NEW v \in NodesFor[g], NEW n \in Nodes,
           AddNode(n, v)
    PROVE  v \in NodeValues /\ EditsWell(g, n, v)
<1>1. v \in NodeValues /\ v.graph = g /\ Edits(g, n, v)
  BY AddNodeEdits DEF Inv
<1>2. v.target # None =>
          /\ Exists(staged, v.target)
          /\ v.target \in DependsOn(staged, g) \/ g \notin Reached(staged, v.target)
          /\ v.ownership = "owned" => Owners(staged, v.target) = {}
  BY <1>1 DEF AddNode, MayDepend
<1>3. document.nodes[n] # None => document.nodes[n].graph = g
  BY <1>1 DEF AddNode, Profile
<1>4. ASSUME v.ownership = "owned" PROVE \A m \in Nodes : ~Owns(staged.nodes[m], v.target)
  <2>1. v.target \in Graphs /\ v.target # None
    BY <1>1, <1>4, NodeIs, NoneAssumption
  <2>2. staged \in Documents
    BY DEF Inv, Typed
  <2> QED
    BY <1>2, <1>4, <2>1, <2>2, OwnersAre
<1>5. staged.nodes[n] = None
  BY DEF AddNode
<1> QED
  BY <1>1, <1>2, <1>3, <1>4, <1>5 DEF EditsWell

LEMMA RemoveNodeWell ==
    ASSUME Inv, Liberties = {}, NEW n \in Nodes, RemoveNode(n)
    PROVE  staged.nodes[n].graph \in Graphs /\ EditsWell(staged.nodes[n].graph, n, None)
<1> DEFINE g == staged.nodes[n].graph
<1>1. g \in Graphs /\ Edits(g, n, None)
  BY RemoveNodeEdits DEF Inv
<1>2. document \in Documents /\ Placed(document)
  BY ValidPlaces DEF Inv, Typed, ValidateStructure
<1>3. staged.nodes[n].role \in BoundaryRoles => Exists(document, g)
  <2>1. staged.nodes[n].role \in BoundaryRoles => FindNode(document, g, n) # None
    BY DEF RemoveNode, Profile
  <2> QED
    BY <1>2, <2>1 DEF FindNode, Placed
<1> QED
  BY <1>1, <1>3 DEF EditsWell

LEMMA SetPinsWell ==
    ASSUME Inv, NEW n \in Nodes, NEW pins \in {0, 1}, SetPins(n, pins)
    PROVE  /\ staged.nodes[n].graph \in Graphs
           /\ [staged.nodes[n] EXCEPT !.pins = pins] \in NodeValues
           /\ EditsWell(staged.nodes[n].graph, n, [staged.nodes[n] EXCEPT !.pins = pins])
<1> DEFINE v == staged.nodes[n]
           w == [v EXCEPT !.pins = pins]
           g == v.graph
<1>1. g \in Graphs /\ w \in NodeValues /\ Edits(g, n, w)
  BY SetPinsEdits DEF Inv
<1>2. v # None /\ v \in NodeValues /\ staged \in Documents
  BY DocumentIs DEF SetPins, Inv, Typed
<1>3. w.target = v.target /\ w.ownership = v.ownership /\ w.role = v.role
  BY <1>2 DEF NodeValues
<1>4. v.target # None => Exists(staged, v.target) /\ v.target \in DependsOn(staged, g)
  <2>1. v.target # None => v.target \in Graphs
    BY <1>2, NodeIs
  <2> QED
    BY <1>1, <1>2, <2>1, EdgeIs DEF Inv, Referring
<1>5. document.nodes[n] # None => document.nodes[n].graph = g
  BY <1>2 DEF Inv, NoMoves
<1>6. w.ownership = "owned" => Owns(v, w.target)
  BY <1>2, <1>3 DEF Owns
<1> HIDE DEF w, g
<1>7. EditsWell(g, n, w)
  BY <1>1, <1>2, <1>3, <1>4, <1>5, <1>6, NodeIs DEF EditsWell
<1> QED
  BY <1>1, <1>7 DEF w, g

LEMMA SetNodeSubgraphWell ==
    ASSUME Inv, Liberties = {}, NEW n \in Nodes, NEW target \in Graphs \cup {None},
           NEW ownership \in {"owned", "referenced", None},
           target # None <=> ownership # None,
           SetNodeSubgraph(n, target, ownership)
    PROVE  /\ staged.nodes[n].graph \in Graphs
           /\ Rebound(staged.nodes[n], target, ownership) \in NodeValues
           /\ EditsWell(staged.nodes[n].graph, n, Rebound(staged.nodes[n], target, ownership))
<1> DEFINE v == staged.nodes[n]
           w == Rebound(v, target, ownership)
           g == v.graph
<1>1. g \in Graphs /\ w \in NodeValues /\ Edits(g, n, w)
  BY SetNodeSubgraphEdits DEF Inv
<1>2. v # None /\ v \in NodeValues /\ staged \in Documents
  BY DocumentIs DEF SetNodeSubgraph, Inv, Typed
<1>3. w.target = target /\ w.ownership = ownership /\ w.graph = g
  BY <1>2 DEF NodeValues, Rebound
<1>4. ReferenceFits(n, w) /\ v.role \notin BoundaryRoles
  BY DEF SetNodeSubgraph, Profile
<1> HIDE DEF w
<1>5. w.target # None =>
          /\ Exists(staged, w.target)
          /\ w.target \in DependsOn(staged, g) \/ g \notin Reached(staged, w.target)
          /\ w.ownership = "owned" => Owners(staged, w.target) = {}
  BY <1>3, <1>4 DEF ReferenceFits, MayDepend
<1>6. document.nodes[n] # None => document.nodes[n].graph = g
  BY <1>2 DEF Inv, NoMoves
<1>7. ASSUME w.ownership = "owned" PROVE \A m \in Nodes : ~Owns(staged.nodes[m], w.target)
  <2>1. w.target \in Graphs /\ w.target # None
    BY <1>1, <1>7, NodeIs, NoneAssumption
  <2> QED
    BY <1>2, <1>5, <1>7, <2>1, OwnersAre
<1> HIDE DEF g
<1>8. EditsWell(g, n, w)
  BY <1>1, <1>4, <1>5, <1>6, <1>7 DEF EditsWell
<1> QED
  BY <1>1, <1>8 DEF w, g

-----------------------------------------------------------------------------
(* Graphs are replaced                                                     *)

\* A replacement that keeps lifetimes and presentations, calls graphs that are
\* there, and gives back nothing that its node has owned before.
ReplacesWell(H) ==
    /\ Replaces(H)
    /\ ValidDependencies(staged')
    /\ \A g \in Graphs : Exists(staged, g) =>
           staged'.graphs[g].lifetime = staged.graphs[g].lifetime
    /\ \A n \in Nodes : staged'.nodes[n] # None /\ staged'.nodes[n].target # None
           => Exists(staged, staged'.nodes[n].target)
    /\ \A n \in Nodes : staged'.nodes[n] # None /\ document.nodes[n] # None
           => staged'.nodes[n].graph = document.nodes[n].graph
    /\ \A n \in staged.shown : staged.nodes[n] # None => staged'.nodes[n] # None
    /\ \A n \in Nodes : staged'.nodes[n] # None =>
           InSync(staged', staged'.nodes[n]) \/ Noted(staged'.nodes[n].graph, n)
    /\ \A n \in Nodes, t \in Graphs :
           Owns(staged'.nodes[n], t) /\ ~Owns(staged.nodes[n], t) =>
               /\ ~Owns(document.nodes[n], t)
               /\ replaced[staged'.nodes[n].graph] # None
                      => ~Owns(replaced[staged'.nodes[n].graph].nodes[n], t)

LEMMA ReplacesKeep ==
    ASSUME Inv, NEW H \in SUBSET Graphs, ReplacesWell(H)
    PROVE  Inv'
<1>1. /\ Typed'
      /\ touched'.graphs = touched.graphs \cup H
      /\ touched'.replaced = touched.replaced \cup H
      /\ touched'.nodes = touched.nodes
      /\ touched'.channels = touched.channels /\ touched'.shown = touched.shown
      /\ \A g \in Graphs : replaced[g] # None \/ g \notin H => replaced'[g] = replaced[g]
      /\ \A g \in H : replaced'[g] # None
      /\ \A g \in H : replaced[g] = None =>
             /\ replaced'[g].graph = staged.graphs[g]
             /\ \A n \in Nodes : replaced'[g].nodes[n] = FindNode(staged, g, n)
      /\ \A g \in Graphs \ H, n \in Nodes : FindNode(staged', g, n) = FindNode(staged, g, n)
  BY ReplacesIs DEF ReplacesWell, Inv
<1>2. /\ \A g \in H : Exists(staged, g)
      /\ staged'.root = staged.root
      /\ staged'.channels = staged.channels /\ staged'.shown = staged.shown
      /\ \A g \in Graphs : Exists(staged', g) <=> Exists(staged, g)
      /\ \A g \in Graphs \ H : staged'.graphs[g] = staged.graphs[g]
      /\ \A n \in Nodes : staged'.nodes[n] # staged.nodes[n] /\ staged'.nodes[n] # None
             => staged'.nodes[n].graph \in H
      /\ document' = document
  BY DEF ReplacesWell, Replaces
<1>3. /\ staged \in Documents /\ staged' \in Documents /\ document \in Documents
      /\ \A n \in Nodes : staged.nodes[n] # None => staged.nodes[n].graph \in Graphs
      /\ \A n \in Nodes : staged'.nodes[n] # None => staged'.nodes[n].graph \in Graphs
      /\ \A n \in Nodes : staged.nodes[n] # None /\ staged.nodes[n].target # None
             => staged.nodes[n].target \in Graphs
  BY <1>1, DocumentIs, NodeIs DEF Inv, Typed
<1>4. \A w : w.target \in Graphs /\ Exists(staged, w.target) =>
          (LifetimeFits(staged', w) <=> LifetimeFits(staged, w))
  BY DEF ReplacesWell, LifetimeFits
<1>5. \A g \in H : replaced[g] = None => g \notin touched.replaced
  BY DEF Inv, Kept
<1>6. \A h, m : Noted(h, m)' <=> Noted(h, m)
  BY <1>1 DEF Noted
<1>11. ValidateStructure(document)'
  BY <1>2 DEF Inv
<1>12. Placed(staged)' /\ Kept'
  BY ReplacesKeepBased DEF ReplacesWell, Inv, Based
<1>13. Referring(staged)'
  <2>1. \A n \in Nodes : staged'.nodes[n] # None /\ staged'.nodes[n].target # None
            => Exists(staged', staged'.nodes[n].target)
    BY <1>1, <1>2, DocumentIs, NodeIs DEF Typed, ReplacesWell
  <2>2. \A c \in Channels : staged'.channels[c] # None =>
            /\ Exists(staged', staged'.channels[c].source.graph)
            /\ Exists(staged', staged'.channels[c].destination.graph)
    BY <1>2, <1>3, DocumentIs, ChannelIs DEF Inv, Referring
  <2> QED
    BY <2>1, <2>2 DEF Referring
<1>14. Unforked(staged)'
  BY <1>2 DEF Inv, Unforked, ChannelsOf
<1>15. ValidRoot(staged)'
  BY <1>2, <1>3, DocumentIs DEF Inv, ValidRoot, ReplacesWell
<1>16. ValidDependencies(staged)'
  BY DEF ReplacesWell
<1>18. Journal'
  <2>1. touched'.replaced \subseteq touched'.graphs
    BY <1>1 DEF Inv, Journal
  <2>2. \A c \in Channels : document'.channels[c] # staged'.channels[c] => c \in touched'.channels
    BY <1>1, <1>2 DEF Inv, Journal
  <2>3. \A g \in Graphs : ~(Exists(document', g) <=> Exists(staged', g)) => g \in touched'.graphs
    BY <1>1, <1>2 DEF Inv, Journal
  <2>4. \A g \in Graphs : Exists(document', g) /\ Exists(staged', g) =>
            /\ staged'.graphs[g].lifetime = document'.graphs[g].lifetime
            /\ g \notin touched'.replaced => staged'.graphs[g] = document'.graphs[g]
    BY <1>1, <1>2 DEF Inv, Journal, ReplacesWell
  <2>5. \A g \in Graphs : Exists(document', g) /\ replaced'[g] # None =>
            replaced'[g].graph = document'.graphs[g]
    BY <1>1, <1>2, <1>5 DEF Inv, Journal
  <2> QED
    BY <2>1, <2>2, <2>3, <2>4, <2>5 DEF Journal
<1>19. Seen'
  <2> SUFFICES ASSUME NEW g \in Graphs, NEW n \in Nodes, Exists(document, g)
               PROVE  /\ replaced'[g] # None /\ replaced'[g].nodes[n] # FindNode(document, g, n)
                             => Noted(g, n)
                      /\ Exists(staged', g) /\ FindNode(staged', g, n) # FindNode(document, g, n)
                             => Noted(g, n) \/ g \in touched'.replaced
    BY <1>2, <1>6 DEF Seen
  <2>1. CASE g \in H
    BY <1>1, <1>2, <1>5, <2>1 DEF Inv, Seen
  <2>2. CASE g \notin H
    BY <1>1, <1>2, <2>2 DEF Inv, Seen
  <2> QED
    BY <2>1, <2>2
<1>20. NoMoves'
  BY <1>2 DEF NoMoves, ReplacesWell
<1>21. ShownKept'
  <2>1. \A n \in Nodes : ~(n \in staged'.shown <=> n \in document'.shown) => n \in touched'.shown
    BY <1>1, <1>2 DEF Inv, ShownKept
  <2>2. ASSUME NEW n \in staged'.shown, staged'.nodes[n] = None, n \in document.shown
        PROVE  \/ ~Exists(staged', document.nodes[n].graph)
               \/ Noted(document.nodes[n].graph, n)
    <3>1. document.nodes[n] # None /\ n \in Nodes
      BY <1>3, <2>2, DocumentIs DEF Inv, ValidateStructure, ValidPresentation
    <3>2. document.nodes[n].graph \in Graphs
      BY <1>3, <3>1, DocumentIs, NodeIs
    <3>3. staged.nodes[n] = None
      BY <1>2, <2>2 DEF ReplacesWell
    <3> QED
      BY <1>2, <2>2, <3>2, <3>3 DEF Inv, ShownKept
  <2> QED
    BY <1>2, <1>6, <2>1, <2>2 DEF ShownKept
<1>22. Fits'
  <2>1. ASSUME NEW n \in Nodes, staged'.nodes[n] # None, staged'.nodes[n].target # None
        PROVE  \/ LifetimeFits(staged', staged'.nodes[n])
               \/ Noted(staged'.nodes[n].graph, n)
               \/ staged'.nodes[n].graph \in touched'.replaced
    <3>1. CASE staged'.nodes[n] = staged.nodes[n]
      <4>1. staged.nodes[n].target \in Graphs /\ Exists(staged, staged.nodes[n].target)
        BY <1>3, <2>1, <3>1 DEF Inv, Referring
      <4> QED
        BY <1>1, <1>4, <2>1, <3>1, <4>1 DEF Inv, Fits
    <3>2. CASE staged'.nodes[n] # staged.nodes[n]
      BY <1>1, <1>2, <2>1, <3>2
    <3> QED
      BY <3>1, <3>2
  <2>2. ASSUME NEW g \in Graphs, NEW n \in Nodes,
               replaced'[g] # None, replaced'[g].nodes[n] # None,
               replaced'[g].nodes[n].target # None
        PROVE  /\ \/ Exists(staged', replaced'[g].nodes[n].target)
                  \/ replaced'[g].nodes[n].target \in touched'.graphs
               /\ Exists(staged', replaced'[g].nodes[n].target) =>
                      LifetimeFits(staged', replaced'[g].nodes[n]) \/ Noted(g, n)
    <3> DEFINE w == replaced'[g].nodes[n]
    <3>1. w.target \in Graphs
      <4>1. replaced'[g] \in Baselines
        BY <1>1, <2>2 DEF Typed
      <4>2. w \in NodeValues
        BY <2>2, <4>1 DEF Baselines
      <4> QED
        BY <2>2, <4>2, NodeIs
    <3>2. CASE replaced'[g] = replaced[g]
      <4>1. /\ Exists(staged, w.target) \/ w.target \in touched.graphs
            /\ Exists(staged, w.target) => LifetimeFits(staged, w) \/ Noted(g, n)
        BY <2>2, <3>2 DEF Inv, Fits
      <4> QED
        BY <1>1, <1>2, <1>4, <3>1, <4>1
    <3>3. CASE replaced'[g] # replaced[g]
      <4>1. replaced[g] = None /\ g \in H /\ w = FindNode(staged, g, n)
        BY <1>1, <3>3
      <4>2. w = staged.nodes[n] /\ w.graph = g
        BY <2>2, <4>1 DEF FindNode
      <4>3. Exists(staged, w.target)
        BY <2>2, <4>2 DEF Inv, Referring
      <4>4. LifetimeFits(staged, w) \/ Noted(g, n)
        BY <1>5, <2>2, <4>1, <4>2 DEF Inv, Fits
      <4> QED
        BY <1>2, <1>4, <3>1, <4>3, <4>4
    <3> QED
      BY <3>2, <3>3
  <2> QED
    BY <1>6, <2>1, <2>2 DEF Fits, Noted
<1>23. Excl'
  <2> SUFFICES ASSUME NEW t \in Graphs, NEW n \in Nodes, NEW m \in Nodes,
                      Exists(document, t), n # m,
                      Owns(staged'.nodes[n], t), Owns(staged'.nodes[m], t),
                      Owns(document.nodes[m], t),
                      ~Exists(document, staged'.nodes[n].graph)
               PROVE  \/ Noted(staged'.nodes[n].graph, n)
                      \/ /\ staged'.nodes[n].graph \in touched'.replaced
                         /\ ~Owns(replaced'[staged'.nodes[n].graph].nodes[n], t)
    BY <1>1, <1>2 DEF Excl, Noted
  <2> DEFINE h == staged'.nodes[n].graph
  <2>1. Owns(staged.nodes[m], t)
    BY DEF ReplacesWell
  <2>2. h \in Graphs /\ staged'.nodes[n] # None
    BY <1>3 DEF Owns
  <2>3. CASE Owns(staged.nodes[n], t)
    <3>1. staged.nodes[n].graph = h
      <4>1. CASE staged'.nodes[n] = staged.nodes[n]
        BY <4>1
      <4>2. CASE staged'.nodes[n] # staged.nodes[n]
        BY <2>2, <2>3, <4>2 DEF ReplacesWell, Replaces, Owns
      <4> QED
        BY <4>1, <4>2
    <3>2. \/ Noted(h, n)
          \/ h \in touched.replaced /\ ~Owns(replaced[h].nodes[n], t)
      BY <2>1, <2>3, <3>1 DEF Inv, Excl
    <3>3. h \in touched.replaced => replaced'[h] = replaced[h] /\ h \in touched'.replaced
      BY <1>1, <1>5, <2>2
    <3> QED
      BY <3>2, <3>3
  <2>4. CASE ~Owns(staged.nodes[n], t)
    <3>1. h \in H
      BY <1>2, <2>2, <2>4
    <3>2. CASE replaced[h] # None
      <4>1. ~Owns(replaced[h].nodes[n], t)
        BY <2>4, <3>2 DEF ReplacesWell
      <4> QED
        BY <1>1, <2>2, <3>1, <3>2, <4>1
    <3>3. CASE replaced[h] = None
      <4>1. replaced'[h].nodes[n] = FindNode(staged, h, n)
        BY <1>1, <3>1, <3>3
      <4>2. ~Owns(replaced'[h].nodes[n], t)
        BY <2>4, <4>1 DEF FindNode, Owns
      <4> QED
        BY <1>1, <3>1, <4>2
    <3> QED
      BY <3>2, <3>3
  <2> QED
    BY <2>3, <2>4
<1>24. Synced'
  <2>1. \A n \in Nodes : staged'.nodes[n] # None =>
            InSync(staged', staged'.nodes[n]) \/ Noted(staged'.nodes[n].graph, n)
    BY DEF ReplacesWell
  <2>2. ASSUME NEW g \in Graphs, Exists(staged', g), ~Exists(document, g), g \notin touched'.replaced
        PROVE  \/ Bounded(staged', g)
               \/ \E n \in NodesOf(staged', g) :
                     staged'.nodes[n].role \in BoundaryRoles /\ Noted(g, n)
    <3>1. g \notin H /\ g \notin touched.replaced /\ Exists(staged, g)
      BY <1>1, <1>2, <2>2
    <3>2. /\ staged'.graphs[g] = staged.graphs[g]
          /\ \A n \in Nodes : FindNode(staged', g, n) = FindNode(staged, g, n)
      BY <1>1, <1>2, <3>1
    <3>3. /\ NodesOf(staged', g) = NodesOf(staged, g)
          /\ \A n \in NodesOf(staged, g) : staged'.nodes[n] = staged.nodes[n]
          /\ Bounded(staged', g) <=> Bounded(staged, g)
      BY <3>2, SameGraph
    <3>4. \/ Bounded(staged, g)
          \/ \E n \in NodesOf(staged, g) :
                staged.nodes[n].role \in BoundaryRoles /\ Noted(g, n)
      BY <2>2, <3>1 DEF Inv, Synced
    <3> QED
      BY <3>3, <3>4
  <2> QED
    BY <1>2, <1>6, <2>1, <2>2 DEF Synced, Noted
<1> QED
  BY <1>1, <1>11, <1>12, <1>13, <1>14, <1>15, <1>16, <1>18, <1>19, <1>20, <1>21,
     <1>22, <1>23, <1>24 DEF Inv

LEMMA ReplaceGraphDependsWell ==
    ASSUME Typed, ValidDependencies(staged), NEW g \in Graphs, NEW value \in GraphValues,
           NEW n \in Nodes, NEW v \in NodesFor[g] \cup {None}, ReplaceGraph(g, value, n, v)
    PROVE  ValidDependencies(staged')
<1> DEFINE without == [staged EXCEPT !.nodes[n] = None]
<1>1. /\ staged' \in Documents /\ staged'.channels = staged.channels
      /\ staged'.nodes[n] = v
      /\ \A m \in Nodes \ {n} : staged'.nodes[m] = staged.nodes[m]
      /\ v # None => v \in NodeValues /\ v.graph = g
      /\ staged.nodes[n] # None => staged.nodes[n].graph = g
  <2>1. /\ Replaces({g})
        /\ staged'.graphs[g] = value /\ staged'.nodes[n] = v
        /\ \A m \in Nodes \ {n} : staged'.nodes[m] = staged.nodes[m]
        /\ v # None => v \in NodeValues /\ v.graph = g
        /\ staged.nodes[n] # None => staged.nodes[n].graph = g
    BY ReplaceGraphReplaces
  <2> QED
    BY <2>1 DEF Replaces
<1>2. staged \in Documents
  BY DEF Typed
<1>3. /\ without \in Documents /\ without.channels = staged.channels
      /\ without.nodes[n] = None
      /\ \A m \in Nodes \ {n} : without.nodes[m] = staged.nodes[m]
  BY <1>2 DEF Documents
<1>4. v # None /\ v.target # None =>
          \/ v.target \in DependsOn(without, g)
          \/ staged.nodes[n] # None /\ staged.nodes[n].target = v.target
          \/ g \notin Reached(staged', v.target)
  BY StageIs DEF ReplaceGraph
<1> HIDE DEF without
<1>5. ASSUME NEW k \in Graphs
      PROVE  /\ DependsOn(without, k) \subseteq DependsOn(staged, k)
             /\ DependsOn(without, k) \subseteq DependsOn(staged', k)
  <2> SUFFICES ASSUME NEW h \in DependsOn(without, k)
               PROVE  h \in DependsOn(staged, k) /\ h \in DependsOn(staged', k)
    OBVIOUS
  <2>1. h \in Graphs
    BY <1>3, EdgeIs
  <2>2. \/ \E m \in Nodes : /\ without.nodes[m] # None /\ without.nodes[m].graph = k
                            /\ without.nodes[m].target = h
        \/ \E c \in Channels : /\ without.channels[c] # None
                               /\ without.channels[c].source.graph = k
                               /\ without.channels[c].destination.graph = h
    BY <1>3, <2>1, EdgeIs
  <2>3. \/ \E m \in Nodes : /\ staged.nodes[m] # None /\ staged.nodes[m].graph = k
                            /\ staged.nodes[m].target = h
        \/ \E c \in Channels : /\ staged.channels[c] # None
                               /\ staged.channels[c].source.graph = k
                               /\ staged.channels[c].destination.graph = h
    BY <1>3, <2>2
  <2>4. \/ \E m \in Nodes : /\ staged'.nodes[m] # None /\ staged'.nodes[m].graph = k
                            /\ staged'.nodes[m].target = h
        \/ \E c \in Channels : /\ staged'.channels[c] # None
                               /\ staged'.channels[c].source.graph = k
                               /\ staged'.channels[c].destination.graph = h
    BY <1>1, <1>3, <2>2
  <2> QED
    BY <1>1, <1>2, <2>1, <2>3, <2>4, EdgeIs
<1>6. ASSUME NEW k \in Graphs, NEW h \in DependsOn(staged', k), h \notin DependsOn(without, k)
      PROVE  k = g /\ v # None /\ v.target = h
  <2>1. h \in Graphs
    BY <1>1, EdgeIs
  <2>2. \/ \E m \in Nodes : /\ staged'.nodes[m] # None /\ staged'.nodes[m].graph = k
                            /\ staged'.nodes[m].target = h
        \/ \E c \in Channels : /\ staged'.channels[c] # None
                               /\ staged'.channels[c].source.graph = k
                               /\ staged'.channels[c].destination.graph = h
    BY <1>1, <2>1, EdgeIs
  <2>3. /\ ~\E m \in Nodes : /\ without.nodes[m] # None /\ without.nodes[m].graph = k
                             /\ without.nodes[m].target = h
        /\ ~\E c \in Channels : /\ without.channels[c] # None
                                /\ without.channels[c].source.graph = k
                                /\ without.channels[c].destination.graph = h
    BY <1>3, <1>6, <2>1, EdgeIs
  <2> QED
    BY <1>1, <1>3, <2>2, <2>3
<1>7. ValidDependencies(without)
  BY <1>2, <1>3, <1>5, FewerDependencies
<1>8. CASE v # None /\ v.target # None /\ g \notin Reached(staged', v.target)
  <2>1. v.target \in Graphs
    BY <1>1, <1>8, NodeIs
  <2>2. g \notin Reached(without, v.target)
    BY <1>1, <1>3, <1>5, <1>8, <2>1, FewerReached
  <2>3. /\ \A k \in Graphs \ {g} : DependsOn(staged', k) \subseteq DependsOn(without, k)
        /\ DependsOn(staged', g) \subseteq DependsOn(without, g) \cup {v.target}
    BY <1>6
  <2> QED
    BY <1>1, <1>3, <1>7, <2>1, <2>2, <2>3, OneMoreDependency
<1>9. CASE ~(v # None /\ v.target # None /\ g \notin Reached(staged', v.target))
  <2>1. ASSUME NEW k \in Graphs, NEW h \in DependsOn(staged', k)
        PROVE  h \in DependsOn(staged, k)
    <3>1. CASE h \in DependsOn(without, k)
      BY <1>5, <3>1
    <3>2. CASE h \notin DependsOn(without, k)
      <4>1. k = g /\ v # None /\ v.target = h
        BY <1>6, <3>2
      <4>2. h \in Graphs
        BY <1>1, EdgeIs
      <4>3. staged.nodes[n] # None /\ staged.nodes[n].target = h /\ staged.nodes[n].graph = g
        BY <1>1, <1>4, <1>9, <3>2, <4>1, <4>2, NoneAssumption
      <4> QED
        BY <1>2, <4>1, <4>2, <4>3, EdgeIs
    <3> QED
      BY <3>1, <3>2
  <2> QED
    BY <1>1, <1>2, <2>1, FewerDependencies
<1> QED
  BY <1>8, <1>9

LEMMA ReplaceGraphWell ==
    ASSUME Inv, Liberties = {}, NEW g \in Graphs, NEW value \in GraphValues, NEW n \in Nodes,
           NEW v \in NodesFor[g] \cup {None}, ReplaceGraph(g, value, n, v)
    PROVE  ReplacesWell({g})
<1>1. /\ Replaces({g})
      /\ staged'.graphs[g] = value /\ staged'.nodes[n] = v
      /\ \A m \in Nodes \ {n} : staged'.nodes[m] = staged.nodes[m]
      /\ v # None => v \in NodeValues /\ v.graph = g
      /\ staged.nodes[n] # None => staged.nodes[n].graph = g
  BY ReplaceGraphReplaces DEF Inv
<1>2. /\ staged \in Documents /\ staged' \in Documents
      /\ Exists(staged, g)
      /\ \A h \in Graphs \ {g} : staged'.graphs[h] = staged.graphs[h]
  BY <1>1 DEF Inv, Typed, Replaces
<1>3. /\ v # None /\ document.nodes[n] # None => document.nodes[n].graph = g
      /\ value.interface = staged.graphs[g].interface
      /\ value.lifetime = staged.graphs[g].lifetime
      /\ v = None => n \notin staged.shown
      /\ v # None /\ v.target # None => Exists(staged, v.target)
  BY DEF ReplaceGraph, Profile
<1>4. v # None => InSync(staged', v)
  <2>1. v # None /\ (v.target = None \/ Exists(staged, v.target)) => InSync(staged', v)
    BY StageIs DEF ReplaceGraph, Profile, Inv
  <2> QED
    BY <1>3, <2>1
<1>5. v # None /\ v.ownership = "owned" /\ ~Owns(staged.nodes[n], v.target) =>
          /\ ~Owns(document.nodes[n], v.target)
          /\ replaced[g] # None => ~Owns(replaced[g].nodes[n], v.target)
  BY DEF ReplaceGraph, Profile, Owns
<1>6. staged'.graphs = staged.graphs
  <2>1. staged.graphs[g] \in GraphValues
    BY <1>2, DocumentIs DEF Exists
  <2>2. value = staged.graphs[g]
    BY <1>3, <2>1 DEF GraphValues
  <2> QED
    BY <1>1, <1>2, <2>2 DEF Documents
<1>7. ValidDependencies(staged')
  BY ReplaceGraphDependsWell DEF Inv
<1>8. \A m \in Nodes : staged'.nodes[m] # None /\ staged'.nodes[m].target # None
          => Exists(staged, staged'.nodes[m].target)
  BY <1>1, <1>3 DEF Inv, Referring
<1>9. \A m \in Nodes : staged'.nodes[m] # None /\ document.nodes[m] # None
          => staged'.nodes[m].graph = document.nodes[m].graph
  BY <1>1, <1>3 DEF Inv, NoMoves
<1>10. \A m \in staged.shown : staged.nodes[m] # None => staged'.nodes[m] # None
  BY <1>1, <1>2, <1>3, DocumentIs
<1>11. \A m \in Nodes : staged'.nodes[m] # None =>
           InSync(staged', staged'.nodes[m]) \/ Noted(staged'.nodes[m].graph, m)
  <2>1. \A w : InSync(staged', w) <=> InSync(staged, w)
    BY <1>6 DEF InSync
  <2> QED
    BY <1>1, <1>4, <2>1 DEF Inv, Synced
<1>12. \A m \in Nodes, t \in Graphs :
           Owns(staged'.nodes[m], t) /\ ~Owns(staged.nodes[m], t) =>
               /\ ~Owns(document.nodes[m], t)
               /\ replaced[staged'.nodes[m].graph] # None
                      => ~Owns(replaced[staged'.nodes[m].graph].nodes[m], t)
  BY <1>1, <1>5 DEF Owns
<1> QED
  BY <1>1, <1>3, <1>6, <1>7, <1>8, <1>9, <1>10, <1>11, <1>12 DEF ReplacesWell

\* All that projects the interface of the graph is in step with the new one.
LEMMA SetGraphInterfaceSyncs ==
    ASSUME Inv, NEW g \in Graphs, NEW interface \in {0, 1},
           NEW input \in Nodes, NEW output \in Nodes,
           SetGraphInterface(g, interface, input, output),
           NEW n \in Nodes, staged'.nodes[n] # None
    PROVE  InSync(staged', staged'.nodes[n]) \/ Noted(staged'.nodes[n].graph, n)
<1>1. /\ staged'.graphs[g] = [staged.graphs[g] EXCEPT !.interface = interface]
      /\ \A h \in Graphs \ {g} : staged'.graphs[h] = staged.graphs[h]
      /\ staged'.nodes[input] = Boundary(g, "boundary_input", interface)
      /\ staged'.nodes[output] = Boundary(g, "boundary_output", interface)
      /\ \A m \in Nodes \ {input, output} : staged'.nodes[m] =
             IF m \in Callers(staged, g) THEN [staged.nodes[m] EXCEPT !.pins = interface]
             ELSE staged.nodes[m]
      /\ Exists(staged, g)
  <2>1. Reprojected(g, interface, input, output)
    BY SetGraphInterfaceIs DEF Inv
  <2> QED
    BY <2>1 DEF Reprojected
<1>2. staged'.graphs[g].interface = interface
  <2>1. staged.graphs[g] \in GraphValues
    BY <1>1, DocumentIs DEF Inv, Typed, Exists
  <2> QED
    BY <1>1, <2>1 DEF GraphValues
<1>3. CASE n \in {input, output}
  <2>1. PICK r \in BoundaryRoles : staged'.nodes[n] = Boundary(g, r, interface)
    BY <1>1, <1>3 DEF BoundaryRoles
  <2> QED
    BY <1>2, <2>1 DEF InSync, Boundary, BoundaryRoles
<1>4. CASE n \in Callers(staged, g) /\ n \notin {input, output}
  <2> DEFINE v == staged.nodes[n]
             w == [v EXCEPT !.pins = interface]
  <2>1. v # None /\ v.target = g /\ v \in NodeValues
    BY <1>4, DocumentIs DEF Callers, Inv, Typed
  <2>2. v.role = "subgraph"
    BY <2>1, NodeIs, NoneAssumption
  <2>3. w.role = "subgraph" /\ w.target = g /\ w.pins = interface
    BY <2>1, <2>2 DEF NodeValues
  <2>4. staged'.nodes[n] = w
    BY <1>1, <1>4
  <2> QED
    BY <1>2, <2>3, <2>4 DEF InSync, BoundaryRoles
<1>5. CASE n \notin Callers(staged, g) /\ n \notin {input, output}
  <2> DEFINE v == staged.nodes[n]
  <2>1. staged'.nodes[n] = v /\ v # None
    BY <1>1, <1>5
  <2>2. v \in NodeValues
    BY <2>1, DocumentIs DEF Inv, Typed
  <2>3. v.role = "subgraph" => v.target \in Graphs \ {g}
    BY <1>5, <2>1, <2>2, NodeIs DEF Callers
  <2>4. v.role \in BoundaryRoles => v.graph \in Graphs \ {g}
    <3> SUFFICES ASSUME v.role \in BoundaryRoles, v.graph = g PROVE FALSE
      BY <2>2, NodeIs
    <3>1. /\ BoundaryNode(g, "boundary_input", input) /\ BoundaryNode(g, "boundary_output", output)
          /\ "boundary_input" \in BoundaryRoles /\ "boundary_output" \in BoundaryRoles
      BY DEF SetGraphInterface, BoundaryRoles
    <3>2. n \in NodesOf(staged, g)
      BY <2>1 DEF NodesOf, FindNode
    <3>3. CASE v.role = "boundary_input"
      BY <1>5, <3>1, <3>2, <3>3, BoundariesCallNothing DEF Inv
    <3>4. CASE v.role = "boundary_output"
      BY <1>5, <3>1, <3>2, <3>4, BoundariesCallNothing DEF Inv
    <3> QED
      BY <3>3, <3>4 DEF BoundaryRoles
  <2>5. InSync(staged, v) => InSync(staged', v)
    BY <1>1, <2>3, <2>4 DEF InSync
  <2> QED
    BY <2>1, <2>5 DEF Inv, Synced
<1> QED
  BY <1>3, <1>4, <1>5

LEMMA SetGraphInterfaceWell ==
    ASSUME Inv, NEW g \in Graphs, NEW interface \in {0, 1},
           NEW input \in Nodes, NEW output \in Nodes,
           SetGraphInterface(g, interface, input, output)
    PROVE  \E H \in SUBSET Graphs : ReplacesWell(H)
<1>1. PICK H \in SUBSET Graphs : Replaces(H)
  BY SetGraphInterfaceReplaces DEF Inv
<1>2. /\ staged \in Documents /\ staged' \in Documents
      /\ staged'.channels = staged.channels
  BY <1>1 DEF Inv, Typed, Replaces
<1>3. /\ Exists(staged, g)
      /\ staged'.graphs[g] = [staged.graphs[g] EXCEPT !.interface = interface]
      /\ \A h \in Graphs \ {g} : staged'.graphs[h] = staged.graphs[h]
  <2>1. Reprojected(g, interface, input, output)
    BY SetGraphInterfaceIs DEF Inv
  <2> QED
    BY <2>1 DEF Reprojected
<1>4. \A n \in Nodes : staged.nodes[n] # None =>
          /\ staged'.nodes[n] # None
          /\ staged'.nodes[n].graph = staged.nodes[n].graph
          /\ staged'.nodes[n].role = staged.nodes[n].role
          /\ staged'.nodes[n].target = staged.nodes[n].target
          /\ staged'.nodes[n].ownership = staged.nodes[n].ownership
  BY SetGraphInterfaceKeeps DEF Inv
<1>5. \A n \in Nodes : staged.nodes[n] = None /\ staged'.nodes[n] # None =>
          /\ document.nodes[n] = None
          /\ staged'.nodes[n].target = None /\ staged'.nodes[n].ownership = None
  BY SetGraphInterfaceKeeps DEF Inv
<1>6. ValidDependencies(staged')
  <2>1. ASSUME NEW k \in Graphs, NEW h \in DependsOn(staged', k) PROVE h \in DependsOn(staged, k)
    <3>1. h \in Graphs /\ h # None
      BY <1>2, EdgeIs, NoneAssumption
    <3>2. \/ \E m \in Nodes : /\ staged'.nodes[m] # None /\ staged'.nodes[m].graph = k
                              /\ staged'.nodes[m].target = h
          \/ \E c \in Channels : /\ staged'.channels[c] # None
                                 /\ staged'.channels[c].source.graph = k
                                 /\ staged'.channels[c].destination.graph = h
      BY <1>2, <3>1, EdgeIs
    <3>3. \/ \E m \in Nodes : /\ staged.nodes[m] # None /\ staged.nodes[m].graph = k
                              /\ staged.nodes[m].target = h
          \/ \E c \in Channels : /\ staged.channels[c] # None
                                 /\ staged.channels[c].source.graph = k
                                 /\ staged.channels[c].destination.graph = h
      BY <1>2, <1>4, <1>5, <3>1, <3>2
    <3> QED
      BY <1>2, <3>1, <3>3, EdgeIs
  <2> QED
    BY <1>2, <2>1, FewerDependencies DEF Inv
<1>7. \A h \in Graphs : Exists(staged, h) =>
          staged'.graphs[h].lifetime = staged.graphs[h].lifetime
  <2>1. staged.graphs[g] \in GraphValues
    BY <1>2, <1>3, DocumentIs DEF Exists
  <2>2. staged'.graphs[g].lifetime = staged.graphs[g].lifetime
    BY <1>3, <2>1 DEF GraphValues
  <2> QED
    BY <1>3, <2>2
<1>8. \A n \in Nodes : staged'.nodes[n] # None /\ staged'.nodes[n].target # None
          => Exists(staged, staged'.nodes[n].target)
  BY <1>4, <1>5 DEF Inv, Referring
<1>9. \A n \in Nodes : staged'.nodes[n] # None /\ document.nodes[n] # None
          => staged'.nodes[n].graph = document.nodes[n].graph
  BY <1>4, <1>5 DEF Inv, NoMoves
<1>10. \A n \in staged.shown : staged.nodes[n] # None => staged'.nodes[n] # None
  BY <1>2, <1>4, DocumentIs
<1>11. \A n \in Nodes : staged'.nodes[n] # None =>
           InSync(staged', staged'.nodes[n]) \/ Noted(staged'.nodes[n].graph, n)
  BY SetGraphInterfaceSyncs
<1>12. \A n \in Nodes, t \in Graphs : Owns(staged'.nodes[n], t) => Owns(staged.nodes[n], t)
  BY <1>4, <1>5, NoneAssumption DEF Owns
<1>13. ReplacesWell(H)
  BY <1>1, <1>6, <1>7, <1>8, <1>9, <1>10, <1>11, <1>12 DEF ReplacesWell
<1> QED
  BY <1>13

-----------------------------------------------------------------------------
(* A graph is added                                                        *)

\* Graph and nodes are new to the document and to the transaction.
AddsWell(g, value, members) ==
    /\ Adds(g, value, members)
    /\ ~Exists(document, g)
    /\ g \notin touched.graphs
    /\ \A n \in DOMAIN members : document.nodes[n] = None

LEMMA AddGraphWell ==
    ASSUME Inv, Liberties = {}, NEW g \in Graphs, NEW value \in GraphValues,
           NEW members \in Bodies[g], AddGraph(g, value, members)
    PROVE  AddsWell(g, value, members)
BY AddGraphAdds DEF Inv, AddsWell, AddGraph, Profile

LEMMA AddsDependWell ==
    ASSUME Inv, NEW g \in Graphs, NEW value \in GraphValues, NEW members \in Bodies[g],
           AddsWell(g, value, members)
    PROVE  ValidDependencies(staged')
<1> DEFINE there == {h \in Graphs : Exists(staged, h)}
<1>1. /\ staged \in Documents /\ staged' \in Documents
      /\ staged'.channels = staged.channels
      /\ ~Exists(staged, g)
      /\ \A n \in DOMAIN members : staged.nodes[n] = None /\ staged'.nodes[n] = members[n]
      /\ \A n \in Nodes \ DOMAIN members : staged'.nodes[n] = staged.nodes[n]
  BY DEF Inv, Typed, AddsWell, Adds
<1>2. \A n \in DOMAIN members :
          /\ n \in Nodes /\ members[n].graph = g
          /\ members[n].target # None => Exists(staged, members[n].target)
  BY BodyIs DEF AddsWell, Adds, GraphFits
<1>3. \A k \in Graphs : DependsOn(staged, k) \subseteq there
  <2> SUFFICES ASSUME NEW k \in Graphs, NEW h \in DependsOn(staged, k) PROVE Exists(staged, h)
    BY <1>1, EdgeIs
  <2>1. h \in Graphs /\ h # None
    BY <1>1, EdgeIs, NoneAssumption
  <2>2. \/ \E m \in Nodes : /\ staged.nodes[m] # None /\ staged.nodes[m].graph = k
                            /\ staged.nodes[m].target = h
        \/ \E c \in Channels : /\ staged.channels[c] # None
                               /\ staged.channels[c].source.graph = k
                               /\ staged.channels[c].destination.graph = h
    BY <1>1, <2>1, EdgeIs
  <2> QED
    BY <2>1, <2>2 DEF Inv, Referring
<1>4. ASSUME NEW k \in Graphs, NEW h \in DependsOn(staged', k)
      PROVE  h \in DependsOn(staged, k) \/ (k = g /\ h \in there)
  <2>1. h \in Graphs /\ h # None
    BY <1>1, EdgeIs, NoneAssumption
  <2>2. \/ \E m \in Nodes : /\ staged'.nodes[m] # None /\ staged'.nodes[m].graph = k
                            /\ staged'.nodes[m].target = h
        \/ \E c \in Channels : /\ staged'.channels[c] # None
                               /\ staged'.channels[c].source.graph = k
                               /\ staged'.channels[c].destination.graph = h
    BY <1>1, <2>1, EdgeIs
  <2>3. CASE \E m \in DOMAIN members : /\ staged'.nodes[m] # None /\ staged'.nodes[m].graph = k
                                       /\ staged'.nodes[m].target = h
    BY <1>1, <1>2, <2>1, <2>3
  <2>4. CASE ~\E m \in DOMAIN members : /\ staged'.nodes[m] # None /\ staged'.nodes[m].graph = k
                                        /\ staged'.nodes[m].target = h
    <3>1. \/ \E m \in Nodes : /\ staged.nodes[m] # None /\ staged.nodes[m].graph = k
                              /\ staged.nodes[m].target = h
          \/ \E c \in Channels : /\ staged.channels[c] # None
                                 /\ staged.channels[c].source.graph = k
                                 /\ staged.channels[c].destination.graph = h
      BY <1>1, <2>2, <2>4
    <3> QED
      BY <1>1, <2>1, <3>1, EdgeIs
  <2> QED
    BY <2>3, <2>4
<1>5. Closed(staged, there) /\ there \in SUBSET Graphs /\ g \notin there
  BY <1>1, <1>3 DEF Closed
<1> HIDE DEF there
<1> SUFFICES ASSUME NEW k \in Graphs, NEW h \in DependsOn(staged', k)
             PROVE  k \notin Reached(staged', h)
  BY DEF ValidDependencies
<1>6. h \in there /\ h \in Graphs
  BY <1>3, <1>4, <1>5
<1>7. /\ Reached(staged, h) \in SUBSET Graphs /\ h \in Reached(staged, h)
      /\ Closed(staged, Reached(staged, h)) /\ Reached(staged, h) \subseteq there
  BY <1>1, <1>5, <1>6, ReachedIs
<1>8. Closed(staged', Reached(staged, h))
  BY <1>4, <1>5, <1>7 DEF Closed
<1>9. Reached(staged', h) \subseteq Reached(staged, h)
  BY <1>1, <1>6, <1>7, <1>8, ReachedIs
<1>10. CASE h \in DependsOn(staged, k)
  BY <1>9, <1>10 DEF Inv, ValidDependencies
<1>11. CASE k = g
  BY <1>5, <1>7, <1>9, <1>11
<1> QED
  BY <1>4, <1>10, <1>11

LEMMA AddsKeep ==
    ASSUME Inv, NEW g \in Graphs, NEW value \in GraphValues, NEW members \in Bodies[g],
           AddsWell(g, value, members)
    PROVE  Inv'
<1>1. /\ Typed'
      /\ touched'.graphs = touched.graphs \cup {g}
      /\ touched'.nodes = touched.nodes /\ touched'.replaced = touched.replaced
      /\ touched'.channels = touched.channels /\ touched'.shown = touched.shown
      /\ \A h \in Graphs : Exists(staged', h) <=> h = g \/ Exists(staged, h)
      /\ \A h \in Graphs \ {g}, n \in Nodes : FindNode(staged', h, n) = FindNode(staged, h, n)
  BY AddsIs DEF AddsWell, Inv
<1>2. /\ ~Exists(staged, g) /\ ~Exists(document, g) /\ g \notin touched.graphs
      /\ staged'.root = staged.root
      /\ staged'.channels = staged.channels /\ staged'.shown = staged.shown
      /\ \A h \in Graphs \ {g} : staged'.graphs[h] = staged.graphs[h]
      /\ \A n \in DOMAIN members : /\ staged.nodes[n] = None /\ document.nodes[n] = None
                                   /\ staged'.nodes[n] = members[n]
      /\ \A n \in Nodes \ DOMAIN members : staged'.nodes[n] = staged.nodes[n]
      /\ UNCHANGED <<document, replaced>>
  BY DEF AddsWell, Adds
<1>3. \A n \in DOMAIN members :
          /\ n \in Nodes /\ members[n] # None /\ members[n].graph = g
          /\ members[n].target # None =>
                 Exists(staged, members[n].target) /\ LifetimeFits(staged, members[n])
          /\ InSync(staged', members[n])
  BY BodyIs, NodeIs DEF AddsWell, Adds, GraphFits
<1>4. \A n \in DOMAIN members, m \in Nodes, t \in Graphs :
          Owns(members[n], t) /\ Owns(staged'.nodes[m], t) => m = n
  <2> SUFFICES ASSUME NEW n \in DOMAIN members, NEW m \in Nodes, NEW t \in Graphs,
                      Owns(members[n], t), Owns(staged'.nodes[m], t)
               PROVE  m = n
    OBVIOUS
  <2>1. members[n].target # None /\ members[n].ownership = "owned" /\ members[n].target = t
    BY NoneAssumption DEF Owns
  <2>2. Owners(staged', t) = {n}
    BY <2>1 DEF AddsWell, Adds, GraphFits
  <2>3. staged' \in Documents
    BY <1>1 DEF Typed
  <2> QED
    BY <2>2, <2>3, OwnersAre
<1>5. /\ staged \in Documents /\ staged' \in Documents /\ document \in Documents
      /\ Placed(document) /\ ValidPresentation(document)
      /\ \A n \in Nodes : staged.nodes[n] # None => staged.nodes[n] \in NodeValues
      /\ \A n \in Nodes : document.nodes[n] # None => document.nodes[n] \in NodeValues
  BY <1>1, ValidPlaces, DocumentIs DEF Inv, Typed, ValidateStructure
<1>6. \A w : w.target \in Graphs \ {g} => (LifetimeFits(staged', w) <=> LifetimeFits(staged, w))
  BY <1>2 DEF LifetimeFits
<1>7. \A h, m : Noted(h, m)' <=> Noted(h, m)
  BY <1>1 DEF Noted
<1>11. ValidateStructure(document)'
  BY <1>2 DEF Inv
<1>12. Placed(staged)' /\ Kept'
  BY AddsKeepBased DEF AddsWell, Inv, Based
<1>13. Referring(staged)'
  <2>1. \A n \in Nodes : staged'.nodes[n] # None /\ staged'.nodes[n].target # None
            => Exists(staged, staged'.nodes[n].target) /\ staged'.nodes[n].target \in Graphs
    BY <1>1, <1>2, <1>3, DocumentIs, NodeIs DEF Inv, Typed, Referring
  <2>2. \A c \in Channels : staged'.channels[c] # None =>
            /\ Exists(staged', staged'.channels[c].source.graph)
            /\ Exists(staged', staged'.channels[c].destination.graph)
    BY <1>1, <1>2, <1>5, DocumentIs, ChannelIs DEF Inv, Referring
  <2> QED
    BY <1>1, <2>1, <2>2 DEF Referring
<1>14. Unforked(staged)'
  BY <1>2 DEF Inv, Unforked, ChannelsOf
<1>15. ValidRoot(staged)'
  BY <1>1, <1>2, <1>5, DocumentIs DEF Inv, ValidRoot
<1>16. ValidDependencies(staged)'
  BY AddsDependWell
<1>18. Journal'
  BY <1>1, <1>2 DEF Inv, Journal
<1>19. Seen'
  BY <1>1, <1>2 DEF Inv, Seen, Noted
<1>20. NoMoves'
  BY <1>2, <1>3 DEF Inv, NoMoves
<1>21. ShownKept'
  <2>1. ASSUME NEW n \in staged'.shown, staged'.nodes[n] = None, n \in document.shown
        PROVE  \/ ~Exists(staged', document.nodes[n].graph)
               \/ Noted(document.nodes[n].graph, n)
    <3>1. n \in Nodes /\ document.nodes[n] # None
      BY <1>5, <2>1, DocumentIs DEF ValidPresentation
    <3>2. document.nodes[n].graph \in Graphs \ {g}
      BY <1>2, <1>5, <3>1, NodeIs DEF Placed
    <3>3. staged.nodes[n] = None
      BY <1>2, <2>1, <3>1
    <3> QED
      BY <1>1, <1>2, <2>1, <3>2, <3>3 DEF Inv, ShownKept
  <2>2. \A n \in Nodes : ~(n \in staged'.shown <=> n \in document'.shown) => n \in touched'.shown
    BY <1>1, <1>2 DEF Inv, ShownKept
  <2> QED
    BY <1>2, <1>7, <2>1, <2>2 DEF ShownKept
<1>22. Fits'
  <2>1. ASSUME NEW n \in Nodes, staged'.nodes[n] # None, staged'.nodes[n].target # None
        PROVE  \/ LifetimeFits(staged', staged'.nodes[n])
               \/ Noted(staged'.nodes[n].graph, n)
               \/ staged'.nodes[n].graph \in touched'.replaced
    <3>1. staged'.nodes[n].target \in Graphs
      BY <1>5, <2>1, DocumentIs, NodeIs
    <3>2. CASE n \in DOMAIN members
      <4>1. staged'.nodes[n].target # g /\ LifetimeFits(staged, staged'.nodes[n])
        BY <1>2, <1>3, <2>1, <3>2
      <4> QED
        BY <1>6, <3>1, <4>1
    <3>3. CASE n \notin DOMAIN members
      <4>1. staged'.nodes[n] = staged.nodes[n] /\ staged'.nodes[n].target # g
        BY <1>2, <2>1, <3>3 DEF Inv, Referring
      <4> QED
        BY <1>1, <1>6, <2>1, <3>1, <4>1 DEF Inv, Fits
    <3> QED
      BY <3>2, <3>3
  <2>2. ASSUME NEW h \in Graphs, NEW n \in Nodes,
               replaced[h] # None, replaced[h].nodes[n] # None, replaced[h].nodes[n].target # None
        PROVE  /\ \/ Exists(staged', replaced[h].nodes[n].target)
                  \/ replaced[h].nodes[n].target \in touched'.graphs
               /\ Exists(staged', replaced[h].nodes[n].target) =>
                      LifetimeFits(staged', replaced[h].nodes[n]) \/ Noted(h, n)
    <3> DEFINE w == replaced[h].nodes[n]
    <3>1. w.target \in Graphs
      <4>1. replaced[h] \in Baselines
        BY <2>2 DEF Inv, Typed
      <4>2. w \in NodeValues
        BY <2>2, <4>1 DEF Baselines
      <4> QED
        BY <2>2, <4>2, NodeIs
    <3>2. /\ Exists(staged, w.target) \/ w.target \in touched.graphs
          /\ Exists(staged, w.target) => LifetimeFits(staged, w) \/ Noted(h, n)
      BY <2>2 DEF Inv, Fits
    <3>3. w.target # g
      BY <1>2, <3>2
    <3> QED
      BY <1>1, <1>6, <3>1, <3>2, <3>3
  <2> QED
    BY <1>2, <1>7, <2>1, <2>2 DEF Fits, Noted
<1>23. Excl'
  <2> SUFFICES ASSUME NEW t \in Graphs, NEW n \in Nodes, NEW m \in Nodes,
                      Exists(document, t), n # m,
                      Owns(staged'.nodes[n], t), Owns(staged'.nodes[m], t),
                      Owns(document.nodes[m], t),
                      ~Exists(document, staged'.nodes[n].graph)
               PROVE  \/ Noted(staged'.nodes[n].graph, n)
                      \/ /\ staged'.nodes[n].graph \in touched'.replaced
                         /\ ~Owns(replaced[staged'.nodes[n].graph].nodes[n], t)
    BY <1>1, <1>2 DEF Excl, Noted
  <2>1. m \notin DOMAIN members
    BY <1>2 DEF Owns
  <2>2. n \notin DOMAIN members
    BY <1>2, <1>4
  <2> QED
    BY <1>1, <1>2, <2>1, <2>2 DEF Inv, Excl
<1>24. Synced'
  <2>1. ASSUME NEW n \in Nodes, staged'.nodes[n] # None
        PROVE  InSync(staged', staged'.nodes[n]) \/ Noted(staged'.nodes[n].graph, n)
    <3>1. CASE n \in DOMAIN members
      BY <1>2, <1>3, <3>1
    <3>2. CASE n \notin DOMAIN members
      <4> DEFINE v == staged.nodes[n]
      <4>1. staged'.nodes[n] = v /\ v \in NodeValues
        BY <1>2, <1>5, <2>1, <3>2
      <4>2. v.graph \in Graphs \ {g}
        BY <1>2, <2>1, <4>1, NodeIs DEF Inv, Placed
      <4>3. v.role = "subgraph" => v.target \in Graphs \ {g}
        BY <1>2, <2>1, <4>1, NodeIs DEF Inv, Referring
      <4>4. InSync(staged, v) => InSync(staged', v)
        BY <1>2, <4>2, <4>3 DEF InSync
      <4> QED
        BY <2>1, <4>1, <4>4 DEF Inv, Synced
    <3> QED
      BY <3>1, <3>2
  <2>2. ASSUME NEW h \in Graphs, Exists(staged', h), ~Exists(document, h), h \notin touched'.replaced
        PROVE  \/ Bounded(staged', h)
               \/ \E n \in NodesOf(staged', h) :
                     staged'.nodes[n].role \in BoundaryRoles /\ Noted(h, n)
    <3>1. CASE h = g
      BY <3>1 DEF AddsWell, Adds, GraphFits
    <3>2. CASE h # g
      <4>1. /\ staged'.graphs[h] = staged.graphs[h]
            /\ \A n \in Nodes : FindNode(staged', h, n) = FindNode(staged, h, n)
        BY <1>1, <1>2, <3>2
      <4>2. /\ NodesOf(staged', h) = NodesOf(staged, h)
            /\ \A n \in NodesOf(staged, h) : staged'.nodes[n] = staged.nodes[n]
            /\ Bounded(staged', h) <=> Bounded(staged, h)
        BY <4>1, SameGraph
      <4>3. \/ Bounded(staged, h)
            \/ \E n \in NodesOf(staged, h) :
                  staged.nodes[n].role \in BoundaryRoles /\ Noted(h, n)
        BY <1>1, <2>2, <3>2 DEF Inv, Synced
      <4> QED
        BY <4>2, <4>3
    <3> QED
      BY <3>1, <3>2
  <2> QED
    BY <1>2, <1>7, <2>1, <2>2 DEF Synced, Noted
<1> QED
  BY <1>1, <1>11, <1>12, <1>13, <1>14, <1>15, <1>16, <1>18, <1>19, <1>20, <1>21,
     <1>22, <1>23, <1>24 DEF Inv

-----------------------------------------------------------------------------
(* A graph is removed                                                      *)

LEMMA RemovesKeep ==
    ASSUME Inv, NEW g \in Graphs, Removes(g)
    PROVE  Inv'
<1>1. /\ Typed'
      /\ touched'.graphs = touched.graphs \cup {g}
      /\ touched'.nodes = touched.nodes /\ touched'.replaced = touched.replaced
      /\ touched'.channels = touched.channels /\ touched'.shown = touched.shown
      /\ \A h \in Graphs : Exists(staged', h) <=> h # g /\ Exists(staged, h)
      /\ \A h \in Graphs \ {g}, n \in Nodes : FindNode(staged', h, n) = FindNode(staged, h, n)
  BY RemovesIs DEF Inv
<1>2. /\ staged'.root = staged.root
      /\ staged'.channels = staged.channels /\ staged'.shown = staged.shown
      /\ \A h \in Graphs \ {g} : staged'.graphs[h] = staged.graphs[h]
      /\ \A n \in Nodes : staged'.nodes[n] # None =>
             /\ staged.nodes[n] # None /\ staged.nodes[n].graph # g
             /\ staged'.nodes[n] = staged.nodes[n]
      /\ \A n \in Nodes : staged'.nodes[n] = None =>
             staged.nodes[n] = None \/ staged.nodes[n].graph = g
      /\ UNCHANGED <<document, replaced>>
  BY DEF Removes
<1>3. /\ staged.root # g
      /\ \A n \in Nodes : staged.nodes[n] # None => staged.nodes[n].target # g
      /\ \A c \in Channels : staged.channels[c] # None =>
             staged.channels[c].source.graph # g /\ staged.channels[c].destination.graph # g
  BY DEF Removes, GraphUnused, Callers, ChannelsForGraph
<1>4. /\ staged \in Documents /\ staged' \in Documents /\ document \in Documents
      /\ Placed(document) /\ ValidPresentation(document)
      /\ \A n \in Nodes : staged.nodes[n] # None => staged.nodes[n] \in NodeValues
  BY <1>1, ValidPlaces, DocumentIs DEF Inv, Typed, ValidateStructure
<1>5. \A w : w.target \in Graphs \ {g} => (LifetimeFits(staged', w) <=> LifetimeFits(staged, w))
  BY <1>2 DEF LifetimeFits
<1>6. \A h, m : Noted(h, m)' <=> Noted(h, m)
  BY <1>1 DEF Noted
<1>11. ValidateStructure(document)'
  BY <1>2 DEF Inv
<1>12. Placed(staged)' /\ Kept'
  BY RemovesKeepBased DEF Inv, Based
<1>13. Referring(staged)'
  <2>1. \A n \in Nodes : staged'.nodes[n] # None /\ staged'.nodes[n].target # None
            => Exists(staged', staged'.nodes[n].target)
    BY <1>1, <1>2, <1>3, <1>4, NodeIs DEF Inv, Referring
  <2>2. \A c \in Channels : staged'.channels[c] # None =>
            /\ Exists(staged', staged'.channels[c].source.graph)
            /\ Exists(staged', staged'.channels[c].destination.graph)
    BY <1>1, <1>2, <1>3, <1>4, DocumentIs, ChannelIs DEF Inv, Referring
  <2> QED
    BY <2>1, <2>2 DEF Referring
<1>14. Unforked(staged)'
  BY <1>2 DEF Inv, Unforked, ChannelsOf
<1>15. ValidRoot(staged)'
  BY <1>1, <1>2, <1>3, <1>4, DocumentIs DEF Inv, ValidRoot
<1>16. ValidDependencies(staged)'
  <2>1. ASSUME NEW k \in Graphs, NEW h \in DependsOn(staged', k) PROVE h \in DependsOn(staged, k)
    <3>1. h \in Graphs
      BY <1>4, EdgeIs
    <3>2. \/ \E m \in Nodes : /\ staged'.nodes[m] # None /\ staged'.nodes[m].graph = k
                              /\ staged'.nodes[m].target = h
          \/ \E c \in Channels : /\ staged'.channels[c] # None
                                 /\ staged'.channels[c].source.graph = k
                                 /\ staged'.channels[c].destination.graph = h
      BY <1>4, <3>1, EdgeIs
    <3>3. \/ \E m \in Nodes : /\ staged.nodes[m] # None /\ staged.nodes[m].graph = k
                              /\ staged.nodes[m].target = h
          \/ \E c \in Channels : /\ staged.channels[c] # None
                                 /\ staged.channels[c].source.graph = k
                                 /\ staged.channels[c].destination.graph = h
      BY <1>2, <3>2
    <3> QED
      BY <1>4, <3>1, <3>3, EdgeIs
  <2> QED
    BY <1>4, <2>1, FewerDependencies DEF Inv
<1>18. Journal'
  BY <1>1, <1>2 DEF Inv, Journal
<1>19. Seen'
  BY <1>1, <1>2 DEF Inv, Seen, Noted
<1>20. NoMoves'
  BY <1>2 DEF Inv, NoMoves
<1>21. ShownKept'
  <2>1. ASSUME NEW n \in staged'.shown, staged'.nodes[n] = None, n \in document.shown
        PROVE  \/ ~Exists(staged', document.nodes[n].graph)
               \/ Noted(document.nodes[n].graph, n)
    <3>1. n \in Nodes /\ document.nodes[n] # None /\ document.nodes[n].graph \in Graphs
      BY <1>4, <2>1, DocumentIs, NodeIs DEF ValidPresentation
    <3>2. CASE staged.nodes[n] = None
      BY <1>1, <1>2, <2>1, <3>1, <3>2 DEF Inv, ShownKept
    <3>3. CASE staged.nodes[n] # None
      <4>1. document.nodes[n].graph = g
        BY <1>2, <2>1, <3>1, <3>3 DEF Inv, NoMoves
      <4> QED
        BY <1>1, <4>1
    <3> QED
      BY <3>2, <3>3
  <2>2. \A n \in Nodes : ~(n \in staged'.shown <=> n \in document'.shown) => n \in touched'.shown
    BY <1>1, <1>2 DEF Inv, ShownKept
  <2> QED
    BY <1>2, <1>6, <2>1, <2>2 DEF ShownKept
<1>22. Fits'
  <2>1. ASSUME NEW n \in Nodes, staged'.nodes[n] # None, staged'.nodes[n].target # None
        PROVE  \/ LifetimeFits(staged', staged'.nodes[n])
               \/ Noted(staged'.nodes[n].graph, n)
               \/ staged'.nodes[n].graph \in touched'.replaced
    <3>1. staged'.nodes[n] = staged.nodes[n] /\ staged.nodes[n].target \in Graphs \ {g}
      BY <1>2, <1>3, <1>4, <2>1, NodeIs
    <3> QED
      BY <1>1, <1>5, <2>1, <3>1 DEF Inv, Fits
  <2>2. ASSUME NEW h \in Graphs, NEW n \in Nodes,
               replaced[h] # None, replaced[h].nodes[n] # None, replaced[h].nodes[n].target # None
        PROVE  /\ \/ Exists(staged', replaced[h].nodes[n].target)
                  \/ replaced[h].nodes[n].target \in touched'.graphs
               /\ Exists(staged', replaced[h].nodes[n].target) =>
                      LifetimeFits(staged', replaced[h].nodes[n]) \/ Noted(h, n)
    <3> DEFINE w == replaced[h].nodes[n]
    <3>1. w.target \in Graphs
      <4>1. replaced[h] \in Baselines
        BY <2>2 DEF Inv, Typed
      <4>2. w \in NodeValues
        BY <2>2, <4>1 DEF Baselines
      <4> QED
        BY <2>2, <4>2, NodeIs
    <3>2. /\ Exists(staged, w.target) \/ w.target \in touched.graphs
          /\ Exists(staged, w.target) => LifetimeFits(staged, w) \/ Noted(h, n)
      BY <2>2 DEF Inv, Fits
    <3> QED
      BY <1>1, <1>5, <3>1, <3>2
  <2> QED
    BY <1>2, <1>6, <2>1, <2>2 DEF Fits, Noted
<1>23. Excl'
  <2> SUFFICES ASSUME NEW t \in Graphs, NEW n \in Nodes, NEW m \in Nodes,
                      Exists(document, t), n # m,
                      Owns(staged'.nodes[n], t), Owns(staged'.nodes[m], t),
                      Owns(document.nodes[m], t),
                      ~Exists(document, staged'.nodes[n].graph)
               PROVE  \/ Noted(staged'.nodes[n].graph, n)
                      \/ /\ staged'.nodes[n].graph \in touched'.replaced
                         /\ ~Owns(replaced[staged'.nodes[n].graph].nodes[n], t)
    BY <1>1, <1>2 DEF Excl, Noted
  <2>1. staged'.nodes[n] = staged.nodes[n] /\ staged'.nodes[m] = staged.nodes[m]
    BY <1>2 DEF Owns
  <2> QED
    BY <1>1, <2>1 DEF Inv, Excl
<1>24. Synced'
  <2>1. ASSUME NEW n \in Nodes, staged'.nodes[n] # None
        PROVE  InSync(staged', staged'.nodes[n]) \/ Noted(staged'.nodes[n].graph, n)
    <3> DEFINE v == staged.nodes[n]
    <3>1. staged'.nodes[n] = v /\ v \in NodeValues /\ v # None
      BY <1>2, <1>4, <2>1
    <3>2. v.graph \in Graphs \ {g}
      BY <1>2, <2>1, <3>1, NodeIs
    <3>3. v.role = "subgraph" => v.target \in Graphs \ {g}
      BY <1>3, <3>1, NodeIs
    <3>4. InSync(staged, v) => InSync(staged', v)
      BY <1>2, <3>2, <3>3 DEF InSync
    <3> QED
      BY <3>1, <3>4 DEF Inv, Synced
  <2>2. ASSUME NEW h \in Graphs, Exists(staged', h), ~Exists(document, h), h \notin touched'.replaced
        PROVE  \/ Bounded(staged', h)
               \/ \E n \in NodesOf(staged', h) :
                     staged'.nodes[n].role \in BoundaryRoles /\ Noted(h, n)
    <3>1. /\ staged'.graphs[h] = staged.graphs[h]
          /\ \A n \in Nodes : FindNode(staged', h, n) = FindNode(staged, h, n)
      BY <1>1, <1>2, <2>2
    <3>2. /\ NodesOf(staged', h) = NodesOf(staged, h)
          /\ \A n \in NodesOf(staged, h) : staged'.nodes[n] = staged.nodes[n]
          /\ Bounded(staged', h) <=> Bounded(staged, h)
      BY <3>1, SameGraph
    <3>3. \/ Bounded(staged, h)
          \/ \E n \in NodesOf(staged, h) :
                staged.nodes[n].role \in BoundaryRoles /\ Noted(h, n)
      BY <1>1, <2>2 DEF Inv, Synced
    <3> QED
      BY <3>2, <3>3
  <2> QED
    BY <1>2, <1>6, <2>1, <2>2 DEF Synced, Noted
<1> QED
  BY <1>1, <1>11, <1>12, <1>13, <1>14, <1>15, <1>16, <1>18, <1>19, <1>20, <1>21,
     <1>22, <1>23, <1>24 DEF Inv

-----------------------------------------------------------------------------
(* Graphs and nodes stay as they are                                       *)

\* A step that leaves graphs, nodes, their journal and baselines alone owes the
\* invariant the root, the channels, the presentation and what depends on them.
LEMMA NodesKept ==
    ASSUME Inv, Spares,
           Referring(staged'), Unforked(staged'), ValidRoot(staged'), ValidDependencies(staged'),
           \A c \in Channels : document.channels[c] # staged'.channels[c] => c \in touched'.channels,
           \A n \in Nodes : ~(n \in staged'.shown <=> n \in document.shown) => n \in touched'.shown,
           \A n \in staged'.shown : n \in staged.shown \/ staged.nodes[n] # None
    PROVE  Inv'
<1>1. /\ Typed' /\ UNCHANGED <<document, replaced>>
      /\ staged'.nodes = staged.nodes
      /\ touched'.graphs = touched.graphs /\ touched'.replaced = touched.replaced
      /\ \A h, n : Noted(h, n)' <=> Noted(h, n)
  BY DEF Spares, Noted
<1>2. /\ \A h : Exists(staged', h) <=> Exists(staged, h)
      /\ \A w : LifetimeFits(staged', w) <=> LifetimeFits(staged, w)
      /\ \A w : InSync(staged', w) <=> InSync(staged, w)
      /\ \A h, n : FindNode(staged', h, n) = FindNode(staged, h, n)
  BY DEF Spares, Exists, LifetimeFits, InSync, FindNode
<1>3. /\ \A h : NodesOf(staged', h) = NodesOf(staged, h)
      /\ \A h : Bounded(staged', h) <=> Bounded(staged, h)
  <2>1. \A h : NodesOf(staged', h) = NodesOf(staged, h)
    BY <1>2 DEF NodesOf
  <2> QED
    BY <2>1 DEF Bounded, Spares
<1>4. ValidateStructure(document)' /\ Placed(staged)' /\ Kept'
  BY SparesKeepBased DEF Inv, Based, Spares
<1>5. Journal'
  BY <1>1, <1>2 DEF Inv, Journal, Spares
<1>6. Seen'
  BY <1>1, <1>2 DEF Inv, Seen, Noted, Spares
<1>7. NoMoves'
  BY <1>1 DEF Inv, NoMoves
<1>8. ShownKept'
  BY <1>1, <1>2 DEF Inv, ShownKept, Noted, Spares
<1>9. Fits'
  BY <1>1, <1>2 DEF Inv, Fits, Noted, Spares
<1>10. Excl'
  BY <1>1 DEF Inv, Excl, Noted, Spares
<1>11. Synced'
  BY <1>1, <1>2, <1>3 DEF Inv, Synced, Noted, Spares
<1> QED
  BY <1>1, <1>4, <1>5, <1>6, <1>7, <1>8, <1>9, <1>10, <1>11 DEF Inv

\* The same root, and the same channels or fewer.
LEMMA NoMoreChannels ==
    ASSUME Inv, Spares, \A c \in Channels : staged'.channels[c] \in {staged.channels[c], None}
    PROVE  Referring(staged') /\ Unforked(staged') /\ ValidDependencies(staged')
<1>1. /\ staged \in Documents /\ staged' \in Documents
      /\ staged'.graphs = staged.graphs /\ staged'.nodes = staged.nodes
  BY DEF Inv, Typed, Spares
<1>2. Referring(staged')
  BY <1>1 DEF Inv, Referring, Exists
<1>3. Unforked(staged')
  BY <1>1 DEF Inv, Unforked, ChannelsOf
<1>4. ASSUME NEW k \in Graphs, NEW h \in DependsOn(staged', k) PROVE h \in DependsOn(staged, k)
  <2>1. h \in Graphs
    BY <1>1, EdgeIs
  <2>2. \/ \E m \in Nodes : /\ staged'.nodes[m] # None /\ staged'.nodes[m].graph = k
                            /\ staged'.nodes[m].target = h
        \/ \E j \in Channels : /\ staged'.channels[j] # None
                               /\ staged'.channels[j].source.graph = k
                               /\ staged'.channels[j].destination.graph = h
    BY <1>1, <2>1, EdgeIs
  <2>3. \/ \E m \in Nodes : /\ staged.nodes[m] # None /\ staged.nodes[m].graph = k
                            /\ staged.nodes[m].target = h
        \/ \E j \in Channels : /\ staged.channels[j] # None
                               /\ staged.channels[j].source.graph = k
                               /\ staged.channels[j].destination.graph = h
    BY <1>1, <2>2
  <2> QED
    BY <1>1, <2>1, <2>3, EdgeIs
<1>5. ValidDependencies(staged')
  BY <1>1, <1>4, FewerDependencies DEF Inv
<1> QED
  BY <1>2, <1>3, <1>5

LEMMA SetRootGraphKeeps ==
    ASSUME Inv, NEW g \in Graphs, SetRootGraph(g)
    PROVE  Inv'
<1>1. /\ Spares
      /\ Exists(staged, g) /\ staged.graphs[g].lifetime = "reusable"
      /\ staged'.root = g
      /\ staged'.channels = staged.channels /\ staged'.shown = staged.shown
      /\ touched' = touched
  BY SetRootGraphSpares DEF Inv
<1>2. Referring(staged') /\ Unforked(staged') /\ ValidDependencies(staged')
  BY <1>1, NoMoreChannels
<1>3. ValidRoot(staged')
  BY <1>1 DEF ValidRoot, Exists, Spares
<1>4. /\ \A c \in Channels : document.channels[c] # staged'.channels[c] => c \in touched'.channels
      /\ \A n \in Nodes : ~(n \in staged'.shown <=> n \in document.shown) => n \in touched'.shown
      /\ \A n \in staged'.shown : n \in staged.shown \/ staged.nodes[n] # None
  BY <1>1 DEF Inv, Journal, ShownKept
<1> QED
  BY <1>1, <1>2, <1>3, <1>4, NodesKept

LEMMA SetNodePresentationKeeps ==
    ASSUME Inv, NEW n \in Nodes, SetNodePresentation(n)
    PROVE  Inv'
<1>1. /\ Spares
      /\ staged'.root = staged.root /\ staged'.channels = staged.channels
      /\ \A m \in Nodes \ {n} : m \in staged'.shown <=> m \in staged.shown
      /\ n \in staged'.shown => staged.nodes[n] # None
      /\ touched'.channels = touched.channels
      /\ touched'.shown = touched.shown \cup {n}
  BY SetNodePresentationSpares DEF Inv
<1>2. Referring(staged') /\ Unforked(staged') /\ ValidDependencies(staged')
  BY <1>1, NoMoreChannels
<1>3. ValidRoot(staged')
  BY <1>1 DEF Inv, ValidRoot, Exists, Spares
<1>4. \A c \in Channels : document.channels[c] # staged'.channels[c] => c \in touched'.channels
  BY <1>1 DEF Inv, Journal
<1>5. \A m \in Nodes : ~(m \in staged'.shown <=> m \in document.shown) => m \in touched'.shown
  BY <1>1 DEF Inv, ShownKept
<1>6. \A m \in staged'.shown : m \in staged.shown \/ staged.nodes[m] # None
  <2>1. staged' \in Documents
    BY <1>1 DEF Spares, Typed
  <2> QED
    BY <1>1, <2>1, DocumentIs
<1> QED
  BY <1>1, <1>2, <1>3, <1>4, <1>5, <1>6, NodesKept

LEMMA RemoveIntergraphLinkKeeps ==
    ASSUME Inv, NEW c \in Channels, RemoveIntergraphLink(c)
    PROVE  Inv'
<1>1. /\ Spares
      /\ staged'.root = staged.root /\ staged'.shown = staged.shown
      /\ staged'.channels[c] = None
      /\ \A k \in Channels \ {c} : staged'.channels[k] = staged.channels[k]
      /\ touched'.shown = touched.shown
      /\ touched'.channels = touched.channels \cup {c}
  BY RemoveIntergraphLinkSpares DEF Inv
<1>2. Referring(staged') /\ Unforked(staged') /\ ValidDependencies(staged')
  BY <1>1, NoMoreChannels
<1>3. ValidRoot(staged')
  BY <1>1 DEF Inv, ValidRoot, Exists, Spares
<1>4. \A k \in Channels : document.channels[k] # staged'.channels[k] => k \in touched'.channels
  BY <1>1 DEF Inv, Journal
<1>5. /\ \A m \in Nodes : ~(m \in staged'.shown <=> m \in document.shown) => m \in touched'.shown
      /\ \A m \in staged'.shown : m \in staged.shown \/ staged.nodes[m] # None
  BY <1>1 DEF Inv, ShownKept
<1> QED
  BY <1>1, <1>2, <1>3, <1>4, <1>5, NodesKept

LEMMA AddIntergraphLinkKeeps ==
    ASSUME Inv, NEW c \in Channels, NEW source \in Endpoints, NEW destination \in Endpoints,
           AddIntergraphLink(c, source, destination)
    PROVE  Inv'
<1> DEFINE g == source.graph
           t == destination.graph
<1>1. /\ Spares
      /\ staged'.root = staged.root /\ staged'.shown = staged.shown
      /\ staged.channels[c] = None /\ staged'.channels[c] # None
      /\ staged'.channels[c].source = source
      /\ staged'.channels[c].destination = destination
      /\ \A k \in Channels \ {c} : staged'.channels[k] = staged.channels[k]
      /\ touched'.shown = touched.shown
      /\ touched'.channels = touched.channels \cup {c}
  BY AddIntergraphLinkSpares DEF Inv
<1>2. /\ Connected(staged, source, destination)
      /\ ChannelsOf(staged, source.node) = {} /\ ChannelsOf(staged, destination.node) = {}
      /\ t \in DependsOn(staged, g) \/ g \notin Reached(staged, t)
  BY DEF AddIntergraphLink, ChannelFits, MayDepend
<1>3. /\ g \in Graphs /\ t \in Graphs /\ source.node \in Nodes /\ destination.node \in Nodes
  BY DEF Endpoints
<1>4. /\ staged \in Documents /\ staged' \in Documents
      /\ staged'.graphs = staged.graphs /\ staged'.nodes = staged.nodes
  BY <1>1 DEF Spares, Inv, Typed
<1>5. Referring(staged')
  <2>1. Exists(staged, g) /\ Exists(staged, t)
    <3>1. FindNode(staged, g, source.node) # None /\ FindNode(staged, t, destination.node) # None
      BY <1>2 DEF Connected
    <3> QED
      BY <1>3, <3>1 DEF FindNode, Inv, Placed
  <2> QED
    BY <1>1, <1>4, <2>1 DEF Inv, Referring, Exists
<1>6. Unforked(staged')
  <2> SUFFICES ASSUME NEW n \in Nodes, NEW j \in ChannelsOf(staged', n),
                      NEW k \in ChannelsOf(staged', n)
               PROVE  j = k
    BY DEF Unforked
  <2>1. \A i \in Channels \ {c} : i \in ChannelsOf(staged', n) => i \in ChannelsOf(staged, n)
    BY <1>1 DEF ChannelsOf
  <2>2. CASE n \in {source.node, destination.node}
    BY <1>2, <2>1, <2>2 DEF ChannelsOf
  <2>3. CASE n \notin {source.node, destination.node}
    <3>1. c \notin ChannelsOf(staged', n)
      BY <1>1, <2>3 DEF ChannelsOf
    <3>2. j \in ChannelsOf(staged, n) /\ k \in ChannelsOf(staged, n)
      BY <2>1, <3>1 DEF ChannelsOf
    <3> QED
      BY <3>2 DEF Inv, Unforked
  <2> QED
    BY <2>2, <2>3
<1>7. ValidRoot(staged')
  BY <1>1, <1>4 DEF Inv, ValidRoot, Exists
<1>8. ValidDependencies(staged')
  <2>1. ValidDependencies(staged)
    BY DEF Inv
  <2>2. ASSUME NEW k \in Graphs, NEW h \in DependsOn(staged', k), h \notin DependsOn(staged, k)
        PROVE  k = g /\ h = t
    <3>1. h \in Graphs
      BY <1>4, EdgeIs
    <3>2. \/ \E m \in Nodes : /\ staged'.nodes[m] # None /\ staged'.nodes[m].graph = k
                              /\ staged'.nodes[m].target = h
          \/ \E j \in Channels : /\ staged'.channels[j] # None
                                 /\ staged'.channels[j].source.graph = k
                                 /\ staged'.channels[j].destination.graph = h
      BY <1>4, <3>1, EdgeIs
    <3>3. /\ ~\E m \in Nodes : /\ staged.nodes[m] # None /\ staged.nodes[m].graph = k
                               /\ staged.nodes[m].target = h
          /\ ~\E j \in Channels : /\ staged.channels[j] # None
                                  /\ staged.channels[j].source.graph = k
                                  /\ staged.channels[j].destination.graph = h
      BY <1>4, <2>2, <3>1, EdgeIs
    <3> QED
      BY <1>1, <1>4, <3>2, <3>3
  <2>3. CASE g \notin Reached(staged, t)
    <3>1. /\ \A k \in Graphs \ {g} : DependsOn(staged', k) \subseteq DependsOn(staged, k)
          /\ DependsOn(staged', g) \subseteq DependsOn(staged, g) \cup {t}
      BY <1>3, <2>2
    <3> HIDE DEF g, t
    <3> QED
      BY <1>3, <1>4, <2>1, <2>3, <3>1, OneMoreDependency
  <2>4. CASE t \in DependsOn(staged, g)
    <3>1. \A k \in Graphs : DependsOn(staged', k) \subseteq DependsOn(staged, k)
      BY <2>2, <2>4
    <3> QED
      BY <1>4, <2>1, <3>1, FewerDependencies
  <2> QED
    BY <1>2, <2>3, <2>4
<1>9. \A k \in Channels : document.channels[k] # staged'.channels[k] => k \in touched'.channels
  BY <1>1 DEF Inv, Journal
<1>10. /\ \A m \in Nodes : ~(m \in staged'.shown <=> m \in document.shown) => m \in touched'.shown
       /\ \A m \in staged'.shown : m \in staged.shown \/ staged.nodes[m] # None
  BY <1>1 DEF Inv, ShownKept
<1> QED
  BY <1>1, <1>5, <1>6, <1>7, <1>8, <1>9, <1>10, NodesKept

LEMMA RejectedReplacementKeeps ==
    ASSUME Inv, NEW g \in Graphs, RejectedReplacement(g)
    PROVE  Inv'
<1>1. /\ Exists(staged, g) /\ replaced[g] = None /\ KeepBaselines({g})
      /\ staged' = staged /\ touched' = touched /\ document' = document
      /\ mutations' \in 0..MaxMutations
  BY StageIs DEF RejectedReplacement, Inv
<1>2. /\ replaced' \in [Graphs -> Baselines \cup {None}]
      /\ \A h \in Graphs \ {g} : replaced'[h] = replaced[h]
      /\ replaced'[g].graph = staged.graphs[g]
      /\ \A n \in Nodes : replaced'[g].nodes[n] = FindNode(staged, g, n)
      /\ replaced'[g] # None
  BY <1>1, KeepBaselinesIs DEF Inv
<1>3. g \notin touched.replaced
  BY <1>1 DEF Inv, Kept
<1>4. Typed' /\ Kept'
  BY RejectedReplacementKeepsBased DEF Inv, Based
<1>6. Journal'
  <2>1. \A h \in Graphs : Exists(document, h) /\ replaced'[h] # None =>
            replaced'[h].graph = document.graphs[h]
    BY <1>1, <1>2, <1>3 DEF Inv, Journal
  <2> QED
    BY <1>1, <2>1 DEF Inv, Journal
<1>7. Seen'
  <2>1. \A h \in Graphs, n \in Nodes : Exists(document, h) =>
            (replaced'[h] # None /\ replaced'[h].nodes[n] # FindNode(document, h, n) => Noted(h, n))
    BY <1>1, <1>2, <1>3 DEF Inv, Seen
  <2> QED
    BY <1>1, <2>1 DEF Inv, Seen, Noted
<1>8. Fits'
  <2>1. ASSUME NEW h \in Graphs, NEW n \in Nodes,
               replaced'[h] # None, replaced'[h].nodes[n] # None,
               replaced'[h].nodes[n].target # None
        PROVE  /\ \/ Exists(staged, replaced'[h].nodes[n].target)
                  \/ replaced'[h].nodes[n].target \in touched.graphs
               /\ Exists(staged, replaced'[h].nodes[n].target) =>
                      LifetimeFits(staged, replaced'[h].nodes[n]) \/ Noted(h, n)
    <3>1. CASE h # g
      BY <1>2, <2>1, <3>1 DEF Inv, Fits
    <3>2. CASE h = g
      <4>1. replaced'[h].nodes[n] = staged.nodes[n] /\ staged.nodes[n].graph = g
        BY <1>2, <2>1, <3>2 DEF FindNode
      <4> QED
        BY <1>3, <2>1, <3>2, <4>1 DEF Inv, Fits, Referring
    <3> QED
      BY <3>1, <3>2
  <2> QED
    BY <1>1, <2>1 DEF Inv, Fits, Noted
<1>9. Excl'
  <2>1. \A h \in touched.replaced : replaced'[h] = replaced[h]
    BY <1>2, <1>3 DEF Inv, Typed
  <2> QED
    BY <1>1, <2>1 DEF Inv, Excl, Noted
<1>10. /\ ValidateStructure(document)' /\ Placed(staged)' /\ Referring(staged)'
       /\ Unforked(staged)' /\ ValidRoot(staged)' /\ ValidDependencies(staged)'
  BY <1>1 DEF Inv
<1>11. NoMoves' /\ ShownKept' /\ Synced'
  BY <1>1 DEF Inv, NoMoves, ShownKept, Synced, Noted
<1> QED
  BY <1>4, <1>6, <1>7, <1>8, <1>9, <1>10, <1>11 DEF Inv

-----------------------------------------------------------------------------
(* The transaction ends                                                    *)

\* A transaction begins with a document that is valid, and an empty journal.
LEMMA Begins ==
    ASSUME NEW d \in Documents, ValidateStructure(d), document = d, staged = d,
           touched = Untouched, replaced = [g \in Graphs |-> None], mutations = 0
    PROVE  Inv
<1>1. /\ touched \in [graphs : SUBSET Graphs, nodes : SUBSET (Graphs \X Nodes),
                      channels : SUBSET Channels, shown : SUBSET Nodes,
                      replaced : SUBSET Graphs]
      /\ touched.replaced = {} /\ touched.graphs = {}
  BY DEF Untouched
<1>2. Typed
  BY <1>1, GraphHierarchyAssumption DEF Typed
<1>3. \A g \in Graphs : replaced[g] = None
  OBVIOUS
<1>4. Placed(d) /\ Referring(d)
  BY ValidPlaces DEF ValidateStructure
<1>5. Unforked(d) /\ ValidRoot(d) /\ ValidDependencies(d)
  BY DEF ValidateStructure, ValidChannels, Unforked
<1>6. Kept
  BY <1>1, <1>3 DEF Kept
<1>7. Journal
  BY <1>1, <1>3 DEF Journal
<1>8. Seen
  BY <1>3 DEF Seen
<1>9. NoMoves
  BY DEF NoMoves
<1>10. ShownKept
  BY DEF ShownKept, ValidateStructure, ValidPresentation
<1>11. Fits
  BY <1>3 DEF Fits, ValidateStructure, ValidCalls, CallValid
<1>12. Excl
  BY <1>4, DocumentIs, NodeIs DEF Excl, Owns, Placed
<1>13. Synced
  BY DEF Synced, ValidateStructure, ValidInterfaces
<1> QED
  BY <1>2, <1>4, <1>5, <1>6, <1>7, <1>8, <1>9, <1>10, <1>11, <1>12, <1>13 DEF Inv

LEMMA EndKeeps ==
    ASSUME NEW d \in Documents, ValidateStructure(d), End(d)
    PROVE  Inv'
<1>1. /\ touched' \in [graphs : SUBSET Graphs, nodes : SUBSET (Graphs \X Nodes),
                       channels : SUBSET Channels, shown : SUBSET Nodes,
                       replaced : SUBSET Graphs]
      /\ touched'.replaced = {} /\ touched'.graphs = {}
  BY DEF End, Untouched
<1>2. Typed'
  BY <1>1, GraphHierarchyAssumption DEF Typed, End
<1>3. \A g \in Graphs : replaced'[g] = None
  BY DEF End
<1>4. Placed(d) /\ Referring(d)
  BY ValidPlaces DEF ValidateStructure
<1>5. Unforked(d) /\ ValidRoot(d) /\ ValidDependencies(d)
  BY DEF ValidateStructure, ValidChannels, Unforked
<1>6. document' = d /\ staged' = d
  BY DEF End
<1>7. Kept'
  BY <1>1, <1>3 DEF Kept
<1>8. Journal'
  BY <1>1, <1>3, <1>6 DEF Journal
<1>9. Seen'
  BY <1>3, <1>6 DEF Seen
<1>10. NoMoves'
  BY <1>6 DEF NoMoves
<1>11. ShownKept'
  BY <1>6 DEF ShownKept, ValidateStructure, ValidPresentation
<1>12. Fits'
  BY <1>3, <1>6 DEF Fits, ValidateStructure, ValidCalls, CallValid
<1>13. Excl'
  <2>1. \A n \in Nodes, t \in Graphs : Owns(d.nodes[n], t) => Exists(d, d.nodes[n].graph)
    BY <1>4 DEF Owns, Placed
  <2> QED
    BY <1>6, <2>1 DEF Excl
<1>14. Synced'
  BY <1>6 DEF Synced, ValidateStructure, ValidInterfaces
<1> QED
  BY <1>2, <1>4, <1>5, <1>6, <1>7, <1>8, <1>9, <1>10, <1>11, <1>12, <1>13, <1>14 DEF Inv

\* A node of the document that has changed is one that Commit collects.
LEMMA ChangedIsCollected ==
    ASSUME Inv, NEW g \in Graphs, NEW n \in Nodes, Exists(document, g), Exists(staged, g),
           FindNode(document, g, n) # FindNode(staged, g, n)
    PROVE  <<g, n>> \in Collected
<1>1. CASE Noted(g, n)
  <2>1. <<g, n>> \in ChangedNodes
    BY <1>1 DEF Noted, ChangedNodes
  <2> QED
    BY <2>1 DEF Collected
<1>2. CASE ~Noted(g, n)
  <2>1. g \in touched.replaced /\ g \in touched.graphs
    BY <1>2 DEF Inv, Seen, Journal
  <2>2. replaced[g].nodes[n] = FindNode(document, g, n)
    BY <1>2, <2>1 DEF Inv, Seen, Kept
  <2>3. n \in Differing(replaced[g], g)
    BY <2>2 DEF Differing
  <2>4. Baseline(document, g).nodes[n] # Baseline(staged, g).nodes[n]
    BY DEF Baseline
  <2>5. g \in ChangedGraphs
    BY <2>1, <2>4 DEF ChangedGraphs
  <2>6. g \in Replacements
    BY <2>1, <2>5 DEF Replacements
  <2> QED
    BY <2>3, <2>6 DEF Collected
<1> QED
  BY <1>1, <1>2

\* What Commit collects it looks at, as it was and as it is.
LEMMA CollectedIsJudged ==
    ASSUME NEW g \in Graphs, NEW n \in Nodes, <<g, n>> \in Collected
    PROVE  /\ \A d \in {document, staged} : FindNode(d, g, n) # None =>
                  FindNode(d, g, n) \in CollectedNodes(d)
           /\ ChannelsOf(document, n) \subseteq IntergraphLinks
           /\ ChannelsOf(staged, n) \subseteq IntergraphLinks
           /\ \A d \in {document, staged} :
                  FindNode(d, g, n) # None /\ FindNode(d, g, n).target # None =>
                      FindNode(d, g, n).target \in OwnershipTargets
           /\ \A d \in {document, staged} :
                  FindNode(d, g, n) # None /\ FindNode(d, g, n).role \in BoundaryRoles =>
                      g \in BoundaryGraphs
<1>1. \A d \in {document, staged} : FindNode(d, g, n) # None =>
          FindNode(d, g, n) \in CollectedNodes(d)
  <2> SUFFICES ASSUME NEW d \in {document, staged}, FindNode(d, g, n) # None
               PROVE  FindNode(d, g, n) \in CollectedNodes(d)
    OBVIOUS
  <2>1. FindNode(d, g, n) = FindNode(d, <<g, n>>[1], <<g, n>>[2])
    OBVIOUS
  <2> QED
    BY <2>1 DEF CollectedNodes
<1>2. /\ ChannelsOf(document, n) \subseteq IntergraphLinks
      /\ ChannelsOf(staged, n) \subseteq IntergraphLinks
  <2>1. \A e \in Collected, d \in {document, staged} : ChannelsOf(d, e[2]) \subseteq IntergraphLinks
    BY DEF IntergraphLinks
  <2>2. <<g, n>>[2] = n
    OBVIOUS
  <2> QED
    BY <2>1, <2>2
<1>3. \A d \in {document, staged} :
          FindNode(d, g, n) # None /\ FindNode(d, g, n).target # None =>
              FindNode(d, g, n).target \in OwnershipTargets
  BY <1>1 DEF OwnershipTargets
<1>4. \A d \in {document, staged} :
          FindNode(d, g, n) # None /\ FindNode(d, g, n).role \in BoundaryRoles =>
              g \in BoundaryGraphs
  <2> SUFFICES ASSUME NEW d \in {document, staged}, FindNode(d, g, n) # None,
                      FindNode(d, g, n).role \in BoundaryRoles
               PROVE  g \in BoundaryGraphs
    OBVIOUS
  <2>1. FindNode(d, g, n) \in CollectedNodes(document) \cup CollectedNodes(staged)
    BY <1>1
  <2>2. FindNode(d, g, n).graph = g
    BY DEF FindNode
  <2> QED
    BY <2>1, <2>2 DEF BoundaryGraphs
<1> QED
  BY <1>1, <1>2, <1>3, <1>4

\* A node that Accepted leaves unseen is the document's, or one that fits and is in step.
LEMMA NodesAreJudged ==
    ASSUME Inv, Accepted, NEW n \in Nodes, staged.nodes[n] # None
    PROVE  \/ NodeValid(staged, staged.nodes[n].graph, n)
           \/ document.nodes[n] = staged.nodes[n]
           \/ /\ ~Noted(staged.nodes[n].graph, n)
              /\ staged.nodes[n].graph \in touched.replaced =>
                     replaced[staged.nodes[n].graph].nodes[n] = staged.nodes[n]
<1> DEFINE v == staged.nodes[n]
           g == v.graph
<1>1. g \in Graphs
  BY DocumentIs, NodeIs DEF Inv, Typed
<1>2. FindNode(staged, g, n) = v
  BY DEF FindNode
<1> SUFFICES ASSUME document.nodes[n] # v
             PROVE  \/ NodeValid(staged, g, n)
                    \/ /\ ~Noted(g, n)
                       /\ g \in touched.replaced => replaced[g].nodes[n] = v
  OBVIOUS
<1>3. FindNode(document, g, n) # v
  BY DEF FindNode
<1>4. CASE Noted(g, n)
  <2>1. <<g, n>> \in ChangedNodes
    BY <1>2, <1>3, <1>4 DEF Noted, ChangedNodes
  <2>2. \A e \in ChangedNodes : NodeValid(staged, e[1], e[2])
    BY DEF Accepted
  <2>3. <<g, n>>[1] = g /\ <<g, n>>[2] = n
    OBVIOUS
  <2>4. NodeValid(staged, <<g, n>>[1], <<g, n>>[2])
    BY <2>1, <2>2
  <2> QED
    BY <2>3, <2>4
<1>5. CASE g \in touched.replaced /\ replaced[g].nodes[n] # v
  <2>1. Exists(staged, g)
    BY DEF Inv, Placed
  <2>2. Baseline(document, g).nodes[n] # Baseline(staged, g).nodes[n]
    BY <1>2, <1>3 DEF Baseline
  <2>3. g \in ChangedGraphs
    BY <1>1, <1>5, <2>2 DEF ChangedGraphs, Inv, Journal
  <2>4. g \in Replacements
    BY <1>5, <2>1, <2>3, <1>1 DEF Replacements
  <2>5. n \in Differing(replaced[g], g)
    BY <1>2, <1>5 DEF Differing
  <2>6. NodeValid(staged, g, n)
    BY <1>2, <2>4, <2>5 DEF Accepted, ReplacementValid
  <2> QED
    BY <2>6
<1> QED
  BY <1>4, <1>5

\* A channel is looked at when one of its ends has changed.
LEMMA CommittedChannels ==
    ASSUME Inv, Accepted
    PROVE  ValidChannels(staged)
<1> SUFFICES ASSUME NEW c \in Channels, staged.channels[c] # None, c \notin IntergraphLinks
             PROVE  Connected(staged, staged.channels[c].source, staged.channels[c].destination)
  <2>1. \A c \in Channels : c \in IntergraphLinks => ChannelValid(staged, c)
    BY DEF Accepted
  <2>2. \A n \in Nodes : \A c, k \in ChannelsOf(staged, n) : c = k
    BY DEF Inv, Unforked
  <2> QED
    BY <2>1, <2>2 DEF ValidChannels, ChannelValid
<1> DEFINE a == staged.channels[c].source
           b == staged.channels[c].destination
<1>1. document.channels[c] = staged.channels[c]
  BY DEF Inv, Journal, IntergraphLinks, ChangedChannels
<1>2. /\ a.graph \in Graphs /\ a.node \in Nodes /\ b.graph \in Graphs /\ b.node \in Nodes
  BY DocumentIs, ChannelIs DEF Inv, Typed
<1>3. Connected(document, a, b)
  BY <1>1 DEF Inv, ValidateStructure, ValidChannels, ChannelValid
<1>4. /\ Exists(document, a.graph) /\ Exists(document, b.graph)
      /\ Exists(staged, a.graph) /\ Exists(staged, b.graph)
  BY <1>1, ValidPlaces DEF Inv, Typed, ValidateStructure, Referring
<1>5. c \in ChannelsOf(staged, a.node) /\ c \in ChannelsOf(staged, b.node)
  BY DEF ChannelsOf
<1>6. FindNode(document, a.graph, a.node) = FindNode(staged, a.graph, a.node)
  BY <1>2, <1>4, <1>5, ChangedIsCollected, CollectedIsJudged
<1>7. FindNode(document, b.graph, b.node) = FindNode(staged, b.graph, b.node)
  BY <1>2, <1>4, <1>5, ChangedIsCollected, CollectedIsJudged
<1> QED
  BY <1>3, <1>6, <1>7 DEF Connected

\* Every call names a graph of the lifetime its ownership asks for.
LEMMA CommittedLifetimes ==
    ASSUME Inv, Accepted, NEW n \in Nodes, staged.nodes[n] # None, staged.nodes[n].target # None
    PROVE  LifetimeFits(staged, staged.nodes[n])
<1> DEFINE v == staged.nodes[n]
           g == v.graph
           t == v.target
<1>1. g \in Graphs /\ t \in Graphs /\ Exists(staged, g) /\ Exists(staged, t)
  BY DocumentIs, NodeIs DEF Inv, Typed, Placed, Referring
<1>2. CASE NodeValid(staged, g, n)
  <2>1. FindNode(staged, g, n) = v
    BY DEF FindNode
  <2> QED
    BY <1>1, <1>2, <2>1 DEF NodeValid, CallValid
<1>3. CASE document.nodes[n] = v
  <2>1. Exists(document, t) /\ LifetimeFits(document, v)
    BY <1>3 DEF Inv, ValidateStructure, ValidCalls, CallValid
  <2>2. staged.graphs[t].lifetime = document.graphs[t].lifetime
    BY <1>1, <2>1 DEF Inv, Journal
  <2> QED
    BY <2>1, <2>2 DEF LifetimeFits
<1>4. CASE ~Noted(g, n) /\ (g \in touched.replaced => replaced[g].nodes[n] = v)
  <2>1. CASE g \notin touched.replaced
    BY <1>4, <2>1 DEF Inv, Fits
  <2>2. CASE g \in touched.replaced
    BY <1>1, <1>4, <2>2 DEF Inv, Fits, Kept
  <2> QED
    BY <2>1, <2>2
<1> QED
  BY <1>2, <1>3, <1>4, NodesAreJudged

LEMMA CommittedOwners ==
    ASSUME Inv, Accepted
    PROVE  ValidOwners(staged)
<1> SUFFICES ASSUME NEW t \in Graphs, Exists(staged, t), t \notin OwnershipTargets, t \notin Added
             PROVE  OwnedOnce(staged, t)
  BY DEF Accepted, ValidOwners, OwnedOnce
<1>1. Exists(document, t)
  <2> SUFFICES ASSUME ~Exists(document, t) PROVE t \in Added
    OBVIOUS
  <2>1. t \in touched.graphs
    BY DEF Inv, Journal
  <2>2. Baseline(document, t).graph # Baseline(staged, t).graph
    BY DEF Baseline, Exists
  <2>3. t \in ChangedGraphs
    BY <2>1, <2>2 DEF ChangedGraphs
  <2> QED
    BY <2>3 DEF Added
<1>2. staged.graphs[t].lifetime = document.graphs[t].lifetime
  BY <1>1 DEF Inv, Journal
<1>3. /\ staged \in Documents /\ document \in Documents
      /\ \A n \in Nodes : staged.nodes[n] # None => staged.nodes[n] \in NodeValues
      /\ \A n \in Nodes : document.nodes[n] # None => document.nodes[n] \in NodeValues
      /\ None \notin Graphs
  BY DocumentIs, NoneAssumption DEF Inv, Typed
<1>4. \A n \in Nodes : Owns(staged.nodes[n], t) => staged.graphs[t].lifetime = "owned"
  BY <1>3, CommittedLifetimes DEF Owns, LifetimeFits
<1>5. OwnedOnce(document, t)
  BY DEF Inv, ValidateStructure, ValidOwners
<1>6. CASE staged.graphs[t].lifetime # "owned"
  <2>1. Owners(staged, t) = {}
    BY <1>3, <1>4, <1>6, OwnersAre
  <2> QED
    BY <1>6, <2>1 DEF OwnedOnce
<1>7. CASE staged.graphs[t].lifetime = "owned"
  <2>1. PICK m \in Nodes : Owners(document, t) = {m}
    BY <1>1, <1>2, <1>5, <1>7 DEF OwnedOnce
  <2>2. /\ Owns(document.nodes[m], t)
        /\ \A n \in Nodes : Owns(document.nodes[n], t) => n = m
    BY <1>3, <2>1, OwnersAre
  <2> DEFINE h == document.nodes[m].graph
  <2>3. /\ h \in Graphs /\ Exists(document, h)
        /\ FindNode(document, h, m) = document.nodes[m] /\ document.nodes[m] # None
    BY <1>3, <2>2, NodeIs, ValidPlaces DEF Owns, FindNode, Placed, Inv, ValidateStructure
  <2>4. Owns(staged.nodes[m], t)
    <3>1. CASE ~Exists(staged, h)
      <4>1. h \in touched.graphs
        BY <2>3, <3>1 DEF Inv, Journal
      <4>2. Baseline(document, h).graph # Baseline(staged, h).graph
        BY <2>3, <3>1 DEF Baseline, Exists
      <4>3. h \in Removed
        BY <2>3, <3>1, <4>1, <4>2 DEF Removed, ChangedGraphs
      <4>4. m \in NodesOf(document, h)
        BY <2>3 DEF NodesOf
      <4>5. document.nodes[m].target = t
        BY <2>2 DEF Owns
      <4>6. t \in OwnershipTargets
        BY <1>3, <4>3, <4>4, <4>5 DEF OwnershipTargets
      <4> QED
        BY <4>6
    <3>2. CASE Exists(staged, h)
      <4>1. FindNode(document, h, m).target = t /\ t # None
        BY <1>3, <2>2, <2>3 DEF Owns
      <4>2. FindNode(staged, h, m) = FindNode(document, h, m)
        BY <2>3, <3>2, <4>1, ChangedIsCollected, CollectedIsJudged
      <4>3. staged.nodes[m] = document.nodes[m]
        BY <2>3, <4>2 DEF FindNode
      <4> QED
        BY <2>2, <4>3
    <3> QED
      BY <3>1, <3>2
  <2>5. ASSUME NEW n \in Nodes, Owns(staged.nodes[n], t), n # m PROVE FALSE
    <3> DEFINE k == staged.nodes[n].graph
    <3>1. /\ k \in Graphs /\ Exists(staged, k)
          /\ FindNode(staged, k, n) = staged.nodes[n] /\ staged.nodes[n] # None
      BY <1>3, <2>5, NodeIs DEF Owns, FindNode, Placed, Inv
    <3>2. ~Owns(document.nodes[n], t)
      BY <2>2, <2>5
    <3>3. FindNode(document, k, n) # FindNode(staged, k, n)
      BY <2>5, <3>1, <3>2 DEF FindNode
    <3>4. <<k, n>> \in Collected
      <4>1. CASE Exists(document, k)
        BY <3>1, <3>3, <4>1, ChangedIsCollected
      <4>2. CASE ~Exists(document, k)
        <5>1. \/ Noted(k, n)
              \/ k \in touched.replaced /\ ~Owns(replaced[k].nodes[n], t)
          BY <1>1, <2>2, <2>4, <2>5, <4>2 DEF Inv, Excl
        <5>2. CASE Noted(k, n)
          <6>1. <<k, n>> \in ChangedNodes
            BY <3>3, <5>2 DEF Noted, ChangedNodes
          <6> QED
            BY <6>1 DEF Collected
        <5>3. CASE k \in touched.replaced /\ ~Owns(replaced[k].nodes[n], t)
          <6>1. Baseline(document, k).graph # Baseline(staged, k).graph
            BY <3>1, <4>2 DEF Baseline, Exists
          <6>2. k \in ChangedGraphs
            BY <5>3, <6>1 DEF ChangedGraphs, Inv, Journal
          <6>3. k \in Replacements
            BY <3>1, <5>3, <6>2 DEF Replacements
          <6>4. n \in Differing(replaced[k], k)
            BY <2>5, <3>1, <5>3 DEF Differing
          <6> QED
            BY <6>3, <6>4 DEF Collected
        <5> QED
          BY <5>1, <5>2, <5>3
      <4> QED
        BY <4>1, <4>2
    <3>5. FindNode(staged, k, n).target = t /\ t # None
      BY <1>3, <2>5, <3>1 DEF Owns
    <3>6. t \in OwnershipTargets
      BY <3>1, <3>4, <3>5, CollectedIsJudged
    <3> QED
      BY <3>6
  <2>6. Owners(staged, t) = {m}
    BY <1>3, <2>4, <2>5, OwnersAre
  <2> QED
    BY <1>7, <2>6 DEF OwnedOnce
<1> QED
  BY <1>6, <1>7

LEMMA CommittedCalls ==
    ASSUME Inv, Accepted
    PROVE  ValidCalls(staged)
<1> SUFFICES ASSUME NEW n \in Nodes, staged.nodes[n] # None
             PROVE  /\ Exists(staged, staged.nodes[n].graph)
                    /\ CallValid(staged, staged.nodes[n])
  BY DEF ValidCalls
<1> DEFINE v == staged.nodes[n]
<1>1. Exists(staged, v.graph)
  BY DEF Inv, Placed
<1>2. ASSUME v.target # None
      PROVE  /\ Exists(staged, v.target)
             /\ v.target # v.graph
             /\ LifetimeFits(staged, v)
             /\ OwnedOnce(staged, v.target)
  <2>1. staged \in Documents /\ v.graph \in Graphs /\ v.target \in Graphs
    BY <1>2, DocumentIs, NodeIs DEF Inv, Typed
  <2>2. Exists(staged, v.target)
    BY <1>2 DEF Inv, Referring
  <2>3. v.target \in DependsOn(staged, v.graph)
    BY <2>1, EdgeIs
  <2>4. v.graph \notin Reached(staged, v.target)
    BY <2>1, <2>3 DEF Inv, ValidDependencies
  <2>5. v.target # v.graph
    BY <2>1, <2>4, ReachedIs
  <2>6. LifetimeFits(staged, v)
    BY <1>2, CommittedLifetimes
  <2>7. OwnedOnce(staged, v.target)
    BY <2>1, CommittedOwners DEF ValidOwners
  <2> QED
    BY <2>2, <2>5, <2>6, <2>7
<1> QED
  BY <1>1, <1>2 DEF CallValid

\* A graph whose interface is not the document's is replaced, and looked at.
LEMMA ReinterfacedIsReplaced ==
    ASSUME Inv, NEW g \in Graphs, Exists(document, g), Exists(staged, g),
           staged.graphs[g].interface # document.graphs[g].interface
    PROVE  g \in Replacements /\ replaced[g].graph.interface # staged.graphs[g].interface
<1>1. g \in touched.replaced /\ g \in touched.graphs
  BY DEF Inv, Journal
<1>2. replaced[g] # None /\ replaced[g].graph = document.graphs[g]
  BY <1>1 DEF Inv, Kept, Journal
<1>3. Baseline(document, g).graph # Baseline(staged, g).graph
  BY DEF Baseline
<1>4. g \in ChangedGraphs
  BY <1>1, <1>3 DEF ChangedGraphs
<1> QED
  BY <1>1, <1>2, <1>4 DEF Replacements

LEMMA CommittedSync ==
    ASSUME Inv, Accepted, NEW n \in Nodes, staged.nodes[n] # None
    PROVE  InSync(staged, staged.nodes[n])
<1> DEFINE v == staged.nodes[n]
           g == v.graph
<1>1. g \in Graphs /\ Exists(staged, g) /\ v \in NodeValues /\ FindNode(staged, g, n) = v
  BY DocumentIs, NodeIs DEF Inv, Typed, Placed, FindNode
<1>2. CASE NodeValid(staged, g, n)
  BY <1>1, <1>2 DEF NodeValid
<1>3. CASE ~Noted(g, n)
  BY <1>3 DEF Inv, Synced
<1>4. CASE document.nodes[n] = v
  <2>1. InSync(document, v) /\ Exists(document, g)
    BY <1>4, ValidPlaces DEF Inv, Typed, ValidateStructure, ValidInterfaces, Placed
  <2>2. v.role = "subgraph" => v.pins = staged.graphs[v.target].interface
    <3> SUFFICES ASSUME v.role = "subgraph",
                        staged.graphs[v.target].interface # document.graphs[v.target].interface
                 PROVE  v.pins = staged.graphs[v.target].interface
      BY <2>1 DEF InSync
    <3>1. v.target # None /\ v.target \in Graphs
      BY <1>1, NodeIs
    <3>2. Exists(staged, v.target) /\ Exists(document, v.target)
      BY <1>4, <3>1 DEF Inv, Referring, ValidateStructure, ValidCalls, CallValid
    <3>3. /\ v.target \in Replacements
          /\ replaced[v.target].graph.interface # staged.graphs[v.target].interface
      BY <3>1, <3>2, ReinterfacedIsReplaced
    <3>4. n \in Callers(staged, v.target)
      BY DEF Callers
    <3>5. InSync(staged, v)
      BY <3>3, <3>4 DEF Accepted, ReplacementValid
    <3> QED
      BY <3>5 DEF InSync
  <2>3. v.role \in BoundaryRoles => v.pins = Projected(v.role, staged.graphs[g].interface)
    <3> SUFFICES ASSUME v.role \in BoundaryRoles,
                        staged.graphs[g].interface # document.graphs[g].interface
                 PROVE  v.pins = Projected(v.role, staged.graphs[g].interface)
      BY <2>1 DEF InSync
    <3>1. g \in BoundaryGraphs
      BY <1>1, <2>1, ReinterfacedIsReplaced DEF BoundaryGraphs
    <3>2. NodeValid(staged, g, n)
      <4>1. n \in NodesOf(staged, g)
        BY <1>1 DEF NodesOf
      <4> QED
        BY <1>1, <3>1, <4>1 DEF Accepted, BoundariesValid
    <3>3. InSync(staged, v)
      BY <1>1, <3>2 DEF NodeValid
    <3> QED
      BY <3>3 DEF InSync
  <2> QED
    BY <2>2, <2>3 DEF InSync
<1> QED
  BY <1>2, <1>3, <1>4, NodesAreJudged

LEMMA CommittedBounds ==
    ASSUME Inv, Accepted, NEW g \in Graphs, Exists(staged, g)
    PROVE  Bounded(staged, g)
<1> SUFFICES ASSUME g \notin BoundaryGraphs PROVE Bounded(staged, g)
  BY DEF Accepted, BoundariesValid
<1>1. g \notin Replacements
  BY DEF BoundaryGraphs
<1>2. CASE ~Exists(document, g)
  <2>1. g \notin touched.replaced
    <3> SUFFICES ASSUME g \in touched.replaced PROVE g \in Replacements
      BY <1>1
    <3>1. Baseline(document, g).graph # Baseline(staged, g).graph
      BY <1>2 DEF Baseline, Exists
    <3>2. g \in ChangedGraphs
      BY <3>1 DEF ChangedGraphs, Inv, Journal
    <3> QED
      BY <3>2 DEF Replacements
  <2>2. ASSUME NEW n \in NodesOf(staged, g), staged.nodes[n].role \in BoundaryRoles, Noted(g, n)
        PROVE  FALSE
    <3>1. n \in Nodes /\ FindNode(staged, g, n) = staged.nodes[n] /\ staged.nodes[n] # None
      BY DEF NodesOf, FindNode
    <3>2. FindNode(document, g, n) = None
      BY <1>2, <3>1, ValidPlaces DEF FindNode, Placed, Inv, Typed, ValidateStructure
    <3>3. <<g, n>> \in ChangedNodes
      BY <2>2, <3>1, <3>2 DEF ChangedNodes, Noted
    <3>4. <<g, n>> \in Collected
      BY <3>3 DEF Collected
    <3> QED
      BY <2>2, <3>1, <3>4, CollectedIsJudged
  <2> QED
    BY <1>2, <2>1, <2>2 DEF Inv, Synced
<1>3. CASE Exists(document, g)
  <2>1. Bounded(document, g)
    BY <1>3 DEF Inv, ValidateStructure, ValidInterfaces
  <2>2. staged.graphs[g].interface = document.graphs[g].interface
    BY <1>1, <1>3, ReinterfacedIsReplaced
  <2>3. ASSUME NEW n \in Nodes, NEW r \in BoundaryRoles
        PROVE  n \in NodesOf(staged, g) /\ staged.nodes[n].role = r
                   <=> n \in NodesOf(document, g) /\ document.nodes[n].role = r
    <3>1. CASE FindNode(document, g, n) = FindNode(staged, g, n)
      BY <3>1 DEF NodesOf, FindNode
    <3>2. CASE FindNode(document, g, n) # FindNode(staged, g, n)
      <4>1. <<g, n>> \in Collected
        BY <1>3, <3>2, ChangedIsCollected
      <4>2. /\ FindNode(document, g, n) # None => FindNode(document, g, n).role \notin BoundaryRoles
            /\ FindNode(staged, g, n) # None => FindNode(staged, g, n).role \notin BoundaryRoles
        BY <4>1, CollectedIsJudged
      <4> QED
        BY <4>2 DEF NodesOf, FindNode
    <3> QED
      BY <3>1, <3>2
  <2>4. /\ {n \in NodesOf(staged, g) : staged.nodes[n].role = "boundary_input"}
              = {n \in NodesOf(document, g) : document.nodes[n].role = "boundary_input"}
        /\ {n \in NodesOf(staged, g) : staged.nodes[n].role = "boundary_output"}
              = {n \in NodesOf(document, g) : document.nodes[n].role = "boundary_output"}
    BY <2>3 DEF BoundaryRoles, NodesOf
  <2> QED
    BY <2>1, <2>2, <2>4 DEF Bounded
<1> QED
  BY <1>2, <1>3

LEMMA CommittedPresentation ==
    ASSUME Inv, Accepted
    PROVE  ValidPresentation(staged)
<1> SUFFICES ASSUME NEW n \in staged.shown, staged.nodes[n] = None PROVE FALSE
  BY DEF ValidPresentation
<1>1. n \in Nodes
  BY DocumentIs DEF Inv, Typed
<1>2. CASE n \notin document.shown
  <2>1. n \in ChangedShown
    BY <1>1, <1>2 DEF Inv, ShownKept, ChangedShown
  <2> QED
    BY <2>1 DEF Accepted, PresentationKept
<1>3. CASE n \in document.shown
  <2> DEFINE h == document.nodes[n].graph
  <2>1. document.nodes[n] # None /\ h \in Graphs /\ Exists(document, h)
    BY <1>1, <1>3, DocumentIs, NodeIs, ValidPlaces
       DEF Inv, Typed, ValidateStructure, ValidPresentation, Placed
  <2>2. FindNode(document, h, n) # None /\ FindNode(staged, h, n) = None
    BY <2>1 DEF FindNode
  <2>3. CASE ~Exists(staged, h)
    <3>1. Baseline(document, h).graph # Baseline(staged, h).graph
      BY <2>1, <2>3 DEF Baseline, Exists
    <3>2. h \in Removed
      BY <2>1, <2>3, <3>1 DEF Removed, ChangedGraphs, Inv, Journal
    <3>3. n \in NodesOf(document, h)
      BY <1>1, <2>2 DEF NodesOf
    <3> QED
      BY <3>2, <3>3 DEF Accepted, PresentationKept
  <2>4. CASE Noted(h, n)
    <3>1. <<h, n>> \in ChangedNodes
      BY <2>2, <2>4 DEF Noted, ChangedNodes
    <3>2. <<h, n>>[1] = h /\ <<h, n>>[2] = n
      OBVIOUS
    <3>3. FindNode(staged, <<h, n>>[1], <<h, n>>[2]) = None => <<h, n>>[2] \notin staged.shown
      BY <3>1 DEF Accepted, PresentationKept
    <3> QED
      BY <2>2, <3>2, <3>3
  <2> QED
    BY <1>3, <2>3, <2>4 DEF Inv, ShownKept
<1> QED
  BY <1>2, <1>3

\* What Commit accepts is valid.
LEMMA CommittedIsValid ==
    ASSUME Inv, Accepted
    PROVE  ValidateStructure(staged)
<1>1. ValidRoot(staged) /\ ValidDependencies(staged)
  BY DEF Inv
<1>2. ValidInterfaces(staged)
  BY CommittedSync, CommittedBounds DEF ValidInterfaces
<1> QED
  BY <1>1, <1>2, CommittedOwners, CommittedCalls, CommittedChannels, CommittedPresentation
     DEF ValidateStructure

-----------------------------------------------------------------------------
(* The invariant holds                                                     *)

LEMMA InitInv ==
    ASSUME Init
    PROVE  Inv
<1>1. PICK root \in Graphs :
          /\ document =
              [root |-> root,
               graphs |-> [g \in Graphs |->
                  IF g = root THEN [lifetime |-> "reusable", interface |-> 0] ELSE None],
               nodes |-> [n \in Nodes |-> None],
               channels |-> [c \in Channels |-> None],
               shown |-> {}]
          /\ staged = document
          /\ touched = Untouched
          /\ replaced = [g \in Graphs |-> None]
          /\ mutations = 0
  BY DEF Init
<1>2. /\ document \in Documents
      /\ document.root = root /\ document.graphs[root] \in GraphValues
      /\ document.graphs[root].lifetime = "reusable" /\ document.graphs[root].interface = 0
      /\ \A g \in Graphs \ {root} : document.graphs[g] = None
      /\ \A n \in Nodes : document.nodes[n] = None
      /\ \A c \in Channels : document.channels[c] = None
      /\ document.shown = {}
  BY <1>1 DEF Documents, GraphValues
<1>3. Exists(document, root) /\ \A g \in Graphs \ {root} : ~Exists(document, g)
  BY <1>2, GraphIs DEF Exists
<1>4. ValidRoot(document)
  BY <1>2, <1>3 DEF ValidRoot
<1>5. ValidOwners(document)
  BY <1>2, <1>3 DEF ValidOwners, OwnedOnce, Owners, Callers
<1>6. ValidCalls(document) /\ ValidPresentation(document)
  BY <1>2 DEF ValidCalls, ValidPresentation
<1>7. ValidDependencies(document)
  <2>1. \A g \in Graphs : DependsOn(document, g) = {}
    BY <1>2, EdgeIs
  <2> QED
    BY <2>1 DEF ValidDependencies
<1>8. ValidInterfaces(document)
  <2>1. \A g \in Graphs : NodesOf(document, g) = {}
    BY <1>2 DEF NodesOf, FindNode
  <2> QED
    BY <1>2, <1>3, <2>1 DEF ValidInterfaces, Bounded
<1>9. ValidChannels(document)
  BY <1>2 DEF ValidChannels, ChannelValid, ChannelsOf
<1>10. ValidateStructure(document)
  BY <1>4, <1>5, <1>6, <1>7, <1>8, <1>9 DEF ValidateStructure
<1> QED
  BY <1>1, <1>2, <1>10, Begins

LEMMA MutateKeepsInv ==
    ASSUME Inv, Liberties = {}, Mutate
    PROVE  Inv'
<1>1. ASSUME NEW g \in Graphs, SetRootGraph(g) PROVE Inv'
  BY <1>1, SetRootGraphKeeps
<1>2. ASSUME NEW g \in Graphs, NEW value \in GraphValues, NEW members \in Bodies[g],
             AddGraph(g, value, members)
      PROVE  Inv'
  BY <1>2, AddGraphWell, AddsKeep
<1>3. ASSUME NEW g \in Graphs, RemoveGraph(g) PROVE Inv'
  BY <1>3, RemoveGraphRemoves, RemovesKeep DEF Inv
<1>4. ASSUME NEW g \in Graphs, NEW value \in GraphValues, NEW n \in Nodes,
             NEW v \in NodesFor[g] \cup {None}, ReplaceGraph(g, value, n, v)
      PROVE  Inv'
  <2>1. ReplacesWell({g})
    BY <1>4, ReplaceGraphWell
  <2> QED
    BY <2>1, ReplacesKeep
<1>5. ASSUME NEW g \in Graphs, NEW interface \in {0, 1}, NEW input \in Nodes, NEW output \in Nodes,
             SetGraphInterface(g, interface, input, output)
      PROVE  Inv'
  BY <1>5, SetGraphInterfaceWell, ReplacesKeep
<1>6. ASSUME NEW g \in Graphs, RejectedReplacement(g) PROVE Inv'
  BY <1>6, RejectedReplacementKeeps
<1>7. ASSUME NEW n \in Nodes, NEW g \in Graphs, NEW v \in NodesFor[g], AddNode(n, v) PROVE Inv'
  <2>1. v \in NodeValues /\ EditsWell(g, n, v)
    BY <1>7, AddNodeWell
  <2> QED
    BY <2>1, EditsKeep
<1>8. ASSUME NEW n \in Nodes, RemoveNode(n) PROVE Inv'
  <2>1. staged.nodes[n].graph \in Graphs /\ EditsWell(staged.nodes[n].graph, n, None)
    BY <1>8, RemoveNodeWell
  <2> QED
    BY <2>1, EditsKeep
<1>9. ASSUME NEW n \in Nodes, NEW pins \in {0, 1}, SetPins(n, pins) PROVE Inv'
  <2>1. /\ staged.nodes[n].graph \in Graphs
        /\ [staged.nodes[n] EXCEPT !.pins = pins] \in NodeValues
        /\ EditsWell(staged.nodes[n].graph, n, [staged.nodes[n] EXCEPT !.pins = pins])
    BY <1>9, SetPinsWell
  <2> QED
    BY <2>1, EditsKeep
<1>10. ASSUME NEW n \in Nodes, NEW target \in Graphs \cup {None},
              NEW ownership \in {"owned", "referenced", None},
              target # None <=> ownership # None, SetNodeSubgraph(n, target, ownership)
       PROVE  Inv'
  <2>1. /\ staged.nodes[n].graph \in Graphs
        /\ Rebound(staged.nodes[n], target, ownership) \in NodeValues
        /\ EditsWell(staged.nodes[n].graph, n, Rebound(staged.nodes[n], target, ownership))
    BY <1>10, SetNodeSubgraphWell
  <2> QED
    BY <2>1, EditsKeep
<1>11. ASSUME NEW n \in Nodes, SetNodePresentation(n) PROVE Inv'
  BY <1>11, SetNodePresentationKeeps
<1>12. ASSUME NEW c \in Channels, NEW source \in Endpoints, NEW destination \in Endpoints,
              AddIntergraphLink(c, source, destination)
       PROVE  Inv'
  BY <1>12, AddIntergraphLinkKeeps
<1>13. ASSUME NEW c \in Channels, RemoveIntergraphLink(c) PROVE Inv'
  BY <1>13, RemoveIntergraphLinkKeeps
<1>14. ASSUME NEW g \in Graphs,
              \/ SetRootGraph(g)
              \/ ~Exists(staged, g) /\ \E value \in GraphValues, members \in Bodies[g] :
                      AddGraph(g, value, members)
              \/ RemoveGraph(g)
              \/ Exists(staged, g) /\
                     \E value \in GraphValues, n \in Nodes, v \in NodesFor[g] \cup {None} :
                      ReplaceGraph(g, value, n, v)
              \/ \E interface \in {0, 1}, input, output \in Nodes :
                      SetGraphInterface(g, interface, input, output)
              \/ RejectedReplacement(g)
       PROVE  Inv'
  BY <1>1, <1>2, <1>3, <1>4, <1>5, <1>6, <1>14
<1>15. ASSUME NEW n \in Nodes,
              \/ staged.nodes[n] = None /\ \E g \in Graphs : \E v \in NodesFor[g] : AddNode(n, v)
              \/ RemoveNode(n)
              \/ \E pins \in {0, 1} : SetPins(n, pins)
              \/ \E target \in Graphs, ownership \in {"owned", "referenced"} :
                      SetNodeSubgraph(n, target, ownership)
              \/ SetNodeSubgraph(n, None, None)
              \/ SetNodePresentation(n)
       PROVE  Inv'
  <2>1. ASSUME NEW target \in Graphs, NEW ownership \in {"owned", "referenced"},
               SetNodeSubgraph(n, target, ownership)
        PROVE  Inv'
    BY <1>10, <2>1, NoneAssumption
  <2>2. ASSUME SetNodeSubgraph(n, None, None) PROVE Inv'
    BY <1>10, <2>2
  <2> QED
    BY <1>7, <1>8, <1>9, <1>11, <1>15, <2>1, <2>2
<1> QED
  BY <1>12, <1>13, <1>14, <1>15 DEF Mutate

LEMMA NextKeepsInv ==
    ASSUME Inv, Liberties = {}, [Next]_vars
    PROVE  Inv'
<1>1. ASSUME Mutate PROVE Inv'
  BY <1>1, MutateKeepsInv
<1>2. ASSUME Commit PROVE Inv'
  <2>1. Accepted /\ End(staged) /\ staged \in Documents
    BY <1>2 DEF Commit, Inv, Typed
  <2>2. ValidateStructure(staged)
    BY <2>1, CommittedIsValid
  <2> QED
    BY <2>1, <2>2, EndKeeps
<1>3. ASSUME Discard PROVE Inv'
  <2>1. End(document) /\ document \in Documents /\ ValidateStructure(document)
    BY <1>3 DEF Discard, Inv, Typed
  <2> QED
    BY <2>1, EndKeeps
<1>4. CASE UNCHANGED vars
  BY <1>4 DEF vars, Inv, Typed, Kept, Journal, Seen, NoMoves, ShownKept, Fits, Excl, Synced, Noted
<1> QED
  BY <1>1, <1>2, <1>3, <1>4 DEF Next

\* The strengthening that a transaction in the profile keeps up from its first
\* mutation to its last, and that Commit turns into a valid document.
THEOREM TransactionsKeepInv ==
    ASSUME Liberties = {}
    PROVE  Spec => []Inv
<1>1. Init => Inv
  BY InitInv
<1>2. Inv /\ [Next]_vars => Inv'
  BY NextKeepsInv
<1> QED
  BY <1>1, <1>2, PTL DEF Spec

\* The state stays of its type, and no presentation is committed of a node that
\* is not there.
THEOREM TypeCorrect ==
    ASSUME Liberties = {}
    PROVE  Spec => []TypeOK
<1>1. Inv => TypeOK
  BY DEF Inv, Typed, TypeOK, ValidateStructure, ValidPresentation
<1> QED
  BY <1>1, TransactionsKeepInv, PTL

\* What Commit looks at keeps one owner to every owned graph, none to the others,
\* and every call to the lifetime it asks for.
THEOREM OwnersStayMatched ==
    ASSUME Liberties = {}
    PROVE  Spec => []OwnersMatchLifetimes
<1>1. Inv => OwnersMatchLifetimes
  BY DEF Inv, ValidateStructure, OwnersMatchLifetimes
<1> QED
  BY <1>1, TransactionsKeepInv, PTL

\* What Commit looks at keeps the pins of call sites and boundary nodes in step
\* with the interfaces, and the boundary nodes of every graph together.
THEOREM InterfacesStayInSync ==
    ASSUME Liberties = {}
    PROVE  Spec => []InterfacesInSync
<1>1. Inv => InterfacesInSync
  BY DEF Inv, ValidateStructure, InterfacesInSync
<1> QED
  BY <1>1, TransactionsKeepInv, PTL

\* What Commit looks at keeps the channels on the pins of proxy nodes, and what the
\* mutators look at keeps the dependencies of graphs free of cycles.
THEOREM ChannelsStaySound ==
    ASSUME Liberties = {}
    PROVE  Spec => []ChannelsSound
<1>1. Inv => ChannelsSound
  BY DEF Inv, ValidateStructure, ChannelsSound
<1> QED
  BY <1>1, TransactionsKeepInv, PTL

-----------------------------------------------------------------------------
(* Nothing else is refused                                                 *)


\* What the mutators keep up whatever commands make of them.
Resting == Based /\ Placed(document)

LEMMA InitRests ==
    ASSUME Init
    PROVE  Resting
<1>1. Typed /\ Placed(document) /\ staged = document /\ Kept
  <2>1. Inv
    BY InitInv
  <2>2. staged = document
    BY DEF Init
  <2> QED
    BY <2>1, <2>2 DEF Inv
<1> QED
  BY <1>1 DEF Resting, Based

LEMMA StageRests ==
    ASSUME Placed(document), Based', document' = document
    PROVE  Resting'
BY DEF Resting, Placed, Exists

LEMMA MutateRests ==
    ASSUME Resting, Mutate
    PROVE  Resting'
<1> Typed /\ Placed(staged) /\ Placed(document) /\ Based
  BY DEF Resting, Based
<1>1. ASSUME NEW g \in Graphs, SetRootGraph(g) PROVE Resting'
  <2>1. Spares
    BY <1>1, SetRootGraphSpares
  <2> QED
    BY <2>1, SparesKeepBased, StageRests DEF Spares
<1>2. ASSUME NEW g \in Graphs, NEW value \in GraphValues, NEW members \in Bodies[g],
             AddGraph(g, value, members)
      PROVE  Resting'
  <2>1. Adds(g, value, members)
    BY <1>2, AddGraphAdds
  <2> QED
    BY <2>1, AddsKeepBased, StageRests DEF Adds
<1>3. ASSUME NEW g \in Graphs, RemoveGraph(g) PROVE Resting'
  <2>1. Removes(g)
    BY <1>3, RemoveGraphRemoves
  <2> QED
    BY <2>1, RemovesKeepBased, StageRests DEF Removes
<1>4. ASSUME NEW H \in SUBSET Graphs, Replaces(H) PROVE Resting'
  BY <1>4, ReplacesKeepBased, StageRests DEF Replaces
<1>5. ASSUME NEW g \in Graphs, NEW value \in GraphValues, NEW n \in Nodes,
             NEW v \in NodesFor[g] \cup {None}, ReplaceGraph(g, value, n, v)
      PROVE  Resting'
  <2>1. Replaces({g})
    BY <1>5, ReplaceGraphReplaces
  <2> QED
    BY <2>1, <1>4
<1>6. ASSUME NEW g \in Graphs, NEW interface \in {0, 1}, NEW input \in Nodes, NEW output \in Nodes,
             SetGraphInterface(g, interface, input, output)
      PROVE  Resting'
  <2>1. \E H \in SUBSET Graphs : Replaces(H)
    BY <1>6, SetGraphInterfaceReplaces
  <2> QED
    BY <2>1, <1>4
<1>7. ASSUME NEW g \in Graphs, RejectedReplacement(g) PROVE Resting'
  <2>1. document' = document
    BY <1>7, StageIs DEF RejectedReplacement
  <2> QED
    BY <1>7, <2>1, RejectedReplacementKeepsBased, StageRests
<1>8. ASSUME NEW g \in Graphs, NEW n \in Nodes, NEW v \in NodeValues \cup {None}, Edits(g, n, v)
      PROVE  Resting'
  BY <1>8, EditsKeepBased, StageRests DEF Edits
<1>9. ASSUME NEW n \in Nodes, NEW g \in Graphs, NEW v \in NodesFor[g], AddNode(n, v)
      PROVE  Resting'
  <2>1. v \in NodeValues /\ Edits(g, n, v)
    BY <1>9, AddNodeEdits
  <2> QED
    BY <2>1, <1>8
<1>10. ASSUME NEW n \in Nodes, RemoveNode(n) PROVE Resting'
  <2>1. staged.nodes[n].graph \in Graphs /\ Edits(staged.nodes[n].graph, n, None)
    BY <1>10, RemoveNodeEdits
  <2> QED
    BY <2>1, <1>8
<1>11. ASSUME NEW n \in Nodes, NEW pins \in {0, 1}, SetPins(n, pins) PROVE Resting'
  <2>1. /\ staged.nodes[n].graph \in Graphs
        /\ [staged.nodes[n] EXCEPT !.pins = pins] \in NodeValues
        /\ Edits(staged.nodes[n].graph, n, [staged.nodes[n] EXCEPT !.pins = pins])
    BY <1>11, SetPinsEdits
  <2> QED
    BY <2>1, <1>8
<1>12. ASSUME NEW n \in Nodes, NEW target \in Graphs \cup {None},
              NEW ownership \in {"owned", "referenced", None},
              target # None <=> ownership # None, SetNodeSubgraph(n, target, ownership)
       PROVE  Resting'
  <2>1. /\ staged.nodes[n].graph \in Graphs
        /\ Rebound(staged.nodes[n], target, ownership) \in NodeValues
        /\ Edits(staged.nodes[n].graph, n, Rebound(staged.nodes[n], target, ownership))
    BY <1>12, SetNodeSubgraphEdits
  <2> QED
    BY <2>1, <1>8
<1>13. ASSUME NEW n \in Nodes, SetNodePresentation(n) PROVE Resting'
  <2>1. Spares
    BY <1>13, SetNodePresentationSpares
  <2> QED
    BY <2>1, SparesKeepBased, StageRests DEF Spares
<1>14. ASSUME NEW c \in Channels, NEW source \in Endpoints, NEW destination \in Endpoints,
              AddIntergraphLink(c, source, destination)
       PROVE  Resting'
  <2>1. Spares
    BY <1>14, AddIntergraphLinkSpares
  <2> QED
    BY <2>1, SparesKeepBased, StageRests DEF Spares
<1>15. ASSUME NEW c \in Channels, RemoveIntergraphLink(c) PROVE Resting'
  <2>1. Spares
    BY <1>15, RemoveIntergraphLinkSpares
  <2> QED
    BY <2>1, SparesKeepBased, StageRests DEF Spares
<1>16. ASSUME NEW g \in Graphs,
              \/ SetRootGraph(g)
              \/ ~Exists(staged, g) /\ \E value \in GraphValues, members \in Bodies[g] :
                      AddGraph(g, value, members)
              \/ RemoveGraph(g)
              \/ Exists(staged, g) /\
                     \E value \in GraphValues, n \in Nodes, v \in NodesFor[g] \cup {None} :
                      ReplaceGraph(g, value, n, v)
              \/ \E interface \in {0, 1}, input, output \in Nodes :
                      SetGraphInterface(g, interface, input, output)
              \/ RejectedReplacement(g)
       PROVE  Resting'
  BY <1>1, <1>2, <1>3, <1>5, <1>6, <1>7, <1>16
<1>17. ASSUME NEW n \in Nodes,
              \/ staged.nodes[n] = None /\ \E g \in Graphs : \E v \in NodesFor[g] : AddNode(n, v)
              \/ RemoveNode(n)
              \/ \E pins \in {0, 1} : SetPins(n, pins)
              \/ \E target \in Graphs, ownership \in {"owned", "referenced"} :
                      SetNodeSubgraph(n, target, ownership)
              \/ SetNodeSubgraph(n, None, None)
              \/ SetNodePresentation(n)
       PROVE  Resting'
  <2>1. ASSUME NEW target \in Graphs, NEW ownership \in {"owned", "referenced"},
               SetNodeSubgraph(n, target, ownership)
        PROVE  Resting'
    BY <1>12, <2>1, NoneAssumption
  <2>2. ASSUME SetNodeSubgraph(n, None, None) PROVE Resting'
    BY <1>12, <2>2
  <2> QED
    BY <1>9, <1>10, <1>11, <1>13, <1>17, <2>1, <2>2
<1> QED
  BY <1>14, <1>15, <1>16, <1>17 DEF Mutate

LEMMA EndRests ==
    ASSUME NEW d \in Documents, Placed(d), End(d)
    PROVE  Resting'
<1>1. /\ touched' \in [graphs : SUBSET Graphs, nodes : SUBSET (Graphs \X Nodes),
                       channels : SUBSET Channels, shown : SUBSET Nodes,
                       replaced : SUBSET Graphs]
      /\ touched'.replaced = {}
      /\ \A g \in Graphs : replaced'[g] = None
      /\ document' = d /\ staged' = d
  BY DEF End, Untouched
<1>2. Typed'
  BY <1>1, GraphHierarchyAssumption DEF Typed, End
<1>3. Kept'
  BY <1>1 DEF Kept
<1>4. Placed(document)' /\ Placed(staged)'
  BY <1>1 DEF Placed, Exists
<1> QED
  BY <1>2, <1>3, <1>4 DEF Resting, Based

LEMMA NextRests ==
    ASSUME Resting, [Next]_vars
    PROVE  Resting'
<1>1. ASSUME Mutate PROVE Resting'
  BY <1>1, MutateRests
<1>2. ASSUME Commit PROVE Resting'
  BY <1>2, EndRests DEF Commit, Resting, Based, Typed
<1>3. ASSUME Discard PROVE Resting'
  BY <1>3, EndRests DEF Discard, Resting, Based, Typed
<1>4. CASE UNCHANGED vars
  BY <1>4 DEF vars, Resting, Based, Typed, Placed, Exists, Kept
<1> QED
  BY <1>1, <1>2, <1>3, <1>4 DEF Next

\* A node whose identifier the journal ties to a graph lies there or nowhere.
LEMMA StaysOrGoes ==
    ASSUME Resting, ~Moved, NEW g \in Graphs, NEW n \in Nodes, FindNode(staged, g, n) = None,
           \/ FindNode(document, g, n) # None
           \/ replaced[g] # None /\ replaced[g].nodes[n] # None
    PROVE  staged.nodes[n] = None
<1> SUFFICES ASSUME staged.nodes[n] # None PROVE FALSE
  OBVIOUS
<1>1. staged.nodes[n].graph # g
  BY DEF FindNode
<1>2. CASE FindNode(document, g, n) # None
  <2>1. document.nodes[n] # None /\ document.nodes[n].graph = g
    BY <1>2 DEF FindNode
  <2> QED
    BY <1>1, <2>1 DEF Moved
<1>3. CASE replaced[g] # None /\ replaced[g].nodes[n] # None
  <2>1. replaced[g].nodes[n].graph = g
    BY <1>3 DEF Resting, Based, Kept
  <2>2. replaced[g].nodes[n] \in
            {replaced[h].nodes[n] : h \in {k \in Graphs : replaced[k] # None}}
    BY <1>3
  <2> QED
    BY <1>1, <1>3, <2>1, <2>2 DEF Moved
<1> QED
  BY <1>2, <1>3

LEMMA ValidIsAccepted ==
    ASSUME Resting, ValidateStructure(staged), ~Moved
    PROVE  Accepted
<1>1. /\ document \in Documents /\ staged \in Documents
      /\ touched.nodes \subseteq Graphs \X Nodes /\ touched.channels \subseteq Channels
      /\ touched.shown \subseteq Nodes /\ touched.graphs \subseteq Graphs
      /\ touched.replaced \subseteq Graphs
      /\ Placed(staged)
  BY DEF Resting, Based, Typed
<1>2. \A g \in Graphs, n \in Nodes : NodeValid(staged, g, n)
  <2> SUFFICES ASSUME NEW g \in Graphs, NEW n \in Nodes, FindNode(staged, g, n) # None
               PROVE  /\ \A c \in ChannelsOf(staged, n) : ChannelValid(staged, c)
                      /\ CallValid(staged, FindNode(staged, g, n))
                      /\ InSync(staged, FindNode(staged, g, n))
    BY DEF NodeValid
  <2>1. staged.nodes[n] # None /\ FindNode(staged, g, n) = staged.nodes[n]
    BY DEF FindNode
  <2>2. \A c \in ChannelsOf(staged, n) : ChannelValid(staged, c)
    BY DEF ValidateStructure, ValidChannels, ChannelsOf
  <2>3. CallValid(staged, staged.nodes[n])
    BY <2>1 DEF ValidateStructure, ValidCalls
  <2>4. InSync(staged, staged.nodes[n])
    BY <2>1 DEF ValidateStructure, ValidInterfaces
  <2> QED
    BY <2>1, <2>2, <2>3, <2>4
<1>3. \A g \in Graphs : OwnedOnce(staged, g)
  BY DEF ValidateStructure, ValidOwners
<1>4. \A g \in Graphs : BoundariesValid(staged, g)
  BY <1>2 DEF ValidateStructure, ValidInterfaces, BoundariesValid, NodesOf
<1>5. \A c \in Channels : ChannelValid(staged, c)
  BY DEF ValidateStructure, ValidChannels
<1>6. Replacements \subseteq Graphs
  BY <1>1 DEF Replacements
<1>7. Collected \subseteq Graphs \X Nodes
  BY <1>1, <1>6 DEF Collected, ChangedNodes, Differing
<1>8. \A e \in Graphs \X Nodes : e[1] \in Graphs /\ e[2] \in Nodes
  OBVIOUS
<1>9. \A d \in {document, staged} : CollectedNodes(d) \subseteq NodeValues
  <2> SUFFICES ASSUME NEW d \in {document, staged}, NEW e \in Collected,
                      FindNode(d, e[1], e[2]) # None
               PROVE  FindNode(d, e[1], e[2]) \in NodeValues
    BY DEF CollectedNodes
  <2>1. e[2] \in Nodes /\ d \in Documents
    BY <1>1, <1>7, <1>8
  <2> QED
    BY <2>1, DocumentIs DEF FindNode
<1>10. PresentationKept
  <2>1. \A n \in ChangedShown : n \in staged.shown => staged.nodes[n] # None
    BY DEF ValidateStructure, ValidPresentation
  <2>2. ASSUME NEW e \in ChangedNodes, FindNode(staged, e[1], e[2]) = None
        PROVE  e[2] \notin staged.shown
    <3>1. e[1] \in Graphs /\ e[2] \in Nodes /\ FindNode(document, e[1], e[2]) # None
      BY <1>1, <1>8, <2>2 DEF ChangedNodes
    <3>2. staged.nodes[e[2]] = None
      BY <2>2, <3>1, StaysOrGoes
    <3> QED
      BY <3>2 DEF ValidateStructure, ValidPresentation
  <2>3. ASSUME NEW g \in Removed, NEW n \in NodesOf(document, g) PROVE n \notin staged.shown
    <3>1. /\ g \in Graphs /\ n \in Nodes /\ ~Exists(staged, g)
          /\ FindNode(document, g, n) # None
      BY <1>1 DEF Removed, ChangedGraphs, NodesOf
    <3>2. FindNode(staged, g, n) = None
      BY <1>1, <3>1 DEF FindNode, Placed
    <3>3. staged.nodes[n] = None
      BY <3>1, <3>2, StaysOrGoes
    <3> QED
      BY <3>3 DEF ValidateStructure, ValidPresentation
  <2> QED
    BY <2>1, <2>2, <2>3 DEF PresentationKept
<1>11. ASSUME NEW g \in Replacements PROVE ReplacementValid(replaced[g], g)
  <2>1. g \in Graphs /\ Exists(staged, g) /\ replaced[g] # None
    BY <1>6 DEF Replacements, Resting, Based, Kept
  <2>2. ASSUME NEW n \in Differing(replaced[g], g), FindNode(staged, g, n) = None
        PROVE  staged.nodes[n] = None
    <3>1. n \in Nodes /\ replaced[g].nodes[n] # None
      BY <2>2 DEF Differing
    <3> QED
      BY <2>1, <2>2, <3>1, StaysOrGoes
  <2>3. \A n \in Differing(replaced[g], g) : NodeValid(staged, g, n)
    BY <1>2, <2>1 DEF Differing
  <2>4. Bounded(staged, g)
    BY <2>1 DEF ValidateStructure, ValidInterfaces
  <2>5. \A n \in Callers(staged, g) : InSync(staged, staged.nodes[n])
    BY DEF ValidateStructure, ValidInterfaces, Callers
  <2> QED
    BY <1>3, <2>1, <2>2, <2>3, <2>4, <2>5 DEF ReplacementValid
<1>12. \A e \in ChangedNodes : NodeValid(staged, e[1], e[2])
  BY <1>1, <1>2, <1>8 DEF ChangedNodes
<1>13. Added \subseteq Graphs
  BY <1>1 DEF Added, ChangedGraphs
<1>14. OwnershipTargets \subseteq Graphs
  <2>1. \A v \in CollectedNodes(document) \cup CollectedNodes(staged) :
            v.target \in Graphs \cup {None}
    BY <1>9, NodeIs
  <2>2. \A g \in Removed : \A n \in NodesOf(document, g) :
            document.nodes[n].target \in Graphs \cup {None}
    <3>1. \A n \in Nodes : document.nodes[n] # None =>
              document.nodes[n].target \in Graphs \cup {None}
      BY <1>1, DocumentIs, NodeIs
    <3> QED
      BY <3>1 DEF NodesOf, FindNode
  <2> QED
    BY <2>1, <2>2 DEF OwnershipTargets
<1>15. BoundaryGraphs \subseteq Graphs
  BY <1>6, <1>9, NodeIs DEF BoundaryGraphs
<1>16. IntergraphLinks \subseteq Channels
  BY <1>1 DEF IntergraphLinks, ChangedChannels, ChannelsOf
<1> QED
  BY <1>3, <1>4, <1>5, <1>10, <1>11, <1>12, <1>13, <1>14, <1>15, <1>16 DEF Accepted

\* Commit refuses no document that ValidateStructure would accept, whatever the
\* commands make of the mutators: baselines and journals that are stale, or wider
\* than the change, reject no edit, unless a node has moved to another graph.
THEOREM NothingElseIsRefused == Spec => []OnlyInvalidIsRefused
<1>1. Init => Resting
  BY InitRests
<1>2. Resting /\ [Next]_vars => Resting'
  BY NextRests
<1>3. Resting => OnlyInvalidIsRefused
  BY ValidIsAccepted DEF OnlyInvalidIsRefused
<1> QED
  BY <1>1, <1>2, <1>3, PTL DEF Spec
=============================================================================
