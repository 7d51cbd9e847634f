--------------------------- MODULE ElementDocument ---------------------------
(***************************************************************************)
(* The nodes, pins, links, groups and route points of one graph and what   *)
(* the two objects that keep them do (GraphDocument in ui_nodes_graph.cpp, *)
(* GraphPresentation in ui_nodes_presentation.cpp).                        *)
(*                                                                         *)
(* A pin is its node and its key.  Geometry, names and styles are values   *)
(* of Looks; the route of a link is a function from its points to their    *)
(* places.  A mutator gives the document it leads to, or None when it      *)
(* refuses.  Each one checks only what it changes.                         *)
(***************************************************************************)
EXTENDS Naturals, Sequences, FiniteSets, SequencesExt

CONSTANTS Nodes, Links, Groups, Points,
          DynamicKeys,   \* the keys of pins that are added one by one
          None

Looks == {0, 1}
Keys == {"in", "out"} \cup DynamicKeys
Pins == Nodes \X Keys
PinTypes == {"data", "text"}
SchemaNames == {"wide", "narrow", "text", "convert"}

PinValues == [direction : {"in", "out"}, type : PinTypes, single : BOOLEAN,
              storage : {"static", "dynamic"}, read_only : BOOLEAN]
NodeValues == [pins : Seq(Pins), schema : SchemaNames, name : Looks, read_only : BOOLEAN]
LinkValues == [output : Pins, input : Pins, read_only : BOOLEAN]
NodeStates == [look : Looks, locked : BOOLEAN]
Routes == UNION {[points -> Looks] : points \in SUBSET Points}
LinkStates == [style : Looks, locked : BOOLEAN, route : Routes]
GroupValues == [members : SUBSET Nodes, look : Looks, locked : BOOLEAN]

Docs == [read_only : BOOLEAN,
         nodes : [Nodes -> NodeValues \cup {None}],
         pins : [Pins -> PinValues \cup {None}],
         links : [Links -> LinkValues \cup {None}],
         node_states : [Nodes -> NodeStates \cup {None}],
         link_states : [Links -> LinkStates \cup {None}],
         groups : [Groups -> GroupValues \cup {None}]]

ASSUME ElementDocumentAssumption ==
    /\ IsFiniteSet(Nodes) /\ IsFiniteSet(Links) /\ IsFiniteSet(Groups)
    /\ DynamicKeys \cap {"in", "out"} = {}
    /\ None \notin NodeValues \cup PinValues \cup LinkValues \cup NodeStates
                    \cup LinkStates \cup GroupValues \cup Links \cup Docs

When(condition, result) == IF condition THEN result ELSE None

\* The static pins a node resolves to, in their order.
StaticPin(direction, type, single) ==
    [direction |-> direction, type |-> type, single |-> single,
     storage |-> "static", read_only |-> FALSE]
ResolvePinSchema(schema) ==
    CASE schema = "wide" ->
            [order |-> <<"in", "out">>,
             pins |-> [in |-> StaticPin("in", "data", FALSE),
                       out |-> StaticPin("out", "data", FALSE)]]
      [] schema = "narrow" ->
            [order |-> <<"in">>, pins |-> [in |-> StaticPin("in", "data", TRUE)]]
      [] schema = "convert" ->
            [order |-> <<"in", "out">>,
             pins |-> [in |-> StaticPin("in", "data", FALSE),
                       out |-> StaticPin("out", "text", FALSE)]]
      [] schema = "text" ->
            [order |-> <<"in", "out">>,
             pins |-> [in |-> StaticPin("in", "text", FALSE),
                       out |-> StaticPin("out", "data", FALSE)]]

\* RegistrySnapshot::Check: a conversion node leads from data to text.
Check(output, input) ==
    CASE output = input -> "allowed"
      [] output = "data" /\ input = "text" -> "conversion"
      [] OTHER -> "rejected"

-----------------------------------------------------------------------------
(* What the indexes of a document answer                                   *)

IncidentLinks(d, p) ==
    {l \in Links : d.links[l] # None /\ p \in {d.links[l].output, d.links[l].input}}

FindLinkBetween(d, output, input) ==
    {l \in Links : /\ d.links[l] # None
                   /\ d.links[l].output = output /\ d.links[l].input = input}

LinksOfNode(d, n) ==
    UNION {IncidentLinks(d, p) : p \in ToSet(d.nodes[n].pins)}

RoutePointOwner(d, point) ==
    {l \in Links : d.link_states[l] # None /\ point \in DOMAIN d.link_states[l].route}

GroupsForNode(d, n) == {g \in Groups : d.groups[g] # None /\ n \in d.groups[g].members}

-----------------------------------------------------------------------------
(* GraphDocument                                                           *)

InsertNode(d, n, node, pins) ==
    When(/\ d.nodes[n] = None
         /\ \A p \in DOMAIN pins : d.pins[p] = None,
         [d EXCEPT !.nodes[n] = node,
                   !.pins = [p \in Pins |-> IF p \in DOMAIN pins THEN pins[p] ELSE @[p]]])

\* A node goes with its pins and their links.
EraseNode(d, n) ==
    LET pins == ToSet(d.nodes[n].pins)
        links == LinksOfNode(d, n)
    IN When(d.nodes[n] # None,
            [d EXCEPT !.nodes[n] = None,
                      !.pins = [p \in Pins |-> IF p \in pins THEN None ELSE @[p]],
                      !.links = [l \in Links |-> IF l \in links THEN None ELSE @[l]]])

InsertPin(d, p, pin, index) ==
    When(/\ d.nodes[p[1]] # None
         /\ index \in 1..Len(d.nodes[p[1]].pins) + 1
         /\ d.pins[p] = None,
         [d EXCEPT !.pins[p] = pin, !.nodes[p[1]].pins = InsertAt(@, index, p)])

ErasePin(d, p) ==
    LET links == IncidentLinks(d, p) IN
    When(d.pins[p] # None /\ d.pins[p].storage = "dynamic",
         [d EXCEPT !.pins[p] = None,
                   !.nodes[p[1]].pins = RemoveAt(@, CHOOSE i \in DOMAIN @ : @[i] = p),
                   !.links = [l \in Links |-> IF l \in links THEN None ELSE @[l]]])

ReplacePin(d, p, pin) ==
    When(/\ d.pins[p] # None
         /\ d.pins[p].storage = "dynamic" /\ pin.storage = "dynamic"
         /\ [d.pins[p] EXCEPT !.read_only = pin.read_only] # pin => IncidentLinks(d, p) = {},
         [d EXCEPT !.pins[p] = pin])

\* A permutation that leaves the static pins where they are.
OrderPins(d, n, order) ==
    LET pins == d.nodes[n].pins IN
    When(/\ d.nodes[n] # None
         /\ Len(order) = Len(pins) /\ ToSet(order) = ToSet(pins)
         /\ \A i \in DOMAIN pins : d.pins[pins[i]].storage = "static" => order[i] = pins[i],
         [d EXCEPT !.nodes[n].pins = order])

\* The static pins of a node, in its order.
StaticAmong(pins, values) ==
    LET static[i \in 0..Len(pins)] ==
            IF i = 0 THEN <<>>
            ELSE IF values[pins[i]].storage = "dynamic" THEN static[i - 1]
            ELSE Append(static[i - 1], pins[i])
    IN static
StaticOrder(d, n) == StaticAmong(d.nodes[n].pins, d.pins)[Len(d.nodes[n].pins)]

\* The projected pins take the places of the static ones, in turn; those that
\* find no place come last.
PlacedAmong(pins, values, order) ==
    LET placed[i \in 0..Len(pins)] ==
            IF i = 0 THEN [order |-> <<>>, next |-> 1]
            ELSE LET before == placed[i - 1] IN
                 IF values[pins[i]].storage = "dynamic"
                 THEN [order |-> Append(before.order, pins[i]), next |-> before.next]
                 ELSE IF before.next > Len(order) THEN before
                 ELSE [order |-> Append(before.order, order[before.next]),
                       next |-> before.next + 1]
    IN placed
ProjectedOrder(d, n, order) ==
    LET pins == d.nodes[n].pins
        placed == PlacedAmong(pins, d.pins, order)[Len(pins)]
    IN placed.order \o SubSeq(order, placed.next, Len(order))

ProjectPins(d, n, projected) ==
    LET before == ToSet(StaticOrder(d, n))
        after == DOMAIN projected.pins
    IN When(\A p \in before \ after : IncidentLinks(d, p) = {},
            [d EXCEPT !.nodes[n].pins = ProjectedOrder(d, n, projected.order),
                      !.pins = [p \in Pins |-> IF p \in after THEN projected.pins[p]
                                               ELSE IF p \in before THEN None ELSE @[p]]])

\* The structure of a link; its types are for the transaction to check.
InsertLink(d, l, link) ==
    When(/\ d.links[l] = None
         /\ link.output # link.input
         /\ d.pins[link.output] # None /\ d.pins[link.input] # None
         /\ d.pins[link.output].direction = "out"
         /\ d.pins[link.input].direction = "in"
         /\ FindLinkBetween(d, link.output, link.input) = {}
         /\ d.pins[link.output].single => IncidentLinks(d, link.output) = {}
         /\ d.pins[link.input].single => IncidentLinks(d, link.input) = {},
         [d EXCEPT !.links[l] = link])

EraseLink(d, l) == When(d.links[l] # None, [d EXCEPT !.links[l] = None])

WriteProperty(d, n, schema) == When(d.nodes[n] # None, [d EXCEPT !.nodes[n].schema = schema])

WriteName(d, n, name) == When(d.nodes[n] # None, [d EXCEPT !.nodes[n].name = name])

\* SetNodeReadOnly, SetPinReadOnly and SetLinkReadOnly: part is what they set.
WriteReadOnly(d, part, id, flag) ==
    When(d[part][id] # None, [d EXCEPT ![part][id].read_only = flag])

-----------------------------------------------------------------------------
(* GraphPresentation                                                       *)

EmptyRoute == [point \in {} |-> 0]
DefaultLinkState == [style |-> 0, locked |-> FALSE, route |-> EmptyRoute]
LinkStateOr(d, l) == IF d.link_states[l] = None THEN DefaultLinkState ELSE d.link_states[l]

\* EmptyLinkPresentation: a state with nothing in it is not kept.
Kept(state) ==
    IF state.style = 0 /\ ~state.locked /\ DOMAIN state.route = {} THEN None ELSE state

ShowNode(d, n, state) == [d EXCEPT !.node_states[n] = state]

\* A route point is in the route of one link.
ShowLink(d, l, state) ==
    When(\A point \in IF state = None THEN {} ELSE DOMAIN state.route :
            RoutePointOwner(d, point) \subseteq {l},
         [d EXCEPT !.link_states[l] = state])

StyleLink(d, l, style) ==
    [d EXCEPT !.link_states[l] = Kept([LinkStateOr(d, l) EXCEPT !.style = style])]

LockLink(d, l, locked) ==
    When(d.link_states[l] # None, [d EXCEPT !.link_states[l] = Kept([@ EXCEPT !.locked = locked])])

RouteLink(d, l, route) == ShowLink(d, l, Kept([LinkStateOr(d, l) EXCEPT !.route = route]))

InsertPoint(d, l, point) ==
    LET route == LinkStateOr(d, l).route IN
    When(RoutePointOwner(d, point) = {},
         [d EXCEPT !.link_states[l] =
             [LinkStateOr(d, l) EXCEPT !.route = [p \in DOMAIN route \cup {point} |->
                                                     IF p = point THEN 0 ELSE route[p]]]])

MovePoint(d, l, point, place) ==
    When(point \in DOMAIN LinkStateOr(d, l).route,
         [d EXCEPT !.link_states[l].route[point] = place])

ErasePoints(d, l, points) ==
    LET route == LinkStateOr(d, l).route IN
    When(points \subseteq DOMAIN route,
         [d EXCEPT !.link_states[l] =
             Kept([@ EXCEPT !.route = [p \in DOMAIN route \ points |-> route[p]]])])

InsertGroup(d, g, group) == When(d.groups[g] = None, [d EXCEPT !.groups[g] = group])

EraseGroup(d, g) == When(d.groups[g] # None, [d EXCEPT !.groups[g] = None])

\* SetGroupPosition, Size, Collapsed, ZOrder and Style.
DressGroup(d, g, look) == When(d.groups[g] # None, [d EXCEPT !.groups[g].look = look])

WriteMembers(d, g, members) == When(d.groups[g] # None, [d EXCEPT !.groups[g].members = members])

InsertMembers(d, g, members) == When(d.groups[g] # None, [d EXCEPT !.groups[g].members = @ \cup members])

EraseMembers(d, g, members) == When(d.groups[g] # None, [d EXCEPT !.groups[g].members = @ \ members])

LockGroup(d, g, locked) == When(d.groups[g] # None, [d EXCEPT !.groups[g].locked = locked])

-----------------------------------------------------------------------------
(* What the library calls a valid document                                 *)

\* GraphDocument::ValidateStructure of one graph.
ValidStructure(d) ==
    /\ \A p \in Pins :
          d.pins[p] # None <=> d.nodes[p[1]] # None /\ p \in ToSet(d.nodes[p[1]].pins)
    /\ \A n \in Nodes : d.nodes[n] # None =>
          /\ IsInjective(d.nodes[n].pins)
          /\ \A p \in ToSet(d.nodes[n].pins) : p[1] = n
    /\ \A l \in Links : d.links[l] # None =>
          LET link == d.links[l] IN
          /\ d.pins[link.output] # None /\ d.pins[link.input] # None
          /\ d.pins[link.output].direction = "out" /\ d.pins[link.input].direction = "in"
          /\ FindLinkBetween(d, link.output, link.input) = {l}
    /\ \A p \in Pins :
          d.pins[p] # None /\ d.pins[p].single =>
              \A l, m \in IncidentLinks(d, p) : l = m

\* The static pins of a node are those that its property resolves to, in order.
MatchesDescriptor(d, n) ==
    LET schema == ResolvePinSchema(d.nodes[n].schema) IN
    /\ StaticOrder(d, n) = [i \in DOMAIN schema.order |-> <<n, schema.order[i]>>]
    /\ \A p \in ToSet(StaticOrder(d, n)) :
          [d.pins[p] EXCEPT !.read_only = FALSE] = schema.pins[p[2]]

ValidTypes(d) ==
    \A l \in Links : d.links[l] # None =>
        Check(d.pins[d.links[l].output].type, d.pins[d.links[l].input].type) = "allowed"

\* ValidateGraph: what the registry says of the nodes and links as well.
ValidGraph(d) ==
    /\ ValidStructure(d)
    /\ \A n \in Nodes : d.nodes[n] # None => MatchesDescriptor(d, n)
    /\ ValidTypes(d)

\* ValidatePresentationMaps.
ValidPresentation(d) ==
    /\ \A n \in Nodes : d.node_states[n] # None => d.nodes[n] # None
    /\ \A l \in Links : d.link_states[l] # None => d.links[l] # None
    /\ \A point \in Points : \A l, m \in RoutePointOwner(d, point) : l = m
    /\ \A g \in Groups : d.groups[g] # None =>
          \A n \in d.groups[g].members : d.nodes[n] # None
=============================================================================
