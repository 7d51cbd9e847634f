------------------------- MODULE ElementTransaction -------------------------
(***************************************************************************)
(* The operations of a GraphTransaction on the elements of one graph       *)
(* (transaction_semantic.cpp, transaction_presentation.cpp,                *)
(* transaction_protection.cpp): what protects an element, and the mutator  *)
(* of ElementDocument that is called when nothing does.                    *)
(*                                                                         *)
(* A transaction is the document it began with, the one it has staged and  *)
(* whether it enforces protection; None is one that was refused, of which  *)
(* nothing is committed.  Operations are composed with Then.               *)
(***************************************************************************)
EXTENDS ElementDocument

Transactions == [base : Docs, now : Docs, enforce : BOOLEAN]

ASSUME ElementTransactionAssumption == None \notin Transactions

Begin(d, enforce) == [base |-> d, now |-> d, enforce |-> enforce]

Then(t, Op(_)) == IF t = None THEN None ELSE Op(t)
Stage(t, d) == IF d = None THEN None ELSE [t EXCEPT !.now = d]
ForEach(t, Op(_, _), elements) ==
    FoldSet(LAMBDA e, acc : Then(acc, LAMBDA x : Op(x, e)), t, elements)

\* What was protected when the transaction began or is protected now.
Flagged(t, part, id, flag) ==
    /\ t.enforce
    /\ \E d \in {t.base, t.now} : d[part][id] # None /\ d[part][id][flag]

GraphReadOnly(t) == t.enforce /\ (t.base.read_only \/ t.now.read_only)
NodeReadOnly(t, n) == Flagged(t, "nodes", n, "read_only")
PinReadOnly(t, p) == Flagged(t, "pins", p, "read_only")
LinkReadOnly(t, l) == Flagged(t, "links", l, "read_only")
NodeLocked(t, n) == Flagged(t, "node_states", n, "locked")
LinkLocked(t, l) == Flagged(t, "link_states", l, "locked")
GroupLocked(t, g) == Flagged(t, "groups", g, "locked")
EndpointReadOnly(t, p) == PinReadOnly(t, p) \/ NodeReadOnly(t, p[1])

CheckLinkAlone(t, l) == t.now.links[l] # None /\ ~GraphReadOnly(t) /\ ~LinkReadOnly(t, l)

CheckLinkRemoval(t, l) ==
    /\ t.now.links[l] # None
    /\ ~GraphReadOnly(t)
    /\ ~LinkReadOnly(t, l)
    /\ ~EndpointReadOnly(t, t.now.links[l].output)
    /\ ~EndpointReadOnly(t, t.now.links[l].input)

\* ValidateConnection, with the link that it replaces or None.
ValidateConnection(t, output, input, replacing) ==
    LET d == t.now
        others(p) == IncidentLinks(d, p) \ {replacing}
    IN IF /\ ~GraphReadOnly(t)
          /\ d.pins[output] # None /\ d.pins[input] # None
          /\ d.pins[output].direction = "out" /\ d.pins[input].direction = "in"
          /\ ~EndpointReadOnly(t, output) /\ ~EndpointReadOnly(t, input)
          /\ replacing # None =>
                /\ CheckLinkRemoval(t, replacing)
                /\ ~LinkLocked(t, replacing)
                /\ \/ d.links[replacing].output = output
                   \/ d.links[replacing].input = input
          /\ FindLinkBetween(d, output, input) \subseteq {replacing}
          /\ d.pins[output].single => others(output) = {}
          /\ d.pins[input].single => others(input) = {}
       THEN Check(d.pins[output].type, d.pins[input].type)
       ELSE "rejected"

AuthorizeConnection(t, output, input, replacing) ==
    t.enforce => ValidateConnection(t, output, input, replacing) = "allowed"

AddPlannedLink(t, l, link) ==
    When(/\ t.now.pins[link.output] # None /\ t.now.pins[link.input] # None
         /\ Check(t.now.pins[link.output].type, t.now.pins[link.input].type) = "allowed",
         Stage(t, InsertLink(t.now, l, link)))

RemovePlannedLink(t, l) == Stage(t, EraseLink(t.now, l))

AddLink(t, l, link) ==
    When(AuthorizeConnection(t, link.output, link.input, None),
         Stage(t, InsertLink(t.now, l, link)))

RemoveLink(t, l) ==
    When(t.enforce => CheckLinkRemoval(t, l), Stage(t, EraseLink(t.now, l)))

\* A node comes with its pins; a creation of the library comes with those of
\* its schema (ValidateNodeCreationSchema), a snapshot with those it had.
AddNode(t, n, node, pins) ==
    When(~GraphReadOnly(t), Stage(t, InsertNode(t.now, n, node, pins)))

RemoveNode(t, n) ==
    When(/\ t.now.nodes[n] # None
         /\ ~GraphReadOnly(t) /\ ~NodeReadOnly(t, n)
         /\ \A p \in ToSet(t.now.nodes[n].pins) : ~PinReadOnly(t, p)
         /\ t.enforce => \A l \in LinksOfNode(t.now, n) : CheckLinkRemoval(t, l),
         Stage(t, EraseNode(t.now, n)))

AddDynamicPin(t, p, pin, index) ==
    When(~GraphReadOnly(t) /\ ~NodeReadOnly(t, p[1]), Stage(t, InsertPin(t.now, p, pin, index)))

RemoveDynamicPin(t, p) ==
    When(/\ t.now.pins[p] # None
         /\ ~GraphReadOnly(t) /\ ~EndpointReadOnly(t, p)
         /\ t.enforce => \A l \in IncidentLinks(t.now, p) : CheckLinkRemoval(t, l),
         Stage(t, ErasePin(t.now, p)))

UpdateDynamicPin(t, p, pin) ==
    When(/\ t.now.pins[p] # None
         /\ ~GraphReadOnly(t) /\ ~EndpointReadOnly(t, p)
         /\ t.enforce => t.now.pins[p].read_only = pin.read_only,
         Stage(t, ReplacePin(t.now, p, pin)))

ReorderDynamicPins(t, n, order) ==
    When(/\ t.now.nodes[n] # None
         /\ ~GraphReadOnly(t) /\ ~NodeReadOnly(t, n)
         /\ \A p \in ToSet(t.now.nodes[n].pins) : ~PinReadOnly(t, p),
         Stage(t, OrderPins(t.now, n, order)))

\* The projection of a schema onto a node; a retained pin keeps its protection.
PlanDescriptorPins(d, n, schema) ==
    LET order == [i \in DOMAIN schema.order |-> <<n, schema.order[i]>>] IN
    [order |-> order,
     pins |-> [p \in ToSet(order) |->
                  IF d.pins[p] = None THEN schema.pins[p[2]]
                  ELSE [schema.pins[p[2]] EXCEPT !.read_only = d.pins[p].read_only]]]

SetDescriptorPins(t, n, projected) ==
    LET d == t.now
        before == ToSet(StaticOrder(d, n))
        after == DOMAIN projected.pins
    IN When(/\ ~GraphReadOnly(t) /\ ~NodeReadOnly(t, n)
            /\ \A p \in before \ after : ~PinReadOnly(t, p)
            /\ \A p \in before \cap after :
                  t.enforce => \/ projected.pins[p] = d.pins[p]
                               \/ ~d.pins[p].read_only /\ ~projected.pins[p].read_only,
            Stage(t, ProjectPins(d, n, projected)))

SetNodeProperty(t, n, schema) ==
    IF t.now.nodes[n].schema = schema THEN t
    ELSE When(~GraphReadOnly(t) /\ ~NodeReadOnly(t, n), Stage(t, WriteProperty(t.now, n, schema)))

SetNodeDisplayName(t, n, name) ==
    IF t.now.nodes[n] # None /\ t.now.nodes[n].name = name THEN t
    ELSE When(~GraphReadOnly(t) /\ ~NodeReadOnly(t, n), Stage(t, WriteName(t.now, n, name)))

-----------------------------------------------------------------------------
(* Presentation                                                            *)

SetNodePresentation(t, n, state) ==
    LET d == t.now IN
    IF state = d.node_states[n] THEN t
    ELSE When(/\ state # None => d.nodes[n] # None
              /\ ~GraphReadOnly(t)
              /\ ~NodeLocked(t, n)
              /\ t.enforce /\ state # None /\ d.node_states[n] # None =>
                    state.locked = d.node_states[n].locked,
              Stage(t, ShowNode(d, n, state)))

SetLinkPresentation(t, l, state) ==
    LET d == t.now IN
    IF state = d.link_states[l] THEN t
    ELSE When(/\ state # None => d.links[l] # None
              /\ ~GraphReadOnly(t)
              /\ ~LinkLocked(t, l)
              /\ t.enforce /\ state # None /\ d.link_states[l] # None =>
                    state.locked = d.link_states[l].locked,
              Stage(t, ShowLink(d, l, state)))

LinkMayChange(t, l) == t.now.links[l] # None /\ ~GraphReadOnly(t) /\ ~LinkLocked(t, l)

\* SetLinkRouter and SetLinkColor.
SetLinkStyle(t, l, style) ==
    IF t.now.links[l] # None /\ LinkStateOr(t.now, l).style = style THEN t
    ELSE When(LinkMayChange(t, l), Stage(t, StyleLink(t.now, l, style)))

SetLinkRoute(t, l, route) ==
    IF t.now.links[l] # None /\ LinkStateOr(t.now, l).route = route THEN t
    ELSE When(LinkMayChange(t, l), Stage(t, RouteLink(t.now, l, route)))

InsertRoutePoint(t, l, point) ==
    When(LinkMayChange(t, l), Stage(t, InsertPoint(t.now, l, point)))

MoveRoutePoint(t, l, point, place) ==
    LET route == LinkStateOr(t.now, l).route IN
    IF point \in DOMAIN route /\ route[point] = place THEN t
    ELSE When(LinkMayChange(t, l), Stage(t, MovePoint(t.now, l, point, place)))

RemoveRoutePoints(t, l, points) ==
    IF points = {} THEN t
    ELSE When(LinkMayChange(t, l), Stage(t, ErasePoints(t.now, l, points)))

GroupMayChange(t, g) == t.now.groups[g] # None /\ ~GraphReadOnly(t) /\ ~GroupLocked(t, g)

AddGroup(t, g, group) ==
    When(/\ \A n \in group.members : t.now.nodes[n] # None
         /\ ~GraphReadOnly(t),
         Stage(t, InsertGroup(t.now, g, group)))

RemoveGroup(t, g) == When(GroupMayChange(t, g), Stage(t, EraseGroup(t.now, g)))

\* SetGroupPosition, SetGroupSize, SetGroupCollapsed, SetGroupZOrder, SetGroupStyle.
SetGroupLook(t, g, look) ==
    IF t.now.groups[g] # None /\ t.now.groups[g].look = look THEN t
    ELSE When(GroupMayChange(t, g), Stage(t, DressGroup(t.now, g, look)))

SetGroupMembers(t, g, members) ==
    IF t.now.groups[g] # None /\ t.now.groups[g].members = members THEN t
    ELSE When(/\ \A n \in members : t.now.nodes[n] # None
              /\ GroupMayChange(t, g),
              Stage(t, WriteMembers(t.now, g, members)))

AddGroupMembers(t, g, members) ==
    IF t.now.groups[g] # None /\ members \subseteq t.now.groups[g].members THEN t
    ELSE When(/\ \A n \in members : t.now.nodes[n] # None
              /\ GroupMayChange(t, g),
              Stage(t, InsertMembers(t.now, g, members)))

RemoveGroupMembers(t, g, members) ==
    IF t.now.groups[g] # None /\ members \cap t.now.groups[g].members = {} THEN t
    ELSE When(GroupMayChange(t, g), Stage(t, EraseMembers(t.now, g, members)))

-----------------------------------------------------------------------------
(* Protection                                                              *)

\* A read-only graph can be released.
SetGraphReadOnly(t, flag) == Stage(t, [t.now EXCEPT !.read_only = flag])

SetReadOnly(t, part, id, flag) ==
    IF t.now[part][id] # None /\ t.now[part][id].read_only = flag THEN t
    ELSE When(~GraphReadOnly(t), Stage(t, WriteReadOnly(t.now, part, id, flag)))

SetNodeReadOnly(t, n, flag) == SetReadOnly(t, "nodes", n, flag)
SetPinReadOnly(t, p, flag) ==
    IF t.now.pins[p] # None /\ t.now.pins[p].read_only = flag THEN t
    ELSE When(~NodeReadOnly(t, p[1]), SetReadOnly(t, "pins", p, flag))
SetLinkReadOnly(t, l, flag) == SetReadOnly(t, "links", l, flag)

SetNodeLocked(t, n, flag) ==
    LET state == t.now.node_states[n] IN
    IF state = None THEN None
    ELSE IF state.locked = flag THEN t
    ELSE When(~GraphReadOnly(t), Stage(t, ShowNode(t.now, n, [state EXCEPT !.locked = flag])))

SetLinkLocked(t, l, flag) ==
    IF t.now.link_states[l] # None /\ t.now.link_states[l].locked = flag THEN t
    ELSE When(~GraphReadOnly(t), Stage(t, LockLink(t.now, l, flag)))

SetGroupLocked(t, g, flag) ==
    IF t.now.groups[g] # None /\ t.now.groups[g].locked = flag THEN t
    ELSE When(~GraphReadOnly(t), Stage(t, LockGroup(t.now, g, flag)))

-----------------------------------------------------------------------------
(* Commit                                                                  *)

\* The nodes that a transaction changed, or a pin of which it changed.
TouchedNodes(base, d) ==
    {n \in Nodes : d.nodes[n] # base.nodes[n]} \cup
    {p[1] : p \in {q \in Pins : d.pins[q] # base.pins[q]}}

\* ValidateNodeRelations, of the pins of a node.
NodeRelationsHold(d, n) ==
    /\ \A p \in ToSet(d.nodes[n].pins) : d.pins[p] # None /\ p[1] = n
    /\ IsInjective(d.nodes[n].pins)

\* Only what it changed is looked at: nothing is shown or grouped without its
\* element, and no node has lost a pin.
Accepted(base, d) ==
    /\ \A n \in Nodes : d.node_states[n] \notin {None, base.node_states[n]} => d.nodes[n] # None
    /\ \A l \in Links : d.link_states[l] \notin {None, base.link_states[l]} => d.links[l] # None
    /\ \A n \in TouchedNodes(base, d) :
          IF d.nodes[n] # None THEN NodeRelationsHold(d, n)
          ELSE d.node_states[n] = None /\ GroupsForNode(d, n) = {}
    /\ \A l \in Links : d.links[l] = None /\ base.links[l] # None => d.link_states[l] = None

Committed(base, t) == IF t # None /\ Accepted(base, t.now) THEN t.now ELSE None
=============================================================================
