---------------------------- MODULE GraphElements ----------------------------
(***************************************************************************)
(* The elements of one graph, edited by the commands of the library and    *)
(* taken back by them (nodes/commands/node.cpp, link.cpp, pin.cpp,         *)
(* group.cpp, protection.cpp).                                             *)
(*                                                                         *)
(* A command keeps what its Revert needs, taken at its first Apply, and    *)
(* only that: it never keeps a document.  The module asks whether what it  *)
(* keeps is enough, whatever was executed around it.                       *)
(***************************************************************************)
EXTENDS ElementTransaction

CONSTANTS Behind,        \* whether a dynamic pin may come after the static ones
          Schemas,       \* the property values that resolve a node's pins
          Imported,      \* the documents a session starts from
          Features,      \* the kinds of commands that are executed
          MaxCommands    \* bound: commands of the history, the undone ones included,
                   \* beyond which none is executed

ASSUME GraphElementsAssumption ==
    /\ Schemas \subseteq {"wide", "narrow", "text"}     \* property values
    /\ Features \subseteq {"nodes", "pins", "links", "routes", "groups",
                         "protection"}
    /\ Behind \in BOOLEAN
    /\ MaxCommands \in Nat

\* What can be opened: a valid document, whose pins that are not static have
\* the keys of those that are added one by one.  Where pins are only added
\* before a static one, a node with two static pins ends with one.
Openable(d) ==
    /\ d \in Docs /\ ValidGraph(d) /\ ValidPresentation(d)
    /\ \A p \in Pins :
          d.pins[p] # None /\ d.pins[p].storage = "dynamic" => p[2] \in DynamicKeys
StaticLast(d) ==
    \A n \in Nodes :
        d.nodes[n] # None /\ d.nodes[n].schema # "narrow" =>
            d.pins[Last(d.nodes[n].pins)].storage = "static"

ASSUME ImportedAssumption ==
    \A d \in Imported : Openable(d) /\ (~Behind => StaticLast(d))

VARIABLES
    doc,        \* the committed document and presentation
    done,       \* CommandStack: executed commands, the latest last
    undone,     \* CommandStack: undone commands, the next to redo first
    trail       \* the documents the history has gone through (history variable)

elementVars == <<doc, done, undone, trail>>

-----------------------------------------------------------------------------
(* Commands: what each keeps at its first Apply, what it does and what its *)
(* Revert does                                                             *)

ShowLinks(t, states) ==
    ForEach(t, LAMBDA x, l : SetLinkPresentation(x, l, states[l]), DOMAIN states)
ShowNodes(t, states) ==
    ForEach(t, LAMBDA x, n : SetNodePresentation(x, n, states[n]), DOMAIN states)
ClearLinks(t, links) == ShowLinks(t, [l \in links |-> None])
ClearNodes(t, nodes) == ShowNodes(t, [n \in nodes |-> None])
AddLinks(t, links) == ForEach(t, LAMBDA x, l : AddLink(x, l, links[l].link), DOMAIN links)
RemoveLinks(t, links) == ForEach(t, RemoveLink, links)
RestoreLinks(t, links) ==
    Then(AddLinks(t, links),
         LAMBDA x : ShowLinks(x, [l \in DOMAIN links |-> links[l].state]))
Snapshot(d, links) == [l \in links |-> [link |-> d.links[l], state |-> d.link_states[l]]]

ResolvedPins(n, schema) ==
    LET pins == ResolvePinSchema(schema) IN
    [p \in {<<n, key>> : key \in ToSet(pins.order)} |-> pins.pins[p[2]]]
NodeOf(n, schema) ==
    [pins |-> [i \in DOMAIN ResolvePinSchema(schema).order |->
                  <<n, ResolvePinSchema(schema).order[i]>>],
     schema |-> schema, name |-> 0, read_only |-> FALSE]
NewNodeState == [look |-> 0, locked |-> FALSE]

ApplyAddNode(t, c) ==
    Then(AddNode(t, c.node, NodeOf(c.node, c.schema), ResolvedPins(c.node, c.schema)),
         LAMBDA x : SetNodePresentation(x, c.node, NewNodeState))
RevertAddNode(t, c) ==
    LET links == LinksOfNode(t.now, c.node) IN
    Then(Then(RemoveNode(t, c.node), LAMBDA x : ClearLinks(x, links)),
         LAMBDA x : ClearNodes(x, {c.node}))

CaptureDelete(d, c) ==
    [nodes |-> [n \in c.nodes |->
                  [node |-> d.nodes[n], state |-> d.node_states[n],
                   pins |-> [p \in ToSet(d.nodes[n].pins) |-> d.pins[p]]]],
     links |-> Snapshot(d, c.links \cup UNION {LinksOfNode(d, n) : n \in c.nodes}),
     groups |-> [g \in UNION {GroupsForNode(d, n) : n \in c.nodes} |-> d.groups[g].members]]
AddNodes(t, nodes) ==
    ForEach(t, LAMBDA x, n : AddNode(x, n, nodes[n].node, nodes[n].pins), DOMAIN nodes)
RemoveNodes(t, nodes) == ForEach(t, RemoveNode, nodes)
Ungroup(t, nodes, groups) ==
    ForEach(t, LAMBDA x, g : RemoveGroupMembers(x, g, nodes), groups)
Regroup(t, groups) == ForEach(t, LAMBDA x, g : SetGroupMembers(x, g, groups[g]), DOMAIN groups)
ApplyDelete(t, c, saved) ==
    LET links == DOMAIN saved.links
        ungrouped == Ungroup(t, c.nodes, DOMAIN saved.groups)
        unlinked == Then(ungrouped, LAMBDA x : RemoveLinks(x, links))
        removed == Then(unlinked, LAMBDA x : RemoveNodes(x, c.nodes))
    IN Then(Then(removed, LAMBDA x : ClearLinks(x, links)), LAMBDA x : ClearNodes(x, c.nodes))
RevertDelete(t, c, saved) ==
    LET added == AddNodes(t, saved.nodes)
        linked == Then(added, LAMBDA x : AddLinks(x, saved.links))
        shown == Then(linked, LAMBDA x :
            ShowNodes(x, [n \in DOMAIN saved.nodes |-> saved.nodes[n].state]))
        dressed == Then(shown, LAMBDA x :
            ShowLinks(x, [l \in DOMAIN saved.links |-> saved.links[l].state]))
    IN Then(dressed, LAMBDA x : Regroup(x, saved.groups))

LocalLinkPresent(d, pins, gone, l) ==
    \A p \in {d.links[l].output, d.links[l].input} : p \in DOMAIN pins \/ p \notin gone

\* A local link that the projected pins would no longer allow.
LocalLinkValid(d, pins, gone, l) ==
    LET resolved(p) ==
            IF p \in DOMAIN pins THEN pins[p] ELSE IF p \in gone THEN None ELSE d.pins[p]
        output == resolved(d.links[l].output)
        input == resolved(d.links[l].input)
    IN /\ output # None /\ input # None
       /\ output.direction = "out" /\ input.direction = "in"
       /\ output.single => IncidentLinks(d, d.links[l].output) = {l}
       /\ input.single => IncidentLinks(d, d.links[l].input) = {l}
       /\ Check(output.type, input.type) = "allowed"

CaptureProperty(d, c) ==
    LET before == StaticOrder(d, c.node)
        after == PlanDescriptorPins(d, c.node, ResolvePinSchema(c.schema))
        changed == {p \in ToSet(before) : p \in DOMAIN after.pins => after.pins[p] # d.pins[p]}
        broken == {l \in UNION {IncidentLinks(d, p) : p \in changed} :
                     ~LocalLinkValid(d, after.pins, ToSet(before), l)}
    IN [schema |-> d.nodes[c.node].schema,
        before |-> [order |-> before, pins |-> [p \in ToSet(before) |-> d.pins[p]]],
        after |-> after,
        links |-> Snapshot(d, broken)]
Unlink(t, l) == Then(SetLinkPresentation(t, l, None), LAMBDA x : RemoveLink(x, l))
UnlinkAll(t, links) == ForEach(t, Unlink, links)
Relink(t, l, saved) ==
    Then(AddLink(t, l, saved.link), LAMBDA x : SetLinkPresentation(x, l, saved.state))
RelinkAll(t, links) == ForEach(t, LAMBDA x, l : Relink(x, l, links[l]), DOMAIN links)
ApplyProperty(t, c, saved) ==
    LET links == DOMAIN saved.links
        written == Then(UnlinkAll(t, links), LAMBDA x : SetNodeProperty(x, c.node, c.schema))
    IN When(c.reject => links = {},
            Then(written, LAMBDA x : SetDescriptorPins(x, c.node, saved.after)))
RevertProperty(t, c, saved) ==
    LET written == SetNodeProperty(t, c.node, saved.schema)
        projected == Then(written, LAMBDA x : SetDescriptorPins(x, c.node, saved.before))
    IN Then(projected, LAMBDA x : RelinkAll(x, saved.links))

CaptureRemovePin(d, c) ==
    [pin |-> d.pins[c.pin],
     index |-> CHOOSE i \in DOMAIN d.nodes[c.pin[1]].pins : d.nodes[c.pin[1]].pins[i] = c.pin,
     links |-> Snapshot(d, IncidentLinks(d, c.pin))]
ApplyRemovePin(t, c, saved) ==
    Then(RemoveDynamicPin(t, c.pin), LAMBDA x : ClearLinks(x, DOMAIN saved.links))
RevertRemovePin(t, c, saved) ==
    Then(AddDynamicPin(t, c.pin, saved.pin, saved.index),
         LAMBDA x : RestoreLinks(x, saved.links))

LinkOf(output, input) == [output |-> output, input |-> input, read_only |-> FALSE]

ApplyConnect(t, c) == AddLink(t, c.link, LinkOf(c.output, c.input))
RevertConnect(t, c, saved) ==
    Then(RemoveLink(t, c.link), LAMBDA x : SetLinkPresentation(x, c.link, saved.state))

CaptureLink(d, c) == [link |-> d.links[c.link], state |-> d.link_states[c.link]]
ApplyReconnect(t, c, saved) ==
    LET link == LinkOf(c.output, c.input)
        moved == When(ValidateConnection(t, c.output, c.input, c.link) = "allowed",
                      Then(RemovePlannedLink(t, c.link), LAMBDA x : AddPlannedLink(x, c.link, link)))
    IN IF t.now.links[c.link] = link THEN t
       ELSE IF saved.state # None /\ ~c.preserve_route
            THEN Then(moved, LAMBDA x : SetLinkRoute(x, c.link, EmptyRoute))
            ELSE moved
RevertReconnectLink(t, c, saved) ==
    Then(RemoveLink(t, c.link), LAMBDA x : AddLink(x, c.link, saved.link))

RevertReconnect(t, c, saved) ==
    Then(Then(RemoveLink(t, c.link), LAMBDA x : AddLink(x, c.link, saved.link)),
         LAMBDA x : SetLinkPresentation(x, c.link, saved.state))

\* A converter is put between two pins; one of its two links may be the link
\* that it replaces, which keeps its identity on the end that it keeps.
ApplyConversion(t, c, saved) ==
    LET added == ApplyAddNode(t, [node |-> c.node, schema |-> "convert"])
        freed == IF c.replacing = None THEN added
                 ELSE Then(added, LAMBDA x : RemovePlannedLink(x, c.replacing))
        first == Then(freed, LAMBDA x :
            AddPlannedLink(x, c.first, LinkOf(c.output, <<c.node, "in">>)))
        second == Then(first, LAMBDA x :
            AddPlannedLink(x, c.second, LinkOf(<<c.node, "out">>, c.input)))
    IN When(ValidateConnection(t, c.output, c.input, c.replacing) = "conversion",
            IF c.replacing # None /\ saved.state # None
            THEN Then(second, LAMBDA x : SetLinkRoute(x, c.replacing, EmptyRoute))
            ELSE second)
RevertConversion(t, c, saved) ==
    LET dropped == Then(Unlink(t, c.second), LAMBDA x : Unlink(x, c.first))
        removed == Then(Then(dropped, LAMBDA x : ClearNodes(x, {c.node})),
                        LAMBDA x : RemoveNode(x, c.node))
    IN IF c.replacing = None THEN removed
       ELSE Then(Then(removed, LAMBDA x : AddLink(x, c.replacing, saved.link)),
                 LAMBDA x : SetLinkPresentation(x, c.replacing, saved.state))

\* MoveNodesCommand, SetNodeZOrderCommand, ResizeNodeCommand and
\* SetNodeCollapsedCommand: a look for each of some shown nodes.
SetLook(t, n, look) ==
    When(t.now.node_states[n] # None,
         SetNodePresentation(t, n, [t.now.node_states[n] EXCEPT !.look = look]))
CaptureLooks(d, c) == [looks |-> [n \in DOMAIN c.looks |-> d.node_states[n].look]]
SetLooks(t, looks) == ForEach(t, LAMBDA x, n : SetLook(x, n, looks[n]), DOMAIN looks)

\* The commands of protection.cpp: the part that they set.
SetPartReadOnly(t, c, flag) ==
    CASE c.part = "nodes" -> SetNodeReadOnly(t, c.id, flag)
      [] c.part = "pins" -> SetPinReadOnly(t, c.id, flag)
      [] c.part = "links" -> SetLinkReadOnly(t, c.id, flag)
SetPartLocked(t, c, flag) ==
    CASE c.part = "node_states" -> SetNodeLocked(t, c.id, flag)
      [] c.part = "groups" -> SetGroupLocked(t, c.id, flag)

\* The members that are really added and really removed.
CaptureMembers(d, c) ==
    [added |-> c.added \ d.groups[c.group].members,
     removed |-> (c.removed \cap d.groups[c.group].members) \ c.added]
ChangeMembers(t, g, removed, added) ==
    Then(RemoveGroupMembers(t, g, removed), LAMBDA x : AddGroupMembers(x, g, added))

\* What a command keeps when it is first applied to d.
Capture(d, c) ==
    CASE c.kind = "delete" -> CaptureDelete(d, c)
      [] c.kind = "property" -> CaptureProperty(d, c)
      [] c.kind = "rename" -> [name |-> d.nodes[c.node].name]
      [] c.kind = "show_node" -> [state |-> d.node_states[c.node]]
      [] c.kind = "looks" -> CaptureLooks(d, c)
      [] c.kind = "group_look" -> [look |-> d.groups[c.group].look]
      [] c.kind = "read_only" -> [flag |-> d[c.part][c.id].read_only]
      [] c.kind = "locked" -> [flag |-> d[c.part][c.id].locked]
      [] c.kind = "graph" -> [value |-> d.read_only]
      [] c.kind = "remove_pin" -> CaptureRemovePin(d, c)
      [] c.kind = "update_pin" -> [pin |-> d.pins[c.pin]]
      [] c.kind = "reorder" -> [order |-> d.nodes[c.node].pins]
      [] c.kind = "reconnect" -> CaptureLink(d, c)
      [] c.kind = "convert" /\ c.replacing # None -> CaptureLink(d, [link |-> c.replacing])
      [] c.kind \in {"connect", "link_state", "style", "route", "insert_point", "link_locked"} ->
            [state |-> d.link_states[c.link]]
      [] c.kind = "move_point" -> [place |-> LinkStateOr(d, c.link).route[c.point]]
      [] c.kind = "remove_points" ->
            [states |-> [l \in {ref[1] : ref \in c.points} |-> d.link_states[l]]]
      [] c.kind = "remove_group" -> [group |-> d.groups[c.group]]
      [] c.kind = "members" -> [members |-> d.groups[c.group].members]
      [] c.kind = "change_members" -> CaptureMembers(d, c)
      [] OTHER -> None

RemoveAllPoints(t, points) ==
    ForEach(t, LAMBDA x, l : RemoveRoutePoints(x, l, points[l]), DOMAIN points)
PointsOf(c, l) == {ref[2] : ref \in {r \in c.points : r[1] = l}}

Apply(t, c, saved) ==
    CASE c.kind = "add_node" -> ApplyAddNode(t, c)
      [] c.kind = "delete" -> ApplyDelete(t, c, saved)
      [] c.kind = "property" -> ApplyProperty(t, c, saved)
      [] c.kind = "rename" -> SetNodeDisplayName(t, c.node, c.name)
      [] c.kind = "show_node" -> SetNodePresentation(t, c.node, c.state)
      [] c.kind = "looks" -> SetLooks(t, c.looks)
      [] c.kind = "group_look" -> SetGroupLook(t, c.group, c.look)
      [] c.kind = "read_only" -> SetPartReadOnly(t, c, c.flag)
      [] c.kind = "locked" -> SetPartLocked(t, c, c.flag)
      [] c.kind = "graph" -> SetGraphReadOnly(t, c.flag)
      [] c.kind = "add_pin" -> AddDynamicPin(t, c.pin, c.instance, c.index)
      [] c.kind = "remove_pin" -> ApplyRemovePin(t, c, saved)
      [] c.kind = "update_pin" -> UpdateDynamicPin(t, c.pin, c.instance)
      [] c.kind = "reorder" -> ReorderDynamicPins(t, c.node, c.order)
      [] c.kind = "connect" -> ApplyConnect(t, c)
      [] c.kind = "reconnect" -> ApplyReconnect(t, c, saved)
      [] c.kind = "convert" -> ApplyConversion(t, c, saved)
      [] c.kind = "link_state" -> SetLinkPresentation(t, c.link, c.state)
      [] c.kind = "style" -> SetLinkStyle(t, c.link, c.style)
      [] c.kind = "route" -> SetLinkRoute(t, c.link, c.route)
      [] c.kind = "insert_point" -> InsertRoutePoint(t, c.link, c.point)
      [] c.kind = "move_point" -> MoveRoutePoint(t, c.link, c.point, c.place)
      [] c.kind = "remove_points" ->
            RemoveAllPoints(t, [l \in DOMAIN saved.states |-> PointsOf(c, l)])
      [] c.kind = "link_locked" -> SetLinkLocked(t, c.link, c.flag)
      [] c.kind = "add_group" -> AddGroup(t, c.group, c.instance)
      [] c.kind = "remove_group" -> RemoveGroup(t, c.group)
      [] c.kind = "members" -> SetGroupMembers(t, c.group, c.members)
      [] c.kind = "change_members" ->
            ChangeMembers(t, c.group, saved.removed, saved.added)

Revert(t, c, saved) ==
    CASE c.kind = "add_node" -> RevertAddNode(t, c)
      [] c.kind = "delete" -> RevertDelete(t, c, saved)
      [] c.kind = "property" -> RevertProperty(t, c, saved)
      [] c.kind = "rename" -> SetNodeDisplayName(t, c.node, saved.name)
      [] c.kind = "show_node" -> SetNodePresentation(t, c.node, saved.state)
      [] c.kind = "looks" -> SetLooks(t, saved.looks)
      [] c.kind = "group_look" -> SetGroupLook(t, c.group, saved.look)
      [] c.kind = "read_only" -> SetPartReadOnly(t, c, saved.flag)
      [] c.kind = "locked" -> SetPartLocked(t, c, saved.flag)
      [] c.kind = "graph" -> SetGraphReadOnly(t, saved.value)
      [] c.kind = "add_pin" -> RemoveDynamicPin(t, c.pin)
      [] c.kind = "remove_pin" -> RevertRemovePin(t, c, saved)
      [] c.kind = "update_pin" -> UpdateDynamicPin(t, c.pin, saved.pin)
      [] c.kind = "reorder" -> ReorderDynamicPins(t, c.node, saved.order)
      [] c.kind = "connect" -> RevertConnect(t, c, saved)
      [] c.kind = "reconnect" -> RevertReconnect(t, c, saved)
      [] c.kind = "convert" -> RevertConversion(t, c, saved)
      [] c.kind \in {"link_state", "style", "route", "insert_point", "link_locked"} ->
            SetLinkPresentation(t, c.link, saved.state)
      [] c.kind = "move_point" -> MoveRoutePoint(t, c.link, c.point, saved.place)
      [] c.kind = "remove_points" ->
            ShowLinks(t, saved.states)
      [] c.kind = "add_group" -> RemoveGroup(t, c.group)
      [] c.kind = "remove_group" -> AddGroup(t, c.group, saved.group)
      [] c.kind = "members" -> SetGroupMembers(t, c.group, saved.members)
      [] c.kind = "change_members" ->
            ChangeMembers(t, c.group, saved.added, saved.removed)

-----------------------------------------------------------------------------
(* The history                                                             *)

\* The document that an executed command, or its Revert, commits.
Applied(d, e) == Committed(d, Apply(Begin(d, TRUE), e.command, e.saved))
Reverted(d, e) == Committed(d, Revert(Begin(d, FALSE), e.command, e.saved))

\* CommandStack::Execute.  A command that changes nothing is not kept.
Execute(c) ==
    LET executed == [command |-> c, saved |-> Capture(doc, c)]
        result == Applied(doc, executed)
    IN /\ result \notin {None, doc}
       /\ doc' = result
       /\ done' = Append(done, executed)
       /\ undone' = <<>>
       /\ trail' = Append(SubSeq(trail, 1, Len(done) + 1), result)

Undo ==
    /\ done # <<>>
    /\ Reverted(doc, Last(done)) # None
    /\ doc' = Reverted(doc, Last(done))
    /\ done' = Front(done)
    /\ undone' = <<Last(done)>> \o undone
    /\ UNCHANGED trail

Redo ==
    /\ undone # <<>>
    /\ Applied(doc, Head(undone)) # None
    /\ doc' = Applied(doc, Head(undone))
    /\ done' = Append(done, Head(undone))
    /\ undone' = Tail(undone)
    /\ UNCHANGED trail

Offered(feature) == feature \in Features /\ Len(trail) <= MaxCommands

\* Identifiers are not given twice.
Existing(part) == {id \in DOMAIN doc[part] : doc[part][id] # None}
Fresh(part) ==
    {id \in DOMAIN doc[part] : \A i \in DOMAIN trail : trail[i][part][id] = None}
NextOf(part) == IF Fresh(part) = {} THEN {} ELSE {CHOOSE id \in Fresh(part) : TRUE}
OnLink(l, d) == DOMAIN LinkStateOr(d, l).route

ShownAs(n, look) ==
    [look |-> look,
     locked |-> doc.node_states[n] # None /\ doc.node_states[n].locked]

NodeCommands ==
    /\ Offered("nodes")
    /\ \/ \E n \in NextOf("nodes"), schema \in Schemas :
              Execute([kind |-> "add_node", node |-> n, schema |-> schema])
       \/ \E nodes \in SUBSET Existing("nodes"), links \in SUBSET Existing("links") :
              /\ nodes \cup links # {}
              /\ Execute([kind |-> "delete", nodes |-> nodes, links |-> links])
       \/ \E n \in Existing("nodes"), name \in Looks :
              Execute([kind |-> "rename", node |-> n, name |-> name])
       \/ \E n \in Existing("nodes"), look \in Looks :
              Execute([kind |-> "show_node", node |-> n, state |-> ShownAs(n, look)])
       \/ \E nodes \in SUBSET Existing("node_states"), look \in Looks :
              Execute([kind |-> "looks", looks |-> [n \in nodes |-> look]])

DynamicPins == [direction : {"in", "out"}, type : {"data"}, single : {TRUE},
                storage : {"dynamic"}, read_only : {FALSE}]

PinCommands ==
    /\ Offered("pins")
    /\ \/ \E n \in Existing("nodes"), key \in DynamicKeys, pin \in DynamicPins :
              \E index \in 1..Len(doc.nodes[n].pins) + (IF Behind THEN 1 ELSE 0) :
                  Execute([kind |-> "add_pin", pin |-> <<n, key>>, instance |-> pin,
                           index |-> index])
       \/ \E p \in Existing("pins") : Execute([kind |-> "remove_pin", pin |-> p])
       \/ \E p \in Existing("pins"), pin \in DynamicPins :
              Execute([kind |-> "update_pin", pin |-> p,
                       instance |-> [pin EXCEPT !.read_only = doc.pins[p].read_only]])
       \/ \E n \in Existing("nodes") :
              \E order \in SetToSeqs(ToSet(doc.nodes[n].pins)) :
                  Execute([kind |-> "reorder", node |-> n, order |-> order])
       \/ \E n \in Existing("nodes"), schema \in Schemas, reject \in BOOLEAN :
              /\ doc.nodes[n].schema # "convert"
              /\ Execute([kind |-> "property", node |-> n, schema |-> schema,
                          reject |-> reject])

\* PrepareConnectionCommand: which link, or pair of links, a connection gets.
ConversionLinks(output, replacing) ==
    IF replacing = None
    THEN {pair \in Fresh("links") \X Fresh("links") : pair[1] # pair[2]}
    ELSE IF doc.links[replacing].output # output
    THEN {<<l, replacing>> : l \in Fresh("links")}
    ELSE {<<replacing, l>> : l \in Fresh("links")}

LinkCommands ==
    /\ Offered("links")
    /\ \/ \E l \in NextOf("links"), output, input \in Existing("pins") :
              Execute([kind |-> "connect", link |-> l, output |-> output, input |-> input])
       \/ \E l \in Existing("links"), output, input \in Existing("pins"), keep \in BOOLEAN :
              Execute([kind |-> "reconnect", link |-> l, output |-> output, input |-> input,
                       preserve_route |-> keep])
       \/ \E n \in NextOf("nodes"), output, input \in Existing("pins"),
             replacing \in Existing("links") \cup {None} :
              /\ ConversionLinks(output, replacing) # {}
              /\ LET pair == CHOOSE pair \in ConversionLinks(output, replacing) : TRUE IN
                 Execute([kind |-> "convert", node |-> n, output |-> output, input |-> input,
                          first |-> pair[1], second |-> pair[2], replacing |-> replacing])

RouteCommands ==
    /\ Offered("routes")
    /\ \/ \E l \in Existing("links"), style \in Looks :
              Execute([kind |-> "style", link |-> l, style |-> style])
       \/ \E l \in Existing("links"), style \in Looks :
              Execute([kind |-> "link_state", link |-> l,
                       state |-> [LinkStateOr(doc, l) EXCEPT !.style = style]])
       \/ \E l \in Existing("links"), points \in SUBSET Points :
              Execute([kind |-> "route", link |-> l, route |-> [p \in points |-> 1]])
       \/ \E l \in Existing("links"), p \in Points :
              Execute([kind |-> "insert_point", link |-> l, point |-> p])
       \/ \E l \in Existing("links"), place \in Looks :
              \E p \in OnLink(l, doc) :
                  Execute([kind |-> "move_point", link |-> l, point |-> p, place |-> place])
       \/ \E points \in SUBSET {ref \in Links \X Points : ref[2] \in OnLink(ref[1], doc)} :
              /\ points # {}
              /\ Execute([kind |-> "remove_points", points |-> points])

GroupCommands ==
    /\ Offered("groups")
    /\ \/ \E g \in NextOf("groups"), members \in SUBSET Existing("nodes") :
              Execute([kind |-> "add_group", group |-> g,
                       instance |-> [members |-> members, look |-> 0, locked |-> FALSE]])
       \/ \E g \in Existing("groups") : Execute([kind |-> "remove_group", group |-> g])
       \/ \E g \in Existing("groups"), members \in SUBSET Existing("nodes") :
              Execute([kind |-> "members", group |-> g, members |-> members])
       \/ \E g \in Existing("groups"), added \in SUBSET Existing("nodes"),
             removed \in SUBSET Existing("nodes") :
              /\ Cardinality(added) <= 1 /\ Cardinality(removed) <= 1
              /\ Execute([kind |-> "change_members", group |-> g, added |-> added,
                          removed |-> removed])

\* SetGroupStyleCommand, SetGroupZOrderCommand, MoveGroupCommand,
\* ResizeGroupCommand and SetGroupCollapsedCommand.
GroupLookCommands ==
    /\ Offered("groups")
    /\ \E g \in Existing("groups"), look \in Looks :
          Execute([kind |-> "group_look", group |-> g, look |-> look])

ProtectionCommands ==
    /\ Offered("protection")
    /\ \/ \E flag \in BOOLEAN : Execute([kind |-> "graph", flag |-> flag])
       \/ \E part \in {"nodes", "pins", "links"}, flag \in BOOLEAN : \E id \in Existing(part) :
              Execute([kind |-> "read_only", part |-> part, id |-> id, flag |-> flag])
       \/ \E part \in {"node_states", "groups"}, flag \in BOOLEAN : \E id \in Existing(part) :
              Execute([kind |-> "locked", part |-> part, id |-> id, flag |-> flag])
       \/ \E l \in Existing("links"), flag \in BOOLEAN :
              Execute([kind |-> "link_locked", link |-> l, flag |-> flag])

Init ==
    /\ doc \in Imported
    /\ done = <<>>
    /\ undone = <<>>
    /\ trail = <<doc>>

Next ==
    \/ NodeCommands \/ PinCommands \/ LinkCommands
    \/ RouteCommands \/ GroupCommands \/ GroupLookCommands \/ ProtectionCommands
    \/ Undo \/ Redo

Spec == Init /\ [][Next]_elementVars

-----------------------------------------------------------------------------
(* Properties                                                              *)

\* Types of the document (one type invariant of the module).
TypeOK ==
    /\ doc \in Docs
    /\ Len(trail) = Len(done) + Len(undone) + 1

\* Whatever sequence of commands, undos and redos the document has gone
\* through, it is one that ValidateGraph and ValidatePresentationMaps
\* accept: the pins of a node are its own and exist, its static pins are those
\* that its property resolves to, in that order, every link runs from an
\* output to an input that can be connected, no two links join the same pins,
\* a pin that takes one link has one, a route point is in one route, and what
\* is shown or grouped exists.  Each mutator checks only what it changes.
DocumentSound == TypeOK /\ ValidGraph(doc) /\ ValidPresentation(doc)

\* Undo of the last command succeeds and gives back exactly the document that
\* the command was executed on, presentation included; redo of the next one
\* succeeds and gives exactly what its execution gave.  A command keeps only
\* parts of the document, and only from its first Apply.
HistoryReplays ==
    /\ doc = trail[Len(done) + 1]
    /\ done # <<>> => Reverted(doc, Last(done)) = trail[Len(done)]
    /\ undone # <<>> => Applied(doc, Head(undone)) = trail[Len(done) + 2]

\* What a command that is executed or done again may not touch, unless it
\* changes protection: the elements of a read-only graph, a read-only node with its pins and links, a
\* read-only pin and its links, a read-only link, and the presentation of what
\* is locked.  A command changes many elements; every one is protected.
SparedByStep ==
        /\ Len(done') = Len(done) + 1
        /\ ~Last(done').command.kind \in {"graph", "read_only", "locked", "link_locked"}
      =>
        /\ ~doc.read_only
        /\ \A n \in Existing("nodes") : doc.nodes[n].read_only =>
              /\ doc'.nodes[n] = doc.nodes[n]
              /\ \A p \in ToSet(doc.nodes[n].pins) : doc'.pins[p] = doc.pins[p]
        /\ \A p \in Existing("pins") :
              /\ doc.pins[p].read_only => doc'.pins[p] = doc.pins[p]
              /\ doc.pins[p].read_only \/ doc.nodes[p[1]].read_only =>
                    /\ IncidentLinks(doc', p) = IncidentLinks(doc, p)
                    /\ \A l \in IncidentLinks(doc, p) : doc'.links[l] = doc.links[l]
        /\ \A l \in Existing("links") :
              doc.links[l].read_only => doc'.links[l] = doc.links[l]
        /\ \A n \in Existing("node_states") :
              doc.node_states[n].locked => doc'.node_states[n] = doc.node_states[n]
        /\ \A l \in Existing("link_states") :
              doc.link_states[l].locked => doc'.link_states[l] = doc.link_states[l]
        /\ \A g \in Existing("groups") :
              doc.groups[g].locked => doc'.groups[g] = doc.groups[g]
ProtectedStay == [][SparedByStep]_elementVars
=============================================================================
