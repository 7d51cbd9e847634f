--------------------------- MODULE MCGraphElements ---------------------------
(* Small documents to edit.                                                 *)
EXTENDS GraphElements, TLC

CONSTANTS n1, n2, n3, l1, l2, g1, g2, p1, p2

Empty == [read_only |-> FALSE,
          nodes |-> [n \in Nodes |-> None], pins |-> [p \in Pins |-> None],
          links |-> [l \in Links |-> None],
          node_states |-> [n \in Nodes |-> None], link_states |-> [l \in Links |-> None],
          groups |-> [g \in Groups |-> None]]

WithNode(d, n, schema) ==
    [d EXCEPT !.nodes[n] = NodeOf(n, schema), !.node_states[n] = NewNodeState,
              !.pins = ResolvedPins(n, schema) @@ @]

Linked == [WithNode(WithNode(Empty, n1, "wide"), n2, "wide")
              EXCEPT !.links[l1] = LinkOf(<<n1, "out">>, <<n2, "in">>),
                     !.link_states[l1] = [style |-> 1, locked |-> FALSE, route |-> (p1 :> 0)],
                     !.groups[g1] = [members |-> {n1}, look |-> 0, locked |-> FALSE]]

Apart == WithNode(WithNode(Empty, n1, "wide"), n2, "text")

Extra == [direction |-> "out", type |-> "data", single |-> TRUE,
          storage |-> "dynamic", read_only |-> FALSE]
Extended == [WithNode(WithNode(Empty, n1, "wide"), n2, "narrow")
                EXCEPT !.nodes[n1].pins = <<<<n1, "in">>, <<n1, "extra">>, <<n1, "more">>,
                                            <<n1, "out">>>>,
                       !.pins[<<n1, "extra">>] = Extra, !.pins[<<n1, "more">>] = Extra,
                       !.links[l1] = LinkOf(<<n1, "extra">>, <<n2, "in">>)]

Documents == {Linked, Apart, Extended}
=============================================================================
