------------------------- MODULE GraphElementsProofs -------------------------
(***************************************************************************)
(* The commands on the elements of a graph keep it valid, leave what is    *)
(* protected alone and can be taken back and done again, for any nodes,    *)
(* links, groups, route points, property values, documents that are opened *)
(* and length of the history, where no dynamic pin comes after the static  *)
(* ones (~Behind).  Where one does, undo may give back another order.      *)
(*                                                                         *)
(* ElementCommandProofs covers the commands on what a graph already has.   *)
(* Here are those that project the pins of a node again, that make, delete *)
(* and copy what is shown together with links and groups, or that put a    *)
(* converter on a connection.  FCovered collects the commands of a feature *)
(* F; the theorems follow from the history, which holds these facts for    *)
(* every entry (Recorded).                                                 *)
(***************************************************************************)
EXTENDS ElementCommandProofs

-----------------------------------------------------------------------------
(* The pins that a property resolves to                                    *)

\* e is d with the projected pins in place of the static ones of n.
Projected(d, e, n, projected, qins) ==
    /\ e \in Docs /\ OnlyStructure(d, e) /\ e.links = d.links
    /\ e.nodes[n] # None /\ e.nodes[n] = [d.nodes[n] EXCEPT !.pins = qins]
    /\ e.nodes[n].pins = qins /\ e.nodes[n].schema = d.nodes[n].schema
    /\ \A m \in Nodes \ {n} : e.nodes[m] = d.nodes[m]
    /\ \A p \in Pins : e.pins[p] = IF p \in DOMAIN projected.pins THEN projected.pins[p]
                                   ELSE IF p \in ToSet(StaticOrder(d, n)) THEN None ELSE d.pins[p]
\* What is known of the projected pins.
Projects(d, n, projected, qins) ==
    /\ d.nodes[n] # None
    /\ qins \in Seq(Pins) /\ ProjectedOrder(d, n, projected.order) = qins
    /\ \A p \in DOMAIN projected.pins : p \in Pins /\ p[1] = n /\ projected.pins[p] \in PinValues
    /\ \A p \in ToSet(StaticOrder(d, n)) : p \in Pins /\ p[1] = n
    /\ \A p \in DOMAIN projected.pins \ ToSet(StaticOrder(d, n)) : d.pins[p] = None
\* No link is left on a pin that goes.
Unlinks(d, n, projected) ==
    \A p \in ToSet(StaticOrder(d, n)) \ DOMAIN projected.pins : IncidentLinks(d, p) = {}

LEMMA ProjectPinsIs ==
    ASSUME NEW d \in Docs, NEW n \in Nodes, NEW projected, NEW qins, Projects(d, n, projected, qins)
    PROVE  LET e == ProjectPins(d, n, projected) IN
           IF Unlinks(d, n, projected) THEN e # None /\ Projected(d, e, n, projected, qins)
           ELSE e = None
<1> DEFINE before == ToSet(StaticOrder(d, n))
           after == DOMAIN projected.pins
           pins == [p \in Pins |-> IF p \in after THEN projected.pins[p]
                                   ELSE IF p \in before THEN None ELSE d.pins[p]]
           v == [d.nodes[n] EXCEPT !.pins = qins]
           nodes == [d.nodes EXCEPT ![n] = v]
           g == [d EXCEPT !.nodes = nodes, !.pins = pins]
           e == ProjectPins(d, n, projected)
<1>1. /\ d.nodes \in [Nodes -> NodeValues \cup {None}]
      /\ d.pins \in [Pins -> PinValues \cup {None}]
      /\ DOMAIN d = {"read_only", "nodes", "pins", "links", "node_states", "link_states", "groups"}
  BY PartsAre DEF Docs
<1>2. d.nodes[n] # None /\ qins \in Seq(Pins) /\ ProjectedOrder(d, n, projected.order) = qins
  BY DEF Projects
<1>3. /\ d.nodes[n] \in NodeValues /\ v \in NodeValues /\ v # None
      /\ v.pins = qins /\ v.schema = d.nodes[n].schema
  <2>1. d.nodes[n] \in NodeValues
    BY <1>1, <1>2
  <2>2. v \in NodeValues /\ v.pins = qins /\ v.schema = d.nodes[n].schema
    BY <1>2, <2>1 DEF NodeValues
  <2> QED
    BY <2>1, <2>2, NotNone
<1>4. /\ nodes \in [Nodes -> NodeValues \cup {None}]
      /\ nodes[n] = v /\ \A m \in Nodes \ {n} : nodes[m] = d.nodes[m]
  <2> HIDE DEF v
  <2> QED
    BY <1>1, <1>3
<1>5. pins \in [Pins -> PinValues \cup {None}]
  <2>1. \A p \in after : projected.pins[p] \in PinValues
    BY DEF Projects
  <2> HIDE DEF before, after
  <2> QED
    BY <1>1, <2>1
<1>6. e = IF Unlinks(d, n, projected) THEN g ELSE None
  <2>1. e = IF Unlinks(d, n, projected)
            THEN [d EXCEPT !.nodes[n].pins = qins, !.pins = [p \in Pins |->
                      IF p \in after THEN projected.pins[p] ELSE IF p \in before THEN None ELSE @[p]]]
            ELSE None
    BY <1>2 DEF ProjectPins, When, Unlinks
  <2> HIDE DEF e
  <2>2. [d EXCEPT !.nodes[n].pins = qins, !.pins = [p \in Pins |->
             IF p \in after THEN projected.pins[p] ELSE IF p \in before THEN None ELSE @[p]]] = g
    <3> HIDE DEF before, after
    <3> QED
      BY <1>1
  <2> QED
    BY <2>1, <2>2
<1>7. /\ OnlyStructure(d, g) /\ g.nodes = nodes /\ g.pins = pins /\ g.links = d.links
  <2> HIDE DEF nodes, pins
  <2>1. d.links \in [Links -> LinkValues \cup {None}]
    BY PartsAre
  <2>2. nodes \in [Nodes -> NodeValues \cup {None}] /\ pins \in [Pins -> PinValues \cup {None}]
    BY <1>4, <1>5
  <2>3. g \in Docs
    BY <2>2 DEF Docs
  <2> QED
    BY <1>1, <2>3 DEF OnlyStructure
<1>8. Projected(d, g, n, projected, qins) /\ g # None
  <2>1. g \in Docs
    BY <1>7 DEF OnlyStructure
  <2>2. \A p \in Pins : g.pins[p] = IF p \in after THEN projected.pins[p]
                                   ELSE IF p \in before THEN None ELSE d.pins[p]
    <3> HIDE DEF g
    <3> QED
      BY <1>7
  <2> HIDE DEF g, nodes, pins, v
  <2>3. g # None
    BY <2>1, NotNone
  <2>4. g.nodes[n] = [d.nodes[n] EXCEPT !.pins = qins]
    BY <1>4, <1>7 DEF v
  <2> QED
    BY <1>3, <1>4, <1>7, <2>1, <2>2, <2>3, <2>4 DEF Projected
<1> QED
  BY <1>6, <1>8

LEMMA SetDescriptorPinsIs ==
    ASSUME NEW t \in Transactions, NEW n \in Nodes, NEW projected, NEW qins,
           Projects(t.now, n, projected, qins)
    PROVE  LET x == SetDescriptorPins(t, n, projected)
               d == t.now
           IN /\ x # None =>
                    /\ Follows(t, x) /\ Unlinks(d, n, projected)
                    /\ Projected(d, x.now, n, projected, qins)
                    /\ (t.enforce => t.base.pins = d.pins) => Permitted(t, d, x.now)
              /\ ~t.enforce /\ Unlinks(d, n, projected) => x # None
<1> DEFINE d == t.now
           before == ToSet(StaticOrder(d, n))
           after == DOMAIN projected.pins
           x == SetDescriptorPins(t, n, projected)
           e == ProjectPins(d, n, projected)
           Free == /\ ~GraphReadOnly(t) /\ ~NodeReadOnly(t, n)
                   /\ \A p \in before \ after : ~PinReadOnly(t, p)
                   /\ \A p \in before \cap after :
                         t.enforce => \/ projected.pins[p] = d.pins[p]
                                      \/ ~d.pins[p].read_only /\ ~projected.pins[p].read_only
<1>1. x = IF Free THEN IF e = None THEN None ELSE Stage(t, e) ELSE None
  BY DEF SetDescriptorPins, When, Stage
<1>2. d \in Docs /\ t.base \in Docs
  BY NowIs
<1>3. IF Unlinks(d, n, projected) THEN e # None /\ Projected(d, e, n, projected, qins)
      ELSE e = None
  BY <1>2, ProjectPinsIs
<1>4. ~t.enforce => Free
  <2>1. ~t.enforce => /\ ~GraphReadOnly(t) /\ ~NodeReadOnly(t, n)
                      /\ \A p : ~PinReadOnly(t, p)
    BY FreeIs
  <2> QED
    BY <2>1
<1>5. Free => /\ OpenGraph(t) /\ FreeNode(t, n)
              /\ \A p \in before \ after : FreePin(t, p)
  <2>1. /\ ~GraphReadOnly(t) => OpenGraph(t)
        /\ ~NodeReadOnly(t, n) => FreeNode(t, n)
        /\ \A p : ~PinReadOnly(t, p) => FreePin(t, p)
    BY ProtectionIs
  <2> HIDE DEF before, after
  <2> QED
    BY <2>1
<1>6. Free => \A p \in before \cap after : t.enforce => \/ projected.pins[p] = d.pins[p]
                                                        \/ ~d.pins[p].read_only
  OBVIOUS
<1> HIDE DEF e, Free, x
<1>7. ~t.enforce /\ Unlinks(d, n, projected) => x # None
  <2> SUFFICES ASSUME ~t.enforce, Unlinks(d, n, projected) PROVE x # None
    OBVIOUS
  <2>1. Projected(d, e, n, projected, qins) /\ e # None
    BY <1>3
  <2>2. e \in Docs
    BY <2>1 DEF Projected
  <2>3. Stage(t, e) # None
    BY <2>2, StageIs
  <2> QED
    BY <1>1, <1>4, <2>1, <2>3
<1>8. ASSUME x # None
      PROVE  /\ Follows(t, x) /\ Unlinks(d, n, projected)
             /\ Projected(d, x.now, n, projected, qins)
             /\ (t.enforce => t.base.pins = d.pins) => Permitted(t, d, x.now)
  <2>1. Free /\ e # None /\ x = Stage(t, e)
    BY <1>1, <1>8
  <2>2. Unlinks(d, n, projected) /\ Projected(d, e, n, projected, qins)
    BY <1>3, <2>1
  <2>3. e \in Docs
    BY <2>2 DEF Projected
  <2>4. Follows(t, x) /\ x.now = e
    BY <2>1, <2>3, StageIs
  <2>5. ASSUME t.enforce => t.base.pins = d.pins PROVE Permitted(t, d, e)
    <3>1. \A m \in Nodes : e.nodes[m] # d.nodes[m] => FreeNode(t, m)
      BY <1>5, <2>1, <2>2 DEF Projected
    <3>2. ASSUME NEW p \in Pins, d.pins[p] # None, e.pins[p] # d.pins[p] PROVE FreeEnd(t, p)
      <4>1. p \in after \/ p \in before
        BY <2>2, <3>2 DEF Projected
      <4>2. p[1] = n
        BY <4>1 DEF Projects
      <4>3. p \in before
        BY <3>2, <4>1 DEF Projects
      <4>4. CASE p \notin after
        BY <1>5, <2>1, <4>2, <4>3, <4>4 DEF FreeEnd
      <4>5. CASE p \in after
        <5>1. e.pins[p] = projected.pins[p]
          BY <2>2, <4>5 DEF Projected
        <5>2. t.enforce => ~d.pins[p].read_only
          BY <1>6, <2>1, <3>2, <4>3, <4>5, <5>1
        <5>3. FreePin(t, p)
          BY <2>5, <5>2 DEF FreePin
        <5> QED
          BY <1>5, <2>1, <4>2, <5>3 DEF FreeEnd
      <4> QED
        BY <4>4, <4>5
    <3>3. OpenGraph(t)
      BY <1>5, <2>1
    <3> QED
      BY <2>2, <3>1, <3>2, <3>3 DEF Permitted, Projected, OnlyStructure, Ends
  <2> QED
    BY <2>2, <2>4, <2>5
<1> QED
  BY <1>7, <1>8 DEF x

Wide(schema) == schema # "narrow"
Statics(n, schema) ==
    [i \in DOMAIN ResolvePinSchema(schema).order |-> <<n, ResolvePinSchema(schema).order[i]>>]

LEMMA SchemaIs ==
    ASSUME NEW schema \in SchemaNames, NEW n \in Nodes
    PROVE  LET s == ResolvePinSchema(schema) IN
           /\ Statics(n, schema) =
                 IF Wide(schema) THEN <<<<n, "in">>, <<n, "out">>>> ELSE <<<<n, "in">>>>
           /\ ToSet(s.order) = IF Wide(schema) THEN {"in", "out"} ELSE {"in"}
           /\ \A key \in ToSet(s.order) :
                 /\ s.pins[key] \in PinValues
                 /\ s.pins[key].storage = "static" /\ s.pins[key].read_only = FALSE
           /\ <<n, "in">> \in Pins /\ <<n, "out">> \in Pins
<1> DEFINE s == ResolvePinSchema(schema)
<1>1. <<n, "in">> \in Pins /\ <<n, "out">> \in Pins
  BY DEF Pins, Keys
<1>2. s.order = IF Wide(schema) THEN <<"in", "out">> ELSE <<"in">>
  BY DEF ResolvePinSchema, SchemaNames, Wide
<1>3. \A key \in {"in", "out"} : key = "in" \/ Wide(schema) =>
         /\ s.pins[key] \in PinValues
         /\ s.pins[key].storage = "static" /\ s.pins[key].read_only = FALSE
  <2>1. /\ \E type \in PinTypes, single \in BOOLEAN : s.pins["in"] = StaticPin("in", type, single)
        /\ Wide(schema) => \E type \in PinTypes, single \in BOOLEAN :
              s.pins["out"] = StaticPin("out", type, single)
    <3>1. CASE schema = "wide"
      <4>1. s.pins = [in |-> StaticPin("in", "data", FALSE), out |-> StaticPin("out", "data", FALSE)]
        BY <3>1 DEF ResolvePinSchema
      <4> HIDE DEF s
      <4>2. s.pins["in"] = StaticPin("in", "data", FALSE) /\ s.pins["out"] = StaticPin("out", "data", FALSE)
        BY <4>1
      <4> QED
        BY <3>1, <4>2 DEF Wide, PinTypes
    <3>2. CASE schema = "narrow"
      <4>1. s.pins = [in |-> StaticPin("in", "data", TRUE)]
        BY <3>2 DEF ResolvePinSchema
      <4> HIDE DEF s
      <4>2. s.pins["in"] = StaticPin("in", "data", TRUE)
        BY <4>1
      <4> QED
        BY <3>2, <4>2 DEF Wide, PinTypes
    <3>3. CASE schema = "convert"
      <4>1. s.pins = [in |-> StaticPin("in", "data", FALSE), out |-> StaticPin("out", "text", FALSE)]
        BY <3>3 DEF ResolvePinSchema
      <4> HIDE DEF s
      <4>2. s.pins["in"] = StaticPin("in", "data", FALSE) /\ s.pins["out"] = StaticPin("out", "text", FALSE)
        BY <4>1
      <4> QED
        BY <3>3, <4>2 DEF Wide, PinTypes
    <3>4. CASE schema = "text"
      <4>1. s.pins = [in |-> StaticPin("in", "text", FALSE), out |-> StaticPin("out", "data", FALSE)]
        BY <3>4 DEF ResolvePinSchema
      <4> HIDE DEF s
      <4>2. s.pins["in"] = StaticPin("in", "text", FALSE) /\ s.pins["out"] = StaticPin("out", "data", FALSE)
        BY <4>1
      <4> QED
        BY <3>4, <4>2 DEF Wide, PinTypes
    <3> QED
      BY <3>1, <3>2, <3>3, <3>4 DEF SchemaNames
  <2>2. ASSUME NEW direction \in {"in", "out"}, NEW type \in PinTypes, NEW single \in BOOLEAN
        PROVE  LET v == StaticPin(direction, type, single) IN
               v \in PinValues /\ v.storage = "static" /\ v.read_only = FALSE
    BY DEF StaticPin, PinValues
  <2> HIDE DEF s
  <2>3. /\ s.pins["in"] \in PinValues
        /\ s.pins["in"].storage = "static" /\ s.pins["in"].read_only = FALSE
    BY <2>1, <2>2
  <2>4. Wide(schema) => /\ s.pins["out"] \in PinValues
                        /\ s.pins["out"].storage = "static" /\ s.pins["out"].read_only = FALSE
    BY <2>1, <2>2
  <2> QED
    BY <2>3, <2>4
<1>4. Statics(n, schema) = [i \in DOMAIN s.order |-> <<n, s.order[i]>>]
  BY DEF Statics
<1> HIDE DEF s
<1>5. CASE Wide(schema)
  <2>1. DOMAIN s.order = 1..2 /\ s.order[1] = "in" /\ s.order[2] = "out"
    BY <1>2, <1>5
  <2>2. ToSet(s.order) = {"in", "out"}
    BY <2>1 DEF ToSet
  <2>3. Statics(n, schema) = <<<<n, "in">>, <<n, "out">>>>
    BY <1>4, <2>1
  <2> QED
    BY <1>1, <1>3, <1>5, <2>2, <2>3 DEF s
<1>6. CASE ~Wide(schema)
  <2>1. DOMAIN s.order = 1..1 /\ s.order[1] = "in"
    BY <1>2, <1>6
  <2>2. ToSet(s.order) = {"in"}
    BY <2>1 DEF ToSet
  <2>3. Statics(n, schema) = <<<<n, "in">>>>
    BY <1>4, <2>1
  <2> QED
    BY <1>1, <1>3, <1>6, <2>2, <2>3 DEF s
<1> QED
  BY <1>5, <1>6

LEMMA StaticsIs ==
    ASSUME NEW n \in Nodes, NEW schema \in SchemaNames
    PROVE  LET s == Statics(n, schema) IN
           /\ s \in Seq(Pins) /\ Len(s) = IF Wide(schema) THEN 2 ELSE 1
           /\ s[1] = <<n, "in">> /\ (Wide(schema) => s[2] = <<n, "out">>)
           /\ ToSet(s) = {<<n, "in">>} \cup IF Wide(schema) THEN {<<n, "out">>} ELSE {}
<1>1. /\ Statics(n, schema) =
            IF Wide(schema) THEN <<<<n, "in">>, <<n, "out">>>> ELSE <<<<n, "in">>>>
      /\ <<n, "in">> \in Pins /\ <<n, "out">> \in Pins
  BY SchemaIs
<1> DEFINE s == Statics(n, schema)
<1> HIDE DEF s
<1>2. CASE Wide(schema)
  <2>1. s = <<<<n, "in">>, <<n, "out">>>>
    BY <1>1, <1>2 DEF s
  <2>2. s \in Seq(Pins) /\ Len(s) = 2 /\ s[1] = <<n, "in">> /\ s[2] = <<n, "out">> /\ DOMAIN s = 1..2
    BY <1>1, <2>1
  <2>3. ToSet(s) = {<<n, "in">>, <<n, "out">>}
    BY <2>2 DEF ToSet
  <2> QED
    BY <1>2, <2>2, <2>3 DEF s
<1>3. CASE ~Wide(schema)
  <2>1. s = <<<<n, "in">>>>
    BY <1>1, <1>3 DEF s
  <2>2. s \in Seq(Pins) /\ Len(s) = 1 /\ s[1] = <<n, "in">> /\ DOMAIN s = 1..1
    BY <1>1, <2>1
  <2>3. \A i : i \in 1..1 <=> i = 1
    OBVIOUS
  <2>4. ToSet(s) = {<<n, "in">>}
    BY <2>2, <2>3 DEF ToSet
  <2> QED
    BY <1>3, <2>2, <2>4 DEF s
<1> QED
  BY <1>2, <1>3

\* The static pins of a node of a valid document.
LEMMA StaticPinsIs ==
    ASSUME NEW d \in Docs, NodesGood(d), NEW n \in Nodes, d.nodes[n] # None
    PROVE  LET schema == d.nodes[n].schema
               pins == d.nodes[n].pins
               before == ToSet(Statics(n, schema))
           IN /\ schema \in SchemaNames /\ pins \in Seq(Pins)
              /\ StaticOrder(d, n) = Statics(n, schema)
              /\ before \subseteq ToSet(pins)
              /\ \A p \in before :
                    /\ p \in Pins /\ p[1] = n
                    /\ d.pins[p] \in PinValues /\ d.pins[p].storage = "static"
                    /\ d.pins[p] = [ResolvePinSchema(schema).pins[p[2]]
                                       EXCEPT !.read_only = d.pins[p].read_only]
              /\ \A p \in Pins : d.pins[p] # None /\ p[1] = n =>
                    /\ p \in ToSet(pins)
                    /\ p \in before <=> ~Dynamic(d.pins, p)
                    /\ p \in before <=> p[2] \in {"in", "out"}
<1> DEFINE schema == d.nodes[n].schema
           pins == d.nodes[n].pins
           statics == Statics(n, schema)
           before == ToSet(statics)
           static == StaticAmong(pins, d.pins)[Len(pins)]
<1>1. schema \in SchemaNames /\ pins \in Seq(Pins) /\ Len(pins) \in Nat
  <2>1. d.nodes[n] \in NodeValues
    BY PartsAre
  <2> QED
    BY <2>1 DEF NodeValues
<1>2. Held(d, n) /\ Fitted(d, n)
  BY DEF NodesGood
<1>3. StaticOrder(d, n) = statics /\ static = statics
  BY <1>2 DEF Fitted, MatchesDescriptor, Statics, StaticOrder
<1>4. \A p \in before : [d.pins[p] EXCEPT !.read_only = FALSE] = ResolvePinSchema(schema).pins[p[2]]
  BY <1>2, <1>3 DEF Fitted, MatchesDescriptor
<1>5. /\ before = {<<n, "in">>} \cup IF Wide(schema) THEN {<<n, "out">>} ELSE {}
      /\ statics \in Seq(Pins)
  BY <1>1, StaticsIs
<1>6. /\ \A i \in 1..Len(static) :
            \E k \in 1..Len(pins) : pins[k] = static[i] /\ ~Dynamic(d.pins, pins[k])
      /\ \A k \in 1..Len(pins) : ~Dynamic(d.pins, pins[k]) =>
            \E i \in 1..Len(static) : static[i] = pins[k]
  <2> HIDE DEF pins
  <2>1. Len(pins) \in 0..Len(pins) /\ pins \in Seq(Pins)
    BY <1>1
  <2> QED
    BY <2>1, StaticMembers
<1>7. before \subseteq ToSet(pins) /\ \A p \in before : ~Dynamic(d.pins, p)
  <2> SUFFICES ASSUME NEW p \in before PROVE p \in ToSet(pins) /\ ~Dynamic(d.pins, p)
    OBVIOUS
  <2>1. PICK i \in 1..Len(static) : static[i] = p
    BY <1>3, <1>5 DEF ToSet
  <2>2. PICK k \in 1..Len(pins) : pins[k] = static[i] /\ ~Dynamic(d.pins, pins[k])
    BY <1>6
  <2> HIDE DEF pins, static
  <2> QED
    BY <1>1, <2>1, <2>2 DEF ToSet
<1>8. \A p \in ToSet(pins) : ~Dynamic(d.pins, p) => p \in before
  <2> SUFFICES ASSUME NEW p \in ToSet(pins), ~Dynamic(d.pins, p) PROVE p \in before
    OBVIOUS
  <2>1. PICK k \in 1..Len(pins) : pins[k] = p
    BY <1>1 DEF ToSet
  <2>2. PICK i \in 1..Len(static) : static[i] = p
    BY <1>6, <2>1
  <2> QED
    BY <1>3, <1>5, <2>2 DEF ToSet
<1> HIDE DEF static, statics, pins, schema
<1>9. ASSUME NEW p \in before
      PROVE  /\ p \in Pins /\ p[1] = n
             /\ d.pins[p] \in PinValues /\ d.pins[p].storage = "static"
             /\ d.pins[p] = [ResolvePinSchema(schema).pins[p[2]]
                                EXCEPT !.read_only = d.pins[p].read_only]
  <2>1. p \in Pins /\ p[1] = n /\ d.pins[p] # None
    <3>1. p \in ToSet(pins)
      BY <1>7
    <3> QED
      BY <1>1, <1>2, <3>1 DEF Held, pins, ToSet
  <2>2. d.pins[p] \in PinValues
    BY <2>1, PartsAre
  <2>3. d.pins[p].storage = "static"
    BY <1>7, <2>2 DEF Dynamic, PinValues
  <2>4. [d.pins[p] EXCEPT !.read_only = FALSE] = ResolvePinSchema(schema).pins[p[2]]
    BY <1>4
  <2>5. d.pins[p] = [[d.pins[p] EXCEPT !.read_only = FALSE] EXCEPT !.read_only = d.pins[p].read_only]
    BY <2>2 DEF PinValues
  <2> QED
    BY <2>1, <2>2, <2>3, <2>4, <2>5
<1>10. ASSUME NEW p \in Pins, d.pins[p] # None, p[1] = n
       PROVE  /\ p \in ToSet(pins)
              /\ p \in before <=> ~Dynamic(d.pins, p)
              /\ p \in before <=> p[2] \in {"in", "out"}
  <2>1. Rooted(d, p)
    BY <1>10 DEF NodesGood
  <2>2. p \in ToSet(pins)
    BY <1>10, <2>1 DEF Rooted, pins
  <2>3. p \in before <=> ~Dynamic(d.pins, p)
    BY <1>7, <1>8, <2>2
  <2>4. Dynamic(d.pins, p) => p[2] \notin {"in", "out"}
    BY <2>1, ElementDocumentAssumption DEF Rooted, Dynamic
  <2>5. p \in before => p[2] \in {"in", "out"}
    <3> HIDE DEF before
    <3>1. p \in before => p = <<n, "in">> \/ p = <<n, "out">>
      BY <1>5
    <3> QED
      BY <3>1
  <2> HIDE DEF before
  <2> QED
    BY <2>2, <2>3, <2>4, <2>5
<1> QED
  BY <1>1, <1>3, <1>7, <1>9, <1>10 DEF schema, pins, statics

\* What becomes of the order of the pins.
Carried(pins, qins, n, old, new) ==
    IF Wide(old) <=> Wide(new) THEN qins = pins
    ELSE IF Wide(new) THEN qins = Append(pins, <<n, "out">>)
    ELSE pins = Append(qins, <<n, "out">>)

LEMMA AppendIs ==
    ASSUME NEW S, NEW s \in Seq(S), NEW t \in Seq(S), NEW x, NEW y, Append(s, x) = Append(t, y)
    PROVE  s = t /\ x = y
<1>1. Len(s) \in Nat /\ Len(t) \in Nat /\ Len(s) + 1 = Len(t) + 1
  BY AppendProperties, LenProperties
<1>2. Len(s) = Len(t)
  BY <1>1
<1>3. \A i \in 1..Len(s) : s[i] = Append(s, x)[i] /\ t[i] = Append(t, y)[i]
  BY <1>2
<1>4. x = Append(s, x)[Len(s) + 1] /\ y = Append(t, y)[Len(t) + 1]
  OBVIOUS
<1>5. s = t
  BY <1>2, <1>3, SameSequence
<1> QED
  BY <1>2, <1>4, <1>5

LEMMA CarriedBack ==
    ASSUME NEW pins \in Seq(Pins), NEW qins \in Seq(Pins), NEW rins \in Seq(Pins),
           NEW n, NEW old, NEW new,
           Carried(pins, qins, n, old, new), Carried(qins, rins, n, new, old)
    PROVE  rins = pins
<1>1. CASE Wide(old) <=> Wide(new)
  BY <1>1 DEF Carried
<1>2. CASE Wide(new) /\ ~Wide(old)
  <2>1. Append(pins, <<n, "out">>) = Append(rins, <<n, "out">>)
    BY <1>2 DEF Carried
  <2> QED
    BY <2>1, AppendIs
<1>3. CASE Wide(old) /\ ~Wide(new)
  BY <1>3 DEF Carried
<1> QED
  BY <1>1, <1>2, <1>3

\* A node with two static pins ends with the second.
LEMMA StaticFront ==
    ASSUME NEW pins \in Seq(Pins), NEW values, NEW n \in Nodes, NEW old \in SchemaNames,
           StaticAmong(pins, values)[Len(pins)] = Statics(n, old),
           Wide(old), ~Dynamic(values, Last(pins))
    PROVE  /\ Len(pins) - 1 \in 0..Len(pins) /\ Len(pins) \in 1..Len(pins)
           /\ pins[Len(pins)] = <<n, "out">>
           /\ StaticAmong(pins, values)[Len(pins) - 1] = <<<<n, "in">>>>
<1> DEFINE s == StaticAmong(pins, values)
           N == Len(pins)
<1>1. /\ s \in [0..N -> Seq(Pins)] /\ s[0] = <<>>
      /\ \A i \in 1..N : s[i] = IF Dynamic(values, pins[i]) THEN s[i - 1]
                                ELSE Append(s[i - 1], pins[i])
  BY StaticIs
<1>2. Statics(n, old) = <<<<n, "in">>, <<n, "out">>>> /\ <<n, "in">> \in Pins /\ <<n, "out">> \in Pins
  BY SchemaIs
<1>3. N \in Nat /\ N # 0
  <2>1. N \in Nat
    OBVIOUS
  <2>2. ASSUME N = 0 PROVE FALSE
    <3>1. Statics(n, old) = <<>>
      BY <1>1, <2>2
    <3> QED
      BY <1>2, <3>1
  <2> QED
    BY <2>1, <2>2
<1>4. Last(pins) = pins[N]
  BY DEF Last
<1>5. s[N] = Append(s[N - 1], pins[N]) /\ s[N - 1] \in Seq(Pins)
  <2>1. N \in 1..N /\ N - 1 \in 0..N /\ ~Dynamic(values, pins[N])
    BY <1>3, <1>4
  <2> HIDE DEF N, s
  <2> QED
    BY <1>1, <2>1
<1>6. Statics(n, old) = Append(<<<<n, "in">>>>, <<n, "out">>) /\ <<<<n, "in">>>> \in Seq(Pins)
  BY <1>2
<1>7. s[N - 1] = <<<<n, "in">>>> /\ pins[N] = <<n, "out">>
  <2> HIDE DEF s, N
  <2>1. Append(s[N - 1], pins[N]) = Append(<<<<n, "in">>>>, <<n, "out">>)
    BY <1>5, <1>6 DEF s, N
  <2> QED
    BY <1>5, <1>6, <2>1, AppendIs
<1> QED
  BY <1>3, <1>7

Projection(pins, values, order) ==
    LET placed == PlacedAmong(pins, values, order)[Len(pins)]
    IN placed.order \o SubSeq(order, placed.next, Len(order))

LEMMA ProjectedSame ==
    ASSUME NEW pins \in Seq(Pins), NEW values, NEW order \in Seq(Pins),
           StaticAmong(pins, values)[Len(pins)] = order
    PROVE  Projection(pins, values, order) = pins
<1> DEFINE placed == PlacedAmong(pins, values, order)[Len(pins)]
           N == Len(pins)
<1>1. N \in 0..N /\ Len(order) \in Nat
  BY LenProperties
<1>2. placed = [order |-> SubSeq(pins, 1, N), next |-> Len(order) + 1]
  <2>1. Len(order) <= Len(order) /\ \A i \in 1..Len(order) : order[i] = order[i]
    BY <1>1
  <2> QED
    BY <1>1, <2>1, PlacedStay
<1>3. SubSeq(pins, 1, N) = pins
  OBVIOUS
<1> HIDE DEF placed
<1>4. placed.order = pins /\ placed.next = Len(order) + 1
  BY <1>2, <1>3
<1>5. SubSeq(order, Len(order) + 1, Len(order)) = <<>>
  BY <1>1
<1>6. pins \o <<>> = pins
  OBVIOUS
<1>7. placed.order \o SubSeq(order, placed.next, Len(order)) = pins
  BY <1>4, <1>5, <1>6
<1> QED
  BY <1>7 DEF placed, Projection

LEMMA ProjectedWider ==
    ASSUME NEW pins \in Seq(Pins), NEW values, NEW a \in Pins, NEW b \in Pins,
           StaticAmong(pins, values)[Len(pins)] = <<a>>
    PROVE  Projection(pins, values, <<a, b>>) = Append(pins, b)
<1> DEFINE order == <<a, b>>
           placed == PlacedAmong(pins, values, order)[Len(pins)]
           N == Len(pins)
<1>1. /\ N \in 0..N /\ order \in Seq(Pins) /\ Len(order) = 2 /\ Len(<<a>>) = 1
      /\ order[1] = a /\ order[2] = b /\ <<a>>[1] = a
  OBVIOUS
<1>2. placed = [order |-> SubSeq(pins, 1, N), next |-> 2]
  <2> HIDE DEF order
  <2>1. \A i \in 1..1 : i = 1
    OBVIOUS
  <2>2. LET static == StaticAmong(pins, values)[N] IN
           Len(static) <= Len(order) /\ \A i \in 1..Len(static) : order[i] = static[i]
    BY <1>1, <2>1
  <2>3. placed = [order |-> SubSeq(pins, 1, N), next |-> Len(StaticAmong(pins, values)[N]) + 1]
    BY <1>1, <2>2, PlacedStay
  <2> QED
    BY <1>1, <2>3
<1>3. SubSeq(pins, 1, N) = pins
  OBVIOUS
<1> HIDE DEF placed
<1>4. placed.order = pins /\ placed.next = 2
  BY <1>2, <1>3
<1>5. SubSeq(order, 2, 2) = <<b>>
  <2> DEFINE s == SubSeq(order, 2, 2)
  <2>1. /\ s \in Seq(Pins) /\ Len(s) = 1 /\ s[1] = b
        /\ <<b>> \in Seq(Pins) /\ Len(<<b>>) = 1 /\ <<b>>[1] = b
    <3>1. 2 \in 1..2 + 1 /\ order[2] = b
      BY <1>1
    <3> HIDE DEF order
    <3>2. s \in Seq(Pins) /\ Len(s) = 1
      BY <1>1
    <3>3. s[1] = order[2]
      BY <1>1
    <3> HIDE DEF s
    <3> QED
      BY <3>1, <3>2, <3>3
  <2> HIDE DEF s
  <2>2. \A i \in 1..1 : i = 1
    OBVIOUS
  <2>3. \A i \in 1..Len(s) : s[i] = <<b>>[i]
    BY <2>1, <2>2
  <2>4. s = <<b>>
    BY <2>1, <2>3, SameSequence
  <2> QED
    BY <2>4 DEF s
<1>6. pins \o <<b>> = Append(pins, b)
  OBVIOUS
<1> HIDE DEF order
<1>7. placed.order \o SubSeq(order, placed.next, Len(order)) = Append(pins, b)
  BY <1>1, <1>4, <1>5, <1>6
<1> QED
  BY <1>7 DEF placed, order, Projection

LEMMA ProjectedNarrower ==
    ASSUME NEW pins \in Seq(Pins), NEW values, NEW a \in Pins, NEW N, N = Len(pins), NEW M, M = N - 1, N # 0,
           StaticAmong(pins, values)[M] = <<a>>, ~Dynamic(values, pins[N])
    PROVE  /\ Projection(pins, values, <<a>>) \in Seq(Pins)
           /\ pins = Append(Projection(pins, values, <<a>>), pins[N])
<1> DEFINE order == <<a>>
           placed == PlacedAmong(pins, values, <<a>>)[N]
           places == PlacedAmong(pins, values, order)
           front == SubSeq(pins, 1, N - 1)
<1>0. placed = places[N]
  OBVIOUS
<1>1. order \in Seq(Pins) /\ Len(order) = 1 /\ N \in Nat /\ N \in 1..N /\ N - 1 \in 0..N
  OBVIOUS
<1>2. places[N - 1] = [order |-> front, next |-> 2]
  <2> HIDE DEF order
  <2>1. LET static == StaticAmong(pins, values)[N - 1] IN
           Len(static) <= Len(order) /\ \A i \in 1..Len(static) : order[i] = static[i]
    BY <1>1 DEF order
  <2>2. places[N - 1] = [order |-> front, next |-> Len(StaticAmong(pins, values)[N - 1]) + 1]
    BY <1>1, <2>1, PlacedStay
  <2> QED
    BY <1>1, <2>2 DEF order
<1>3. placed = Placing(values, order, pins[N], places[N - 1])
  <2> HIDE DEF order
  <2> QED
    BY <1>0, <1>1, PlacedIs
<1> HIDE DEF order, places, placed, front
<1>4. placed = [order |-> front, next |-> 2]
  <2>1. 2 > Len(order)
    BY <1>1
  <2> QED
    BY <1>2, <1>3, <2>1 DEF Placing
<1>5. placed.order = front /\ placed.next = 2
  BY <1>4
<1>6. SubSeq(order, 2, 1) = <<>>
  BY <1>1
<1>7. /\ front \in Seq(Pins) /\ Len(front) = N - 1
      /\ \A i \in 1..(N - 1) : front[i] = pins[i]
  BY <1>1 DEF front
<1>8. front \o <<>> = front
  BY <1>7
<1>9. placed.order \o SubSeq(order, placed.next, Len(order)) = front
  BY <1>1, <1>5, <1>6, <1>8
<1>10. pins = Append(front, pins[N])
  <2>1. pins[N] \in Pins
    OBVIOUS
  <2> DEFINE whole == Append(front, pins[N])
  <2>2. whole \in Seq(Pins) /\ Len(whole) = N
    BY <1>1, <1>7, <2>1
  <2>3. \A i \in 1..N : whole[i] = pins[i]
    <3> SUFFICES ASSUME NEW i \in 1..N PROVE whole[i] = pins[i]
      OBVIOUS
    <3>1. CASE i = N
      BY <1>1, <1>7, <3>1
    <3>2. CASE i # N
      <4>1. i \in 1..(N - 1)
        BY <1>1, <3>2
      <4>2. whole[i] = front[i]
        BY <1>1, <1>7, <4>1
      <4> QED
        BY <1>7, <4>1, <4>2
    <3> QED
      BY <3>1, <3>2
  <2> HIDE DEF whole
  <2>4. pins = whole
    BY <2>2, <2>3, SameSequence
  <2> QED
    BY <2>4 DEF whole
<1> QED
  BY <1>7, <1>9, <1>10 DEF order, placed, Projection

LEMMA ProjectionIs ==
    ASSUME NEW pins \in Seq(Pins), NEW values, NEW n \in Nodes,
           NEW old \in SchemaNames, NEW new \in SchemaNames,
           StaticAmong(pins, values)[Len(pins)] = Statics(n, old),
           Wide(old) => ~Dynamic(values, Last(pins)),
           NEW qins, qins = Projection(pins, values, Statics(n, new))
    PROVE  qins \in Seq(Pins) /\ Carried(pins, qins, n, old, new)
<1>1. /\ <<n, "in">> \in Pins /\ <<n, "out">> \in Pins
      /\ Statics(n, old) = IF Wide(old) THEN <<<<n, "in">>, <<n, "out">>>> ELSE <<<<n, "in">>>>
      /\ Statics(n, new) = IF Wide(new) THEN <<<<n, "in">>, <<n, "out">>>> ELSE <<<<n, "in">>>>
  BY SchemaIs
<1>2. CASE Wide(old) <=> Wide(new)
  <2>1. Statics(n, new) = Statics(n, old) /\ Statics(n, old) \in Seq(Pins)
    BY <1>1, <1>2, StaticsIs
  <2>2. qins = pins
    BY <2>1, ProjectedSame
  <2> QED
    BY <1>2, <2>2 DEF Carried
<1>3. CASE Wide(new) /\ ~Wide(old)
  <2> DEFINE a == <<n, "in">>
             b == <<n, "out">>
  <2>1. a \in Pins /\ b \in Pins /\ Statics(n, old) = <<a>> /\ Statics(n, new) = <<a, b>>
    BY <1>1, <1>3
  <2> HIDE DEF a, b
  <2>2. qins = Append(pins, b)
    BY <2>1, ProjectedWider
  <2>3. Append(pins, b) \in Seq(Pins)
    BY <2>1
  <2> QED
    BY <1>3, <2>2, <2>3 DEF Carried, b
<1>4. CASE Wide(old) /\ ~Wide(new)
  <2>1. /\ Len(pins) - 1 \in 0..Len(pins) /\ Len(pins) \in 1..Len(pins)
        /\ pins[Len(pins)] = <<n, "out">>
        /\ StaticAmong(pins, values)[Len(pins) - 1] = <<<<n, "in">>>>
    BY <1>4, StaticFront
  <2>2. ~Dynamic(values, pins[Len(pins)])
    BY <1>4 DEF Last
  <2>3. qins \in Seq(Pins) /\ pins = Append(qins, pins[Len(pins)])
    <3> DEFINE a == <<n, "in">>
    <3>1. a \in Pins /\ Statics(n, new) = <<a>> /\ StaticAmong(pins, values)[Len(pins) - 1] = <<a>>
      BY <1>1, <1>4, <2>1
    <3> HIDE DEF a
    <3> DEFINE N == Len(pins)
               M == N - 1
    <3>2. /\ N = Len(pins) /\ N # 0 /\ M = N - 1 /\ StaticAmong(pins, values)[M] = <<a>>
          /\ ~Dynamic(values, pins[N])
      BY <2>1, <2>2, <3>1
    <3> HIDE DEF N, M
    <3>3. /\ Projection(pins, values, <<a>>) \in Seq(Pins)
          /\ pins = Append(Projection(pins, values, <<a>>), pins[N])
      BY <3>1, <3>2, ProjectedNarrower
    <3> QED
      BY <3>1, <3>2, <3>3
  <2> QED
    BY <1>4, <2>1, <2>3 DEF Carried
<1> QED
  BY <1>2, <1>3, <1>4

LEMMA AppendMembers ==
    ASSUME NEW S, NEW s \in Seq(S), NEW x \in S
    PROVE  /\ Append(s, x) \in Seq(S) /\ Len(Append(s, x)) = Len(s) + 1
           /\ \A i \in 1..Len(s) : Append(s, x)[i] = s[i]
           /\ Append(s, x)[Len(s) + 1] = x /\ Last(Append(s, x)) = x
           /\ ToSet(Append(s, x)) = ToSet(s) \cup {x}
           /\ IsInjective(Append(s, x)) <=> IsInjective(s) /\ x \notin ToSet(s)
<1> DEFINE t == Append(s, x)
           N == Len(s)
<1>1. /\ t \in Seq(S) /\ Len(t) = N + 1 /\ N \in Nat /\ t[N + 1] = x
      /\ \A i \in 1..N : t[i] = s[i]
      /\ DOMAIN t = 1..(N + 1) /\ DOMAIN s = 1..N
  OBVIOUS
<1>2. Last(t) = x
  BY <1>1 DEF Last
<1> HIDE DEF t, N
<1>3. \A i : i \in 1..(N + 1) <=> i \in 1..N \/ i = N + 1
  BY <1>1
<1>4. ToSet(t) = ToSet(s) \cup {x}
  BY <1>1, <1>3 DEF ToSet
<1>5. N + 1 \notin 1..N
  BY <1>1
<1>6. IsInjective(t) => IsInjective(s) /\ x \notin ToSet(s)
  BY <1>1, <1>3, <1>5 DEF IsInjective, ToSet
<1>7. IsInjective(s) /\ x \notin ToSet(s) => IsInjective(t)
  BY <1>1, <1>3 DEF IsInjective, ToSet
<1> QED
  BY <1>1, <1>2, <1>4, <1>6, <1>7 DEF t, N

\* The pins of a schema, as a node gets them.
Resolves(n, schema, values) ==
    /\ DOMAIN values = ToSet(Statics(n, schema))
    /\ \A p \in ToSet(Statics(n, schema)) :
          /\ values[p] \in PinValues
          /\ [values[p] EXCEPT !.read_only = FALSE] = ResolvePinSchema(schema).pins[p[2]]

LEMMA ResolvesStatic ==
    ASSUME NEW n \in Nodes, NEW schema \in SchemaNames, NEW values, Resolves(n, schema, values),
           NEW p \in ToSet(Statics(n, schema))
    PROVE  /\ p \in Pins /\ p[1] = n /\ p[2] \in {"in", "out"}
           /\ values[p] \in PinValues /\ values[p].storage = "static"
           /\ p[2] \in ToSet(ResolvePinSchema(schema).order)
<1>1. values[p] \in PinValues
      /\ [values[p] EXCEPT !.read_only = FALSE] = ResolvePinSchema(schema).pins[p[2]]
  BY DEF Resolves
<1>2. p = <<n, "in">> \/ (Wide(schema) /\ p = <<n, "out">>)
  BY StaticsIs
<1>3. /\ ToSet(ResolvePinSchema(schema).order) = IF Wide(schema) THEN {"in", "out"} ELSE {"in"}
      /\ \A key \in ToSet(ResolvePinSchema(schema).order) :
            ResolvePinSchema(schema).pins[key].storage = "static"
      /\ <<n, "in">> \in Pins /\ <<n, "out">> \in Pins
  BY SchemaIs
<1>4. p \in Pins /\ p[1] = n /\ p[2] \in {"in", "out"} /\ p[2] \in ToSet(ResolvePinSchema(schema).order)
  BY <1>2, <1>3
<1>5. values[p].storage = [values[p] EXCEPT !.read_only = FALSE].storage
  BY <1>1 DEF PinValues
<1> QED
  BY <1>1, <1>3, <1>4, <1>5

LEMMA ResolvedNow ==
    ASSUME NEW d \in Docs, NodesGood(d), NEW n \in Nodes, d.nodes[n] # None,
           ~Wide(d.nodes[n].schema)
    PROVE  d.pins[<<n, "out">>] = None /\ <<n, "out">> \notin ToSet(d.nodes[n].pins)
<1> DEFINE p == <<n, "out">>
           schema == d.nodes[n].schema
<1>1. /\ schema \in SchemaNames
      /\ \A q \in Pins : d.pins[q] # None /\ q[1] = n =>
            (q \in ToSet(Statics(n, schema)) <=> q[2] \in {"in", "out"})
  BY StaticPinsIs
<1>2. ToSet(Statics(n, schema)) = {<<n, "in">>}
  BY <1>1, StaticsIs
<1>3. p \in Pins /\ p[1] = n /\ p[2] = "out" /\ p # <<n, "in">>
  BY <1>1, SchemaIs
<1> HIDE DEF p, schema
<1>4. d.pins[p] = None
  BY <1>1, <1>2, <1>3
<1>5. p \notin ToSet(d.nodes[n].pins)
  BY <1>4 DEF NodesGood, Held
<1> QED
  BY <1>4, <1>5 DEF p

\* The pins that a node is left with.
LEMMA CarriedMembers ==
    ASSUME NEW d \in Docs, NodesGood(d), NEW n \in Nodes, d.nodes[n] # None,
           NEW new \in SchemaNames, NEW qins \in Seq(Pins),
           Carried(d.nodes[n].pins, qins, n, d.nodes[n].schema, new)
    PROVE  /\ ToSet(qins) = (ToSet(d.nodes[n].pins) \ ToSet(Statics(n, d.nodes[n].schema)))
                               \cup ToSet(Statics(n, new))
           /\ IsInjective(qins)
<1> DEFINE pins == d.nodes[n].pins
           old == d.nodes[n].schema
           before == ToSet(Statics(n, old))
           after == ToSet(Statics(n, new))
           in == <<n, "in">>
           out == <<n, "out">>
<1>1. pins \in Seq(Pins) /\ old \in SchemaNames /\ before \subseteq ToSet(pins)
  BY StaticPinsIs
<1>2. /\ before = {in} \cup IF Wide(old) THEN {out} ELSE {}
      /\ after = {in} \cup IF Wide(new) THEN {out} ELSE {}
      /\ in # out /\ in \in Pins /\ out \in Pins
  BY <1>1, StaticsIs, SchemaIs
<1>3. IsInjective(pins)
  BY DEF NodesGood, Held
<1>4. ~Wide(old) => out \notin ToSet(pins)
  BY ResolvedNow
<1>5. Carried(pins, qins, n, old, new)
  OBVIOUS
<1> HIDE DEF pins, old, before, after, in
<1>7. CASE Wide(new) /\ ~Wide(old)
  <2>1. qins = Append(pins, out)
    BY <1>5, <1>7 DEF Carried
  <2> HIDE DEF out
  <2>2. ToSet(qins) = ToSet(pins) \cup {out} /\ IsInjective(qins)
    BY <1>1, <1>2, <1>3, <1>4, <1>7, <2>1, AppendMembers
  <2>3. ToSet(qins) = (ToSet(pins) \ before) \cup after
    BY <1>1, <1>2, <1>7, <2>2
  <2> QED
    BY <2>2, <2>3 DEF pins, old, before, after
<1>8. CASE Wide(old) /\ ~Wide(new)
  <2>1. pins = Append(qins, out)
    BY <1>5, <1>8 DEF Carried
  <2> HIDE DEF out
  <2>2. ToSet(pins) = ToSet(qins) \cup {out} /\ IsInjective(qins) /\ out \notin ToSet(qins)
    BY <1>2, <1>3, <2>1, AppendMembers
  <2>3. ToSet(qins) = (ToSet(pins) \ before) \cup after
    BY <1>1, <1>2, <1>8, <2>2
  <2> QED
    BY <2>2, <2>3 DEF pins, old, before, after
<1>9. \/ Wide(old) <=> Wide(new)
      \/ Wide(new) /\ ~Wide(old)
      \/ Wide(old) /\ ~Wide(new)
  OBVIOUS
<1>10. CASE Wide(old) <=> Wide(new)
  <2>1. qins = pins /\ before = after
    BY <1>2, <1>5, <1>10 DEF Carried
  <2>2. ToSet(qins) = (ToSet(pins) \ before) \cup after
    BY <1>1, <2>1
  <2> QED
    BY <1>3, <2>1, <2>2 DEF pins, old, before, after
<1> QED
  BY <1>7, <1>8, <1>9, <1>10

\* e is d with the pins of another schema on n.
Reprojected(d, e, n, new, values, qins) ==
    /\ e \in Docs /\ d.nodes[n] # None /\ e.nodes[n] # None
    /\ e.nodes[n].pins = qins /\ e.nodes[n].schema = new
    /\ \A m \in Nodes \ {n} : e.nodes[m] = d.nodes[m]
    /\ \A p \in Pins : e.pins[p] =
          IF p \in ToSet(Statics(n, new)) THEN values[p]
          ELSE IF p \in ToSet(Statics(n, d.nodes[n].schema)) THEN None ELSE d.pins[p]

\* The dynamic pins of a node stay what they were, and are the same ones.
LEMMA DynamicKept ==
    ASSUME NEW d \in Docs, NodesGood(d), NEW n \in Nodes, NEW new \in SchemaNames, NEW values,
           Resolves(n, new, values), NEW qins \in Seq(Pins),
           Carried(d.nodes[n].pins, qins, n, d.nodes[n].schema, new),
           NEW e, Reprojected(d, e, n, new, values, qins),
           NEW p \in ToSet(d.nodes[n].pins), p \in ToSet(qins)
    PROVE  /\ p \in Pins
           /\ Dynamic(d.pins, p) <=> Dynamic(e.pins, p)
<1> DEFINE pins == d.nodes[n].pins
           old == d.nodes[n].schema
           before == ToSet(Statics(n, old))
           after == ToSet(Statics(n, new))
<1>0. d.nodes[n] # None
  BY DEF Reprojected
<1>1. /\ pins \in Seq(Pins) /\ old \in SchemaNames
      /\ \A q \in Pins : d.pins[q] # None /\ q[1] = n =>
            /\ q \in before <=> ~Dynamic(d.pins, q)
            /\ q \in before <=> q[2] \in {"in", "out"}
  BY <1>0, StaticPinsIs
<1>2. p \in Pins /\ d.pins[p] # None /\ p[1] = n
  BY <1>0, <1>1 DEF NodesGood, Held, ToSet
<1>3. ToSet(qins) = (ToSet(pins) \ before) \cup after
  BY <1>0, CarriedMembers
<1>4. \A q \in after : q[2] \in {"in", "out"} /\ values[q].storage = "static"
  BY ResolvesStatic
<1>5. e.pins[p] = IF p \in after THEN values[p] ELSE IF p \in before THEN None ELSE d.pins[p]
  BY <1>2 DEF Reprojected
<1> HIDE DEF pins, old, before, after
<1>6. CASE Dynamic(d.pins, p)
  <2>1. p \notin before /\ p \notin after
    BY <1>1, <1>2, <1>4, <1>6
  <2> QED
    BY <1>2, <1>5, <1>6, <2>1 DEF Dynamic
<1>7. CASE ~Dynamic(d.pins, p)
  <2>1. p \in before /\ p \in after
    BY <1>1, <1>2, <1>3, <1>7
  <2> QED
    BY <1>2, <1>4, <1>5, <1>7, <2>1 DEF Dynamic
<1> QED
  BY <1>6, <1>7

LEMMA AppendPair ==
    ASSUME NEW a, NEW b
    PROVE  Append(<<a>>, b) = <<a, b>>
<1> DEFINE S == {a, b}
           s == Append(<<a>>, b)
           t == <<a, b>>
<1>1. <<a>> \in Seq(S) /\ b \in S /\ Len(<<a>>) = 1 /\ <<a>>[1] = a
  OBVIOUS
<1>2. t \in Seq(S) /\ Len(t) = 2 /\ t[1] = a /\ t[2] = b
  OBVIOUS
<1>3. s \in Seq(S) /\ Len(s) = 1 + 1 /\ s[1] = a /\ s[1 + 1] = b
  <2> HIDE DEF S, s
  <2>1. /\ s \in Seq(S) /\ Len(s) = Len(<<a>>) + 1 /\ s[Len(<<a>>) + 1] = b
        /\ \A i \in 1..Len(<<a>>) : s[i] = <<a>>[i]
    BY <1>1, AppendMembers DEF s
  <2>2. 1 \in 1..1
    OBVIOUS
  <2> QED
    BY <1>1, <2>1, <2>2
<1> HIDE DEF s, t, S
<1>4. \A i \in 1..2 : i = 1 \/ i = 2
  OBVIOUS
<1>5. \A i \in 1..Len(s) : s[i] = t[i]
  BY <1>2, <1>3, <1>4
<1>6. Len(s) = Len(t)
  BY <1>2, <1>3
<1>7. s = t
  BY <1>2, <1>3, <1>5, <1>6, SameSequence
<1> QED
  BY <1>7 DEF s, t

LEMMA StaticsProjected ==
    ASSUME NEW d \in Docs, NodesGood(d), NEW n \in Nodes, NEW new \in SchemaNames, NEW values,
           Resolves(n, new, values), NEW qins \in Seq(Pins),
           Carried(d.nodes[n].pins, qins, n, d.nodes[n].schema, new),
           NEW e, Reprojected(d, e, n, new, values, qins)
    PROVE  /\ StaticOrder(e, n) = Statics(n, new)
           /\ Wide(new) => ~Dynamic(e.pins, Last(qins))
<1> DEFINE pins == d.nodes[n].pins
           old == d.nodes[n].schema
           s == StaticAmong(pins, d.pins)
           r == StaticAmong(qins, e.pins)
           out == <<n, "out">>
<1>1. d.nodes[n] # None /\ e.nodes[n].pins = qins /\ StaticOrder(e, n) = r[Len(qins)]
  BY DEF Reprojected, StaticOrder
<1>2. /\ pins \in Seq(Pins) /\ old \in SchemaNames /\ s[Len(pins)] = Statics(n, old)
      /\ ToSet(Statics(n, old)) \subseteq ToSet(pins)
  BY <1>1, StaticPinsIs DEF StaticOrder
<1>3. Wide(old) => ~Dynamic(d.pins, Last(pins))
  BY <1>1 DEF NodesGood, Fitted, Wide, Dynamic
<1>4. \A p \in ToSet(pins) : p \in ToSet(qins) =>
         p \in Pins /\ (Dynamic(d.pins, p) <=> Dynamic(e.pins, p))
  BY DynamicKept
<1>5. Carried(pins, qins, n, old, new)
  OBVIOUS
<1>6. /\ Statics(n, old) = IF Wide(old) THEN <<<<n, "in">>, out>> ELSE <<<<n, "in">>>>
      /\ Statics(n, new) = IF Wide(new) THEN <<<<n, "in">>, out>> ELSE <<<<n, "in">>>>
      /\ out \in Pins /\ <<n, "in">> \in Pins
  BY <1>2, SchemaIs
<1>7. ASSUME NEW m \in Nat, m <= Len(pins), m <= Len(qins), \A i \in 1..m : qins[i] = pins[i]
      PROVE  s[m] = r[m]
  <2>1. \A i \in 1..m : pins[i] \in ToSet(pins) /\ qins[i] \in ToSet(qins)
    BY <1>2, <1>7 DEF ToSet
  <2>2. \A i \in 1..m : /\ Dynamic(d.pins, pins[i]) <=> Dynamic(e.pins, qins[i])
                        /\ ~Dynamic(d.pins, pins[i]) => pins[i] = qins[i]
    BY <1>4, <1>7, <2>1
  <2> HIDE DEF pins
  <2>3. \A i \in 0..m : s[i] = r[i]
    BY <1>2, <1>7, <2>2, StaticSame
  <2> QED
    BY <2>3
<1> HIDE DEF s, r, pins, old
<1>8. CASE Wide(old) <=> Wide(new)
  <2>1. qins = pins /\ Statics(n, old) = Statics(n, new)
    BY <1>5, <1>6, <1>8 DEF Carried
  <2>2. Len(pins) \in Nat /\ Len(pins) <= Len(pins)
    BY <1>2
  <2>3. s[Len(pins)] = r[Len(pins)]
    BY <1>7, <2>1, <2>2
  <2>4. StaticOrder(e, n) = Statics(n, new)
    BY <1>1, <1>2, <2>1, <2>3
  <2>5. Wide(new) => ~Dynamic(e.pins, Last(qins))
    <3> SUFFICES ASSUME Wide(new) PROVE ~Dynamic(e.pins, Last(qins))
      OBVIOUS
    <3>1. ~Dynamic(d.pins, Last(pins))
      BY <1>3, <1>8
    <3>2. out \in ToSet(Statics(n, old))
      BY <1>2, <1>8, StaticsIs
    <3>3. Last(pins) \in ToSet(pins)
      <4>1. out \in ToSet(pins)
        BY <1>2, <3>2
      <4>2. Len(pins) \in DOMAIN pins
        BY <1>2, <4>1 DEF ToSet
      <4> QED
        BY <4>2 DEF Last, ToSet
    <3> QED
      BY <1>4, <2>1, <3>1, <3>3
  <2> QED
    BY <2>4, <2>5
<1>9. CASE Wide(new) /\ ~Wide(old)
  <2> DEFINE N == Len(pins)
  <2>1. qins = Append(pins, out)
    BY <1>5, <1>9 DEF Carried
  <2> HIDE DEF out
  <2>2. /\ N \in Nat /\ Len(qins) = N + 1 /\ \A i \in 1..N : qins[i] = pins[i]
        /\ qins[N + 1] = out /\ Last(qins) = out
    BY <1>2, <1>6, <2>1, AppendMembers
  <2>3. s[N] = r[N]
    BY <1>7, <2>2
  <2>4. ~Dynamic(e.pins, out)
    <3>1. out \in ToSet(Statics(n, new))
      BY <1>9, StaticsIs DEF out
    <3>2. e.pins[out] = values[out]
      BY <1>6, <3>1 DEF Reprojected
    <3>3. values[out].storage = "static"
      BY <3>1, ResolvesStatic
    <3> QED
      BY <3>2, <3>3 DEF Dynamic
  <2>5. r[N + 1] = Append(r[N], out)
    <3>1. \A i \in 1..Len(qins) : r[i] = IF Dynamic(e.pins, qins[i]) THEN r[i - 1]
                                         ELSE Append(r[i - 1], qins[i])
      BY StaticIs DEF r
    <3>2. N + 1 \in 1..Len(qins) /\ N + 1 - 1 = N
      BY <2>2
    <3>3. r[N + 1] = IF Dynamic(e.pins, qins[N + 1]) THEN r[N + 1 - 1]
                     ELSE Append(r[N + 1 - 1], qins[N + 1])
      BY <3>1, <3>2
    <3> QED
      BY <2>2, <2>4, <3>2, <3>3
  <2>6. Append(<<<<n, "in">>>>, out) = <<<<n, "in">>, out>>
    BY AppendPair
  <2> QED
    BY <1>1, <1>2, <1>6, <1>9, <2>2, <2>3, <2>4, <2>5, <2>6
<1>10. CASE Wide(old) /\ ~Wide(new)
  <2> DEFINE N == Len(qins)
  <2>1. pins = Append(qins, out)
    BY <1>5, <1>10 DEF Carried
  <2> HIDE DEF out
  <2>2. N \in Nat /\ Len(pins) = N + 1 /\ \A i \in 1..N : pins[i] = qins[i]
    BY <1>6, <2>1, AppendMembers
  <2>3. s[N] = r[N]
    BY <1>7, <2>2
  <2>4. s[N] = <<<<n, "in">>>>
    <3>1. StaticAmong(pins, d.pins)[Len(pins) - 1] = <<<<n, "in">>>>
      BY <1>2, <1>3, <1>10, StaticFront DEF s
    <3>2. Len(pins) - 1 = N
      BY <2>2
    <3> QED
      BY <3>1, <3>2 DEF s
  <2> QED
    BY <1>1, <1>6, <1>10, <2>3, <2>4
<1> QED
  BY <1>8, <1>9, <1>10

LEMMA NodesProjected ==
    ASSUME NEW d \in Docs, NodesGood(d), NEW n \in Nodes, NEW new \in SchemaNames, NEW values,
           Resolves(n, new, values), NEW qins \in Seq(Pins),
           Carried(d.nodes[n].pins, qins, n, d.nodes[n].schema, new),
           NEW e, Reprojected(d, e, n, new, values, qins)
    PROVE  NodesGood(e)
<1> DEFINE pins == d.nodes[n].pins
           old == d.nodes[n].schema
           before == ToSet(Statics(n, old))
           after == ToSet(Statics(n, new))
<1>1. /\ d.nodes[n] # None /\ e \in Docs /\ e.nodes[n] # None
      /\ e.nodes[n].pins = qins /\ e.nodes[n].schema = new
      /\ \A m \in Nodes \ {n} : e.nodes[m] = d.nodes[m]
      /\ \A p \in Pins : e.pins[p] = IF p \in after THEN values[p]
                                     ELSE IF p \in before THEN None ELSE d.pins[p]
  BY DEF Reprojected
<1>2. /\ pins \in Seq(Pins) /\ old \in SchemaNames
      /\ \A p \in before : p[1] = n
      /\ \A p \in Pins : d.pins[p] # None /\ p[1] = n => p \in ToSet(pins)
  <2>1. pins \in Seq(Pins) /\ old \in SchemaNames
    BY <1>1, StaticPinsIs
  <2>2. \A p \in before : p[1] = n
    <3>1. before = {<<n, "in">>} \cup IF Wide(old) THEN {<<n, "out">>} ELSE {}
      BY <2>1, StaticsIs
    <3> HIDE DEF before
    <3> QED
      BY <3>1
  <2>3. \A p \in Pins : d.pins[p] # None /\ p[1] = n => p \in ToSet(pins)
    BY <1>1, StaticPinsIs
  <2> QED
    BY <2>1, <2>2, <2>3
<1>3. \A p \in after : /\ p \in Pins /\ p[1] = n /\ p[2] \in {"in", "out"}
                       /\ values[p] \in PinValues /\ values[p].storage = "static"
                       /\ values[p] # None
  BY ResolvesStatic, NotNone
<1>4. ToSet(qins) = (ToSet(pins) \ before) \cup after /\ IsInjective(qins)
  BY <1>1, CarriedMembers
<1>5. \A p \in ToSet(pins) : p \in Pins /\ p[1] = n /\ d.pins[p] # None
  BY <1>1, <1>2 DEF NodesGood, Held, ToSet
<1>6. StaticOrder(e, n) = Statics(n, new) /\ (Wide(new) => ~Dynamic(e.pins, Last(qins)))
  BY StaticsProjected
<1>7. \A p \in after : [values[p] EXCEPT !.read_only = FALSE] = ResolvePinSchema(new).pins[p[2]]
  BY DEF Resolves
<1> HIDE DEF pins, old, before
<1>8. Held(e, n)
  BY <1>1, <1>3, <1>4, <1>5 DEF Held
<1>9. Fitted(e, n)
  <2>1. new # "narrow" => e.pins[Last(qins)].storage = "static"
    <3> SUFFICES ASSUME new # "narrow" PROVE e.pins[Last(qins)].storage = "static"
      OBVIOUS
    <3>1. ~Dynamic(e.pins, Last(qins))
      BY <1>6 DEF Wide
    <3>2. Last(qins) \in ToSet(qins)
      <4>1. after # {}
        BY StaticsIs
      <4>2. PICK i \in 1..Len(qins) : TRUE
        <5>1. ToSet(qins) # {} /\ DOMAIN qins = 1..Len(qins)
          BY <1>4, <4>1
        <5> QED
          BY <5>1 DEF ToSet
      <4>3. Len(qins) \in DOMAIN qins
        BY <4>2
      <4> QED
        BY <4>3 DEF Last, ToSet
    <3>3. Last(qins) \in Pins /\ e.pins[Last(qins)] # None
      BY <1>3, <1>4, <1>5, <1>8, <1>1, <3>2 DEF Held
    <3>4. e.pins[Last(qins)] \in PinValues
      BY <1>1, <3>3, PartsAre
    <3> QED
      BY <3>1, <3>4 DEF Dynamic, PinValues
  <2>2. \A p \in after : [e.pins[p] EXCEPT !.read_only = FALSE] = ResolvePinSchema(new).pins[p[2]]
    BY <1>1, <1>3, <1>7
  <2> QED
    BY <1>1, <1>6, <2>1, <2>2 DEF Fitted, MatchesDescriptor, Statics
<1> HIDE DEF after
<1>10. ASSUME NEW m \in Nodes, e.nodes[m] # None, m # n PROVE Held(e, m) /\ Fitted(e, m)
  <2>1. d.nodes[m] # None /\ e.nodes[m] = d.nodes[m]
    BY <1>1, <1>10
  <2>2. \A q \in ToSet(d.nodes[m].pins) : q \in Pins /\ q[1] # n
    <3>1. Held(d, m) /\ ToSet(d.nodes[m].pins) \subseteq Pins
      BY <2>1, PartsAre DEF NodesGood, NodeValues, ToSet
    <3> QED
      BY <1>10, <3>1 DEF Held
  <2>3. \A q \in ToSet(d.nodes[m].pins) : e.pins[q] = d.pins[q]
    BY <1>1, <1>2, <1>3, <2>2
  <2> QED
    BY <1>1, <2>1, <2>3, NodeAside
<1>11. ASSUME NEW q \in Pins, e.pins[q] # None PROVE Rooted(e, q)
  <2>1. CASE q \in after
    <3>1. q[1] = n /\ q \in ToSet(qins) /\ e.pins[q].storage = "static"
      BY <1>1, <1>3, <1>4, <2>1
    <3> QED
      BY <1>1, <3>1 DEF Rooted
  <2>2. CASE q \notin after
    <3>1. Rooted(d, q) /\ e.pins[q] = d.pins[q] /\ q \notin before /\ q[1] \in Nodes
      BY <1>1, <1>11, <2>2 DEF NodesGood, Pins
    <3>2. CASE q[1] = n
      <4>1. q \in ToSet(qins)
        BY <1>2, <1>4, <1>11, <3>1, <3>2
      <4> QED
        BY <1>1, <3>1, <3>2, <4>1 DEF Rooted
    <3>3. CASE q[1] # n
      BY <1>1, <3>1, <3>3 DEF Rooted
    <3> QED
      BY <3>2, <3>3
  <2> QED
    BY <2>1, <2>2
<1> QED
  BY <1>8, <1>9, <1>10, <1>11 DEF NodesGood

LEMMA PlanIs ==
    ASSUME NEW d \in Docs, NodesGood(d), NEW n \in Nodes, d.nodes[n] # None, NEW new \in SchemaNames
    PROVE  LET plan == PlanDescriptorPins(d, n, ResolvePinSchema(new)) IN
           /\ plan.order = Statics(n, new)
           /\ Resolves(n, new, plan.pins)
<1> DEFINE s == ResolvePinSchema(new)
           order == Statics(n, new)
           after == ToSet(order)
           pins == [p \in after |-> IF d.pins[p] = None THEN s.pins[p[2]]
                                    ELSE [s.pins[p[2]] EXCEPT !.read_only = d.pins[p].read_only]]
           plan == PlanDescriptorPins(d, n, s)
<1>1. plan.order = order /\ plan.pins = pins
  BY DEF PlanDescriptorPins, Statics
<1>2. after = {<<n, "in">>} \cup IF Wide(new) THEN {<<n, "out">>} ELSE {}
  BY StaticsIs
<1>3. /\ \A key \in ToSet(s.order) : s.pins[key] \in PinValues /\ s.pins[key].read_only = FALSE
      /\ ToSet(s.order) = IF Wide(new) THEN {"in", "out"} ELSE {"in"}
      /\ <<n, "in">> \in Pins /\ <<n, "out">> \in Pins
  BY SchemaIs
<1> HIDE DEF s, after, plan
<1>4. ASSUME NEW p \in after
      PROVE  /\ pins[p] \in PinValues
             /\ [pins[p] EXCEPT !.read_only = FALSE] = s.pins[p[2]]
  <2>1. p \in Pins /\ p[2] \in ToSet(s.order)
    BY <1>2, <1>3
  <2>2. s.pins[p[2]] \in PinValues /\ s.pins[p[2]].read_only = FALSE
    BY <1>3, <2>1
  <2>3. d.pins[p] # None => d.pins[p].read_only \in BOOLEAN
    <3>1. d.pins[p] # None => d.pins[p] \in PinValues
      BY <2>1, PartsAre
    <3> QED
      BY <3>1 DEF PinValues
  <2>4. pins[p] = IF d.pins[p] = None THEN s.pins[p[2]]
                  ELSE [s.pins[p[2]] EXCEPT !.read_only = d.pins[p].read_only]
    OBVIOUS
  <2> HIDE DEF pins
  <2>5. ASSUME NEW v \in PinValues, v.read_only = FALSE, NEW flag \in BOOLEAN
        PROVE  /\ [v EXCEPT !.read_only = flag] \in PinValues
               /\ [v EXCEPT !.read_only = FALSE] = v
               /\ [[v EXCEPT !.read_only = flag] EXCEPT !.read_only = FALSE] = v
    BY <2>5 DEF PinValues
  <2>6. CASE d.pins[p] = None
    <3>1. pins[p] = s.pins[p[2]]
      BY <2>4, <2>6
    <3> QED
      BY <2>2, <2>5, <3>1
  <2>7. CASE d.pins[p] # None
    <3> DEFINE flag == d.pins[p].read_only
               v == s.pins[p[2]]
    <3>1. pins[p] = [v EXCEPT !.read_only = flag] /\ flag \in BOOLEAN /\ v \in PinValues
          /\ v.read_only = FALSE
      BY <2>2, <2>3, <2>4, <2>7
    <3> HIDE DEF flag, v
    <3>2. /\ [v EXCEPT !.read_only = flag] \in PinValues
          /\ [[v EXCEPT !.read_only = flag] EXCEPT !.read_only = FALSE] = v
      BY <3>1 DEF PinValues
    <3>3. pins[p] \in PinValues /\ [pins[p] EXCEPT !.read_only = FALSE] = v
      BY <3>1, <3>2
    <3> QED
      BY <3>3 DEF v
  <2> QED
    BY <2>6, <2>7
<1>5. Resolves(n, new, pins)
  BY <1>4 DEF Resolves, after, s
<1> QED
  BY <1>1, <1>5 DEF plan, s

\* What is projected onto a node is put in the places of its static pins.
LEMMA ProjectsIs ==
    ASSUME NEW d \in Docs, NodesGood(d), NEW n \in Nodes, d.nodes[n] # None, NEW new \in SchemaNames,
           NEW w \in Docs, w.nodes[n] # None, w.nodes[n].pins = d.nodes[n].pins, w.pins = d.pins,
           NEW projected, projected.order = Statics(n, new), Resolves(n, new, projected.pins)
    PROVE  /\ StaticOrder(w, n) = Statics(n, d.nodes[n].schema)
           /\ \E qins \in Seq(Pins) : /\ Carried(d.nodes[n].pins, qins, n, d.nodes[n].schema, new)
                                      /\ Projects(w, n, projected, qins)
<1> DEFINE pins == d.nodes[n].pins
           old == d.nodes[n].schema
           qins == ProjectedOrder(w, n, projected.order)
           before == ToSet(Statics(n, old))
           after == ToSet(Statics(n, new))
<1>1. /\ pins \in Seq(Pins) /\ old \in SchemaNames /\ StaticOrder(d, n) = Statics(n, old)
  BY StaticPinsIs
<1>2. StaticOrder(w, n) = Statics(n, old) /\ StaticAmong(pins, d.pins)[Len(pins)] = Statics(n, old)
  BY <1>1 DEF StaticOrder
<1>3. qins = Projection(pins, d.pins, Statics(n, new))
  BY DEF ProjectedOrder, Projection
<1>4. Wide(old) => ~Dynamic(d.pins, Last(pins))
  BY DEF NodesGood, Fitted, Wide, Dynamic
<1>5. qins \in Seq(Pins) /\ Carried(pins, qins, n, old, new)
  <2> HIDE DEF qins, pins, old
  <2> QED
    BY <1>1, <1>2, <1>3, <1>4, ProjectionIs
<1>6. /\ before = {<<n, "in">>} \cup IF Wide(old) THEN {<<n, "out">>} ELSE {}
      /\ after = {<<n, "in">>} \cup IF Wide(new) THEN {<<n, "out">>} ELSE {}
      /\ <<n, "in">> \in Pins /\ <<n, "out">> \in Pins
  BY <1>1, StaticsIs, SchemaIs
<1>7. \A p \in after : /\ p \in Pins /\ p[1] = n /\ projected.pins[p] \in PinValues
  BY ResolvesStatic
<1>8. DOMAIN projected.pins = after
  BY DEF Resolves
<1>9. ~Wide(old) => w.pins[<<n, "out">>] = None
  BY ResolvedNow
<1> HIDE DEF qins, before, after
<1>10. \A p \in before : p \in Pins /\ p[1] = n
  BY <1>6
<1>11. \A p \in after \ before : w.pins[p] = None
  BY <1>6, <1>9
<1>12. Projects(w, n, projected, qins)
  BY <1>2, <1>5, <1>7, <1>8, <1>10, <1>11 DEF Projects, qins, before
<1> QED
  BY <1>2, <1>5, <1>12

\* The links that a change of the pins breaks are all in s.
Breaks(d, n, new, values, s) ==
    \A p \in ToSet(Statics(n, d.nodes[n].schema)) :
       (p \in ToSet(Statics(n, new)) => values[p] # d.pins[p]) =>
          \A l \in IncidentLinks(d, p) :
             l \notin s => LocalLinkValid(d, values, ToSet(Statics(n, d.nodes[n].schema)), l)

\* The pins of a link are those that the library looked at.
LEMMA LinksProjected ==
    ASSUME NEW d \in Docs, NodesGood(d), LinksGood(d), NEW n \in Nodes, d.nodes[n] # None,
           NEW new \in SchemaNames, NEW values, Resolves(n, new, values),
           NEW qins, NEW e, Reprojected(d, e, n, new, values, qins),
           NEW broken \in SUBSET Links,
           \A l \in Links : e.links[l] = IF l \in broken THEN None ELSE d.links[l],
           Breaks(d, n, new, values, broken)
    PROVE  LinksGood(e)
<1> DEFINE before == ToSet(Statics(n, d.nodes[n].schema))
           after == ToSet(Statics(n, new))
           Same(p) == e.pins[p] = d.pins[p]
<1>1. /\ e \in Docs
      /\ \A p \in Pins : e.pins[p] = IF p \in after THEN values[p]
                                     ELSE IF p \in before THEN None ELSE d.pins[p]
  BY DEF Reprojected
<1>2. DOMAIN values = after
  BY DEF Resolves
<1>3. \A p \in after \ before : d.pins[p] = None
  <2>1. d.nodes[n].schema \in SchemaNames
    BY StaticPinsIs
  <2>2. /\ before = {<<n, "in">>} \cup IF Wide(d.nodes[n].schema) THEN {<<n, "out">>} ELSE {}
        /\ after = {<<n, "in">>} \cup IF Wide(new) THEN {<<n, "out">>} ELSE {}
    BY <2>1, StaticsIs
  <2>3. ~Wide(d.nodes[n].schema) => d.pins[<<n, "out">>] = None
    BY ResolvedNow
  <2> HIDE DEF before, after
  <2> QED
    BY <2>2, <2>3
<1>4. ASSUME NEW l \in Links, e.links[l] # None
      PROVE  /\ e.links[l] = d.links[l] /\ d.links[l] # None /\ l \notin broken
             /\ d.links[l].output \in Pins /\ d.links[l].input \in Pins
             /\ d.pins[d.links[l].output] # None /\ d.pins[d.links[l].input] # None
             /\ d.pins[d.links[l].output].direction = "out"
             /\ d.pins[d.links[l].input].direction = "in"
             /\ Check(d.pins[d.links[l].output].type, d.pins[d.links[l].input].type) = "allowed"
  <2>1. e.links[l] = d.links[l] /\ d.links[l] # None /\ l \notin broken
    BY <1>4
  <2>2. d.links[l] \in LinkValues
    BY <2>1, PartsAre
  <2> QED
    BY <2>1, <2>2 DEF LinksGood, Joins, LinkValues
<1>5. ASSUME NEW l \in Links, e.links[l] # None, NEW p \in Ends(d, l), ~Same(p)
      PROVE  /\ Joins(e, e.links[l])
             /\ \A q \in Ends(d, l) : e.pins[q].single => IncidentLinks(d, q) = {l}
  <2>1. p \in Pins /\ d.pins[p] # None /\ l \in IncidentLinks(d, p)
    BY <1>4, <1>5 DEF Ends, IncidentLinks
  <2>2. p \in before /\ (p \in after => values[p] # d.pins[p])
    BY <1>1, <1>3, <1>5, <2>1
  <2>3. LocalLinkValid(d, values, before, l)
    BY <1>4, <1>5, <2>1, <2>2 DEF Breaks
  <2> DEFINE o == d.links[l].output
             i == d.links[l].input
  <2>4. /\ e.pins[o] # None /\ e.pins[i] # None
        /\ e.pins[o].direction = "out" /\ e.pins[i].direction = "in"
        /\ e.pins[o].single => IncidentLinks(d, o) = {l}
        /\ e.pins[i].single => IncidentLinks(d, i) = {l}
        /\ Check(e.pins[o].type, e.pins[i].type) = "allowed"
    <3> DEFINE resolved(q) == IF q \in DOMAIN values THEN values[q]
                             ELSE IF q \in before THEN None ELSE d.pins[q]
    <3>1. /\ resolved(o) # None /\ resolved(i) # None
          /\ resolved(o).direction = "out" /\ resolved(i).direction = "in"
          /\ resolved(o).single => IncidentLinks(d, o) = {l}
          /\ resolved(i).single => IncidentLinks(d, i) = {l}
          /\ Check(resolved(o).type, resolved(i).type) = "allowed"
      BY <2>3, Zenon DEF LocalLinkValid
    <3>2. o \in Pins /\ i \in Pins
      BY <1>4, <1>5
    <3>3. e.pins[o] = resolved(o) /\ e.pins[i] = resolved(i)
      <4> HIDE DEF o, i, before, after
      <4> QED
        BY <1>1, <1>2, <3>2
    <3> HIDE DEF resolved, o, i
    <3> QED
      BY <3>1, <3>3
  <2> QED
    BY <1>4, <1>5, <2>4 DEF Joins, Ends
<1>6. ASSUME NEW l \in Links, e.links[l] # None PROVE Joins(e, e.links[l])
  <2>1. CASE \E p \in Ends(d, l) : ~Same(p)
    BY <1>5, <1>6, <2>1
  <2>2. CASE \A p \in Ends(d, l) : Same(p)
    <3>1. /\ e.pins[d.links[l].output] = d.pins[d.links[l].output]
          /\ e.pins[d.links[l].input] = d.pins[d.links[l].input]
      BY <2>2 DEF Ends
    <3> QED
      BY <1>4, <1>6, <3>1 DEF Joins
  <2> QED
    BY <2>1, <2>2
<1>7. ASSUME NEW l \in Links, NEW m \in Links, l # m, e.links[l] # None, e.links[m] # None
      PROVE  Distinct(e, l, m)
  <2>1. e.links[l] = d.links[l] /\ e.links[m] = d.links[m] /\ d.links[l] # None /\ d.links[m] # None
    BY <1>4, <1>7
  <2>2. Distinct(d, l, m)
    BY <1>7, <2>1 DEF LinksGood
  <2>3. ASSUME NEW p \in Ends(d, l) \cap Ends(d, m) PROVE ~e.pins[p].single
    <3>1. CASE Same(p)
      BY <2>2, <2>3, <3>1 DEF Distinct
    <3>2. CASE ~Same(p)
      <4>1. e.pins[p].single => IncidentLinks(d, p) = {l}
        BY <1>5, <1>7, <2>3, <3>2
      <4>2. m \in IncidentLinks(d, p)
        BY <2>1, <2>3 DEF IncidentLinks, Ends
      <4> QED
        BY <1>7, <4>1, <4>2
    <3> QED
      BY <3>1, <3>2
  <2>4. Ends(e, l) = Ends(d, l) /\ Ends(e, m) = Ends(d, m)
    BY <2>1 DEF Ends
  <2> QED
    BY <2>1, <2>2, <2>3, <2>4 DEF Distinct
<1> QED
  BY <1>6, <1>7 DEF LinksGood

\* What is kept of a node whose property changes.
PropertyKept(d, n, new, saved, s) ==
    /\ saved.schema = d.nodes[n].schema
    /\ saved.before.order = Statics(n, d.nodes[n].schema)
    /\ Resolves(n, d.nodes[n].schema, saved.before.pins)
    /\ \A p \in ToSet(Statics(n, d.nodes[n].schema)) : saved.before.pins[p] = d.pins[p]
    /\ saved.after.order = Statics(n, new) /\ Resolves(n, new, saved.after.pins)
    /\ s \in SUBSET Links /\ saved.links = Snapshot(d, s) /\ DOMAIN saved.links = s
    /\ \A l \in s : d.links[l] # None
    /\ Breaks(d, n, new, saved.after.pins, s)

LEMMA PropertyKeptIs ==
    ASSUME NEW d \in Docs, NodesGood(d), NEW n \in Nodes, d.nodes[n] # None,
           NEW new \in SchemaNames, NEW c, c.node = n, c.schema = new
    PROVE  \E s \in SUBSET Links : PropertyKept(d, n, new, CaptureProperty(d, c), s)
<1> DEFINE old == d.nodes[n].schema
           order == Statics(n, old)
           before == ToSet(order)
           plan == PlanDescriptorPins(d, n, ResolvePinSchema(new))
           values == plan.pins
           pins == [p \in before |-> d.pins[p]]
           changed == {p \in before : p \in DOMAIN values => values[p] # d.pins[p]}
           s == {l \in UNION {IncidentLinks(d, p) : p \in changed} :
                     ~LocalLinkValid(d, values, before, l)}
           saved == CaptureProperty(d, c)
<1>1. plan.order = Statics(n, new) /\ Resolves(n, new, values)
  BY PlanIs
<1>2. StaticOrder(d, n) = order /\ old \in SchemaNames
  BY StaticPinsIs
<1> HIDE DEF plan
<1>3. /\ saved.schema = old
      /\ saved.before.order = order
      /\ saved.before.pins = pins
      /\ saved.after = plan
      /\ saved.links = Snapshot(d, s)
  BY <1>2 DEF CaptureProperty, plan
<1> HIDE DEF saved
<1>4. Resolves(n, old, pins)
  <2>1. \A p \in before : d.pins[p] \in PinValues
    BY StaticPinsIs
  <2>2. \A p \in before : [d.pins[p] EXCEPT !.read_only = FALSE] = ResolvePinSchema(old).pins[p[2]]
    <3>1. MatchesDescriptor(d, n)
      BY DEF NodesGood, Fitted
    <3> HIDE DEF order
    <3> QED
      BY <1>2, <3>1 DEF MatchesDescriptor
  <2> QED
    BY <2>1, <2>2 DEF Resolves
<1>5. s \in SUBSET Links /\ \A l \in s : d.links[l] # None
  BY DEF IncidentLinks
<1>6. DOMAIN Snapshot(d, s) = s
  BY DEF Snapshot
<1>7. DOMAIN values = ToSet(Statics(n, new))
  BY <1>1 DEF Resolves
<1>8. Breaks(d, n, new, values, s)
  <2> SUFFICES ASSUME NEW p \in before, p \in ToSet(Statics(n, new)) => values[p] # d.pins[p],
                      NEW l \in IncidentLinks(d, p), l \notin s
               PROVE  LocalLinkValid(d, values, before, l)
    BY DEF Breaks
  <2>1. p \in changed
    <3> HIDE DEF before
    <3> QED
      BY <1>7
  <2> HIDE DEF changed, before, values
  <2> QED
    BY <2>1
<1> HIDE DEF s, values, order, old
<1>9. PropertyKept(d, n, new, saved, s)
  BY <1>1, <1>3, <1>4, <1>5, <1>6, <1>8 DEF PropertyKept, values, order, old
<1> QED
  BY <1>5, <1>9 DEF saved

\* e is d without the links R.
Missing(d, e, R) ==
    /\ e.pins = d.pins
    /\ \A l \in Links :
          /\ e.links[l] = IF l \in R THEN None ELSE d.links[l]
          /\ e.link_states[l] = IF l \in R THEN None ELSE d.link_states[l]
\* The links s of those that d had are back, each with what was shown of it.
Relinked(d, t, S, x, s) ==
    /\ x # None /\ Follows(t, x) /\ LinksAside(t.now, x.now)
    /\ Missing(d, x.now, S \ s)

LEMMA RelinkFollows ==
    ASSUME NEW t \in Transactions, NEW l \in Links, NEW saved,
           saved.link \in LinkValues, saved.state \in LinkStates \cup {None}
    PROVE  LET x == Relink(t, l, saved) IN x # None => Follows(t, x)
<1> DEFINE y == AddLink(t, l, saved.link)
           x == SetLinkPresentation(y, l, saved.state)
<1>1. Relink(t, l, saved) = IF y = None THEN None ELSE x
  BY DEF Relink, Then
<1>2. ASSUME y # None, x # None PROVE Follows(t, x)
  <2>1. Follows(t, y)
    BY <1>2, AddLinkIs
  <2>2. y \in Transactions
    BY <2>1 DEF Follows
  <2> HIDE DEF y
  <2>3. Follows(y, x)
    BY <1>2, <2>2, SetLinkPresentationIs
  <2> QED
    BY <2>1, <2>3, FollowsOn
<1> QED
  BY <1>1, <1>2

\* One more link of d is put back.
LEMMA RelinkIs ==
    ASSUME NEW d \in Docs, LinksGood(d), NEW owner, OwnsPoints(owner, d),
           NEW t \in Transactions, ~t.enforce,
           NEW R \in SUBSET Links, NEW l \in R, d.links[l] # None, Missing(d, t.now, R),
           NEW saved, saved.link = d.links[l], saved.state = d.link_states[l]
    PROVE  LET x == Relink(t, l, saved) IN
           /\ x # None /\ Follows(t, x) /\ LinksAside(t.now, x.now)
           /\ Missing(d, x.now, R \ {l})
<1> DEFINE y == AddLink(t, l, d.links[l])
           x == SetLinkPresentation(y, l, d.link_states[l])
<1>1. Relink(t, l, saved) = IF y = None THEN None ELSE x
  BY DEF Relink, Then
<1>2. /\ l \in Links /\ t.now \in Docs
      /\ d.links[l] \in LinkValues /\ d.link_states[l] \in LinkStates \cup {None}
  BY NowIs, PartsAre
<1>3. t.now.links[l] = None /\ Connects(t.now, d.links[l])
  BY <1>2, ConnectsAgain DEF Missing
<1>4. /\ y # None /\ Follows(t, y) /\ OnlyLink(t.now, y.now, l)
      /\ y.now.links[l] = d.links[l]
  BY <1>2, <1>3, AddLinkIs
<1> HIDE DEF y
<1>5. /\ y \in Transactions /\ ~y.enforce
      /\ \A m \in Links : y.now.link_states[m] = IF m \in R THEN None ELSE d.link_states[m]
  BY <1>4 DEF Follows, OnlyLink, OnlyStructure, Missing
<1>6. Unshared(y.now, l, d.link_states[l])
  <2> SUFFICES ASSUME d.link_states[l] # None, NEW point \in DOMAIN d.link_states[l].route,
                      NEW m \in RoutePointOwner(y.now, point)
               PROVE  m = l
    BY DEF Unshared
  <2>1. m \in Links /\ y.now.link_states[m] # None /\ point \in DOMAIN y.now.link_states[m].route
    BY DEF RoutePointOwner
  <2>2. d.link_states[m] # None /\ point \in DOMAIN d.link_states[m].route
    BY <1>5, <2>1
  <2> QED
    BY <1>2, <2>1, <2>2 DEF OwnsPoints, OwnPoints
<1>7. /\ x # None /\ Follows(y, x) /\ OnlyLinkState(y.now, x.now, l)
      /\ x.now.link_states[l] = d.link_states[l]
  BY <1>2, <1>4, <1>5, <1>6, SetLinkPresentationIs
<1> HIDE DEF x
<1>8. Follows(t, x)
  BY <1>4, <1>7, FollowsOn
<1>9. LinksAside(t.now, x.now)
  BY <1>4, <1>7 DEF LinksAside, OnlyLink, OnlyStructure, OnlyLinkState, OnlyLinkStates
<1>10. Missing(d, x.now, R \ {l})
  <2> SUFFICES ASSUME NEW m \in Links
               PROVE  /\ x.now.links[m] = IF m \in R \ {l} THEN None ELSE d.links[m]
                      /\ x.now.link_states[m] = IF m \in R \ {l} THEN None ELSE d.link_states[m]
    <3>1. x.now.pins = d.pins
      BY <1>9 DEF LinksAside, Missing
    <3> QED
      BY <3>1 DEF Missing
  <2>1. x.now.links[m] = y.now.links[m]
    BY <1>7 DEF OnlyLinkState, OnlyLinkStates
  <2>2. CASE m = l
    BY <1>4, <1>7, <2>1, <2>2
  <2>3. CASE m # l
    <3>1. y.now.links[m] = t.now.links[m] /\ x.now.link_states[m] = y.now.link_states[m]
      BY <1>4, <1>7, <2>3 DEF OnlyLink, OnlyLinkState
    <3> QED
      BY <1>5, <2>1, <2>3, <3>1 DEF Missing
  <2> QED
    BY <2>2, <2>3
<1> QED
  BY <1>1, <1>4, <1>7, <1>8, <1>9, <1>10 DEF x

LEMMA RelinkFold ==
    ASSUME NEW d \in Docs, LinksGood(d), NEW owner, OwnsPoints(owner, d),
           NEW t \in Transactions, ~t.enforce,
           NEW S \in SUBSET Links, Missing(d, t.now, S),
           NEW saved, DOMAIN saved = S,
           \A l \in S : /\ d.links[l] # None /\ saved[l].link = d.links[l]
                        /\ saved[l].state = d.link_states[l]
    PROVE  Relinked(d, t, S, RelinkAll(t, saved), S)
<1> DEFINE Step(x, n) == Then(x, LAMBDA y : Relink(y, n, saved[n]))
           Loop(f) == f = [s \in SUBSET (S) |->
                              IF s = {} THEN t
                              ELSE LET n == CHOOSE n \in s : TRUE IN Step(f[s \ {n}], n)]
           step == [p \in Staged \X (S) |-> Step(p[1], p[2])]
           h == CHOOSE f : Loop(f)
           D == {s \in SUBSET (S) : Relinked(d, t, S, h[s], s)}
<1>1. IsFiniteSet(S) /\ t \in Staged /\ t # None
  BY FS_Subset, ElementDocumentAssumption, NowIs
<1>2. ASSUME NEW x \in Staged, NEW n \in S PROVE Step(x, n) \in Staged
  <2>0. saved[n].link \in LinkValues /\ saved[n].state \in LinkStates \cup {None}
    BY PartsAre
  <2>1. CASE x = None
    BY <2>1 DEF Then, Staged
  <2>2. CASE x # None
    <3>1. x \in Transactions /\ n \in Links
      BY <2>2 DEF Staged
    <3>2. Relink(x, n, saved[n]) # None => Follows(x, Relink(x, n, saved[n]))
      BY <3>1, <2>0, RelinkFollows
    <3> QED
      BY <2>2, <3>2 DEF Then, Staged, Follows
  <2> QED
    BY <2>1, <2>2
<1>3. Relinked(d, t, S, t, {})
  <2>1. S \ {} = S /\ LinksAside(t.now, t.now)
    BY NowIs DEF LinksAside
  <2> QED
    BY <1>1, <2>1, NowIs DEF Relinked
<1>4. ASSUME NEW x, NEW s \in SUBSET (S), NEW n \in (S) \ s, Relinked(d, t, S, x, s)
      PROVE  Relinked(d, t, S, Step(x, n), s \cup {n})
  <2> DEFINE y == Relink(x, n, saved[n])
             R == S \ s
  <2>1. x # None /\ Follows(t, x) /\ LinksAside(t.now, x.now) /\ Missing(d, x.now, R)
    BY <1>4 DEF Relinked
  <2>2. x \in Transactions /\ ~x.enforce
    BY <2>1 DEF Follows
  <2>3. Step(x, n) = y
    BY <2>1 DEF Then
  <2>4. R \in SUBSET Links /\ n \in R /\ S \ (s \cup {n}) = R \ {n}
    OBVIOUS
  <2>5. d.links[n] # None /\ saved[n].link = d.links[n] /\ saved[n].state = d.link_states[n]
    OBVIOUS
  <2> HIDE DEF Step, R, D, h, step
  <2>6. y # None /\ Follows(x, y) /\ LinksAside(x.now, y.now) /\ Missing(d, y.now, R \ {n})
    BY <2>1, <2>2, <2>4, <2>5, RelinkIs
  <2> HIDE DEF y
  <2>7. Follows(t, y) /\ LinksAside(t.now, y.now)
    BY <2>1, <2>6, FollowsOn DEF LinksAside
  <2> QED
    BY <2>3, <2>4, <2>6, <2>7 DEF Relinked
<1> HIDE DEF Step
<1>5. step \in [Staged \X (S) -> Staged]
  <2> SUFFICES ASSUME NEW p \in Staged \X (S) PROVE Step(p[1], p[2]) \in Staged
    OBVIOUS
  <2> QED
    BY <1>2
<1>6. Folds(S, t, step) # {}
  <2> HIDE DEF step
  <2> QED
    BY <1>1, <1>5, FoldsExist
<1>7. PICK g : g \in Folds(S, t, step)
  BY <1>6
<1>8. Loop(g)
  <2> HIDE DEF Staged
  <2>1. g \in [SUBSET (S) -> Staged] /\ g[{}] = t
    BY <1>7 DEF Folds
  <2>2. ASSUME NEW s \in SUBSET (S), s # {}
        PROVE  g[s] = LET n == CHOOSE n \in s : TRUE IN Step(g[s \ {n}], n)
    <3> DEFINE n == CHOOSE n \in s : TRUE
    <3>1. n \in s /\ g[s \ {n}] \in Staged /\ Rest(s) = s \ {n}
      BY <2>1, <2>2 DEF Rest
    <3>2. g[s] = step[<<g[Rest(s)], n>>]
      BY <1>7, <2>2 DEF Folds
    <3> HIDE DEF n
    <3>3. step[<<g[s \ {n}], n>>] = Step(g[s \ {n}], n)
      BY <3>1
    <3> HIDE DEF step
    <3>4. g[s] = Step(g[s \ {n}], n)
      BY <3>1, <3>2, <3>3
    <3> QED
      BY <3>4 DEF n
  <2> HIDE DEF step
  <2>3. g = [s \in SUBSET (S) |-> g[s]]
    BY <2>1
  <2> QED
    BY <2>1, <2>2, <2>3, ZenonT(20)
<1> HIDE DEF step
<1>9. RelinkAll(t, saved) = h[S]
  BY DEF RelinkAll, ForEach, FoldSet, MapThenFoldSet, Then, Step
<1>10. Loop(h)
  <2> HIDE DEF Loop
  <2> QED
    BY <1>8
<1> HIDE DEF h
<1>11. {} \in D
  BY <1>3, <1>10
<1>12. ASSUME NEW s \in SUBSET (S), s # {}, s \ {CHOOSE n \in s : TRUE} \in D PROVE s \in D
  <2> DEFINE n == CHOOSE n \in s : TRUE
  <2>1. n \in s /\ Relinked(d, t, S, h[s \ {n}], s \ {n})
    BY <1>12
  <2>2. h[s] = Step(h[s \ {n}], n)
    BY <1>10, <1>12
  <2> HIDE DEF n, D, Loop
  <2>3. (s \ {n}) \cup {n} = s /\ n \in (S) \ (s \ {n}) /\ s \ {n} \in SUBSET (S)
    BY <2>1
  <2>4. Relinked(d, t, S, h[s], s)
    BY <1>4, <2>1, <2>2, <2>3
  <2> QED
    BY <2>4 DEF D
<1> HIDE DEF D, Loop
<1>13. S \in D
  BY <1>1, <1>11, <1>12, SubsetInduct
<1> QED
  BY <1>9, <1>13 DEF D

LEMMA RelinkAllIs ==
    ASSUME NEW d \in Docs, Good(d), NEW S \in SUBSET Links, \A l \in S : d.links[l] # None,
           NEW t \in Transactions, ~t.enforce, t.now.pins = d.pins,
           \A l \in Links : t.now.links[l] = IF l \in S THEN None ELSE d.links[l],
           \A l \in Links : t.now.link_states[l] = IF l \in S THEN None ELSE d.link_states[l]
    PROVE  LET x == RelinkAll(t, Snapshot(d, S)) IN
           /\ x # None /\ x \in Transactions /\ ~x.enforce
           /\ x.now.links = d.links /\ x.now.link_states = d.link_states
           /\ x.now \in Docs /\ x.now.read_only = t.now.read_only
           /\ x.now.nodes = t.now.nodes /\ x.now.pins = t.now.pins
           /\ x.now.node_states = t.now.node_states /\ x.now.groups = t.now.groups
<1> DEFINE saved == Snapshot(d, S)
           x == RelinkAll(t, saved)
<1>1. /\ DOMAIN saved = S
      /\ \A l \in S : saved[l].link = d.links[l] /\ saved[l].state = d.link_states[l]
  BY DEF Snapshot
<1> HIDE DEF saved
<1>2. LinksGood(d) /\ ValidPresentation(d)
  BY GoodFrom
<1>3. PICK owner : OwnsPoints(owner, d)
  BY <1>2, OwnerIs
<1>4. Relinked(d, t, S, x, S)
  <2>1. Missing(d, t.now, S)
    BY DEF Missing
  <2> QED
    BY <1>1, <1>2, <1>3, <2>1, RelinkFold
<1> HIDE DEF x
<1>5. /\ x # None /\ Follows(t, x) /\ LinksAside(t.now, x.now)
      /\ \A l \in Links : x.now.links[l] = d.links[l] /\ x.now.link_states[l] = d.link_states[l]
  BY <1>4 DEF Relinked, Missing
<1>6. x.now.links = d.links /\ x.now.link_states = d.link_states
  <2>1. x.now \in Docs
    BY <1>5 DEF LinksAside
  <2> QED
    BY <1>5, <2>1, PartsAre
<1>7. x \in Transactions /\ ~x.enforce
  BY <1>5 DEF Follows
<1> QED
  BY <1>5, <1>6, <1>7 DEF LinksAside, x, saved

LEMMA PropertyUndoes ==
    ASSUME NEW d \in Docs, Good(d), NEW n \in Nodes, d.nodes[n] # None,
           NEW new \in SchemaNames, NEW r \in BOOLEAN
    PROVE  Undoes(d, [kind |-> "property", node |-> n, schema |-> new, reject |-> r])
<1> DEFINE c == [kind |-> "property", node |-> n, schema |-> new, reject |-> r]
           b == Begin(d, TRUE)
           t == Executed(d, c)
           e == Led(d, c)
           f == Begin(e, FALSE)
           u == TakenBack(d, c)
           saved == Capture(d, c)
           pins == d.nodes[n].pins
           old == d.nodes[n].schema
           before == ToSet(Statics(n, old))
           after == ToSet(Statics(n, new))
           S == DOMAIN saved.links
           x == UnlinkAll(b, S)
           y == SetNodeProperty(x, n, new)
           v == SetNodeProperty(f, n, old)
           w == SetDescriptorPins(v, n, saved.before)
<1>1. NodesGood(d) /\ LinksGood(d) /\ ValidPresentation(d)
  BY GoodFrom
<1>2. PropertyKept(d, n, new, saved, S)
  <2>1. saved = CaptureProperty(d, c) /\ c.node = n /\ c.schema = new
    BY DEF Capture
  <2> HIDE DEF c, saved
  <2>2. PICK s \in SUBSET Links : PropertyKept(d, n, new, saved, s)
    BY <1>1, <2>1, PropertyKeptIs
  <2> QED
    BY <2>2 DEF PropertyKept
<1>3. /\ t # None => x # None /\ y # None /\ t = SetDescriptorPins(y, n, saved.after)
      /\ v # None /\ w # None => u = RelinkAll(w, saved.links)
  <2>1. c.node = n /\ c.schema = new
    OBVIOUS
  <2>2. t = ApplyProperty(b, c, saved) /\ u = RevertProperty(f, c, saved)
    <3> HIDE DEF b, f, x, y, v, w, S
    <3> QED
      BY DEF Executed, TakenBack, Apply, Revert, b, f, saved
  <2> HIDE DEF saved, b, f, c, t, u
  <2>3. saved.schema = old
    BY <1>2 DEF PropertyKept
  <2> QED
    BY <2>1, <2>2, <2>3 DEF ApplyProperty, RevertProperty, Then, When
<1>4. /\ saved.links = Snapshot(d, S) /\ S \in SUBSET Links /\ \A l \in S : d.links[l] # None
      /\ saved.after.order = Statics(n, new) /\ Resolves(n, new, saved.after.pins)
      /\ saved.before.order = Statics(n, old) /\ Resolves(n, old, saved.before.pins)
      /\ \A p \in before : saved.before.pins[p] = d.pins[p]
      /\ DOMAIN saved.after.pins = after /\ DOMAIN saved.before.pins = before
      /\ Breaks(d, n, new, saved.after.pins, S)
  BY <1>2 DEF PropertyKept, Resolves
<1>5. b \in Transactions /\ b.now = d /\ b.base = d
  BY ExecutedIs
<1> HIDE DEF saved, c
<1> SUFFICES ASSUME t # None
             PROVE  /\ e \in Docs /\ Good(e) /\ Permitted(b, d, e)
                    /\ u \in Transactions /\ u.now = d
  <2>1. Undoes(d, c)
    BY PermittedUndoes DEF Changes
  <2> QED
    BY <2>1 DEF c
<1> HIDE DEF b, S
<1>6. /\ x # None /\ y # None /\ t = SetDescriptorPins(y, n, saved.after)
  BY <1>3
<1>7. /\ Follows(b, x) /\ LinksAside(d, x.now) /\ Permitted(b, d, x.now)
      /\ \A l \in Links : x.now.links[l] = IF l \in S THEN None ELSE d.links[l]
      /\ \A l \in Links : x.now.link_states[l] = IF l \in S THEN None ELSE d.link_states[l]
  <2> HIDE DEF t, y
  <2> QED
    BY <1>4, <1>5, <1>6, UnlinkAllIs DEF Unlinked
<1>8. /\ x \in Transactions /\ x.base = d /\ x.now \in Docs
      /\ x.now.nodes = d.nodes /\ x.now.pins = d.pins
      /\ x.now.read_only = d.read_only /\ x.now.node_states = d.node_states
      /\ x.now.groups = d.groups
  BY <1>5, <1>7 DEF Follows, LinksAside
<1> HIDE DEF x, pins
<1>9. /\ Follows(x, y) /\ OnlyNode(x.now, y.now, n) /\ Permitted(x, x.now, y.now)
      /\ y.now.nodes[n] = [d.nodes[n] EXCEPT !.schema = new]
  <2> HIDE DEF t
  <2> QED
    BY <1>6, <1>8, SetNodePropertyIs
<1>10. d.nodes[n] \in NodeValues
  BY PartsAre
<1>11. /\ y \in Transactions /\ y.base = d /\ y.now \in Docs /\ OnlyStructure(x.now, y.now)
       /\ y.now.pins = d.pins /\ y.now.links = x.now.links
       /\ y.now.nodes[n] # None /\ y.now.nodes[n].pins = pins /\ y.now.nodes[n].schema = new
       /\ \A m \in Nodes \ {n} : y.now.nodes[m] = d.nodes[m]
  <2>1. y.now.nodes[n] \in NodeValues /\ y.now.nodes[n].pins = pins /\ y.now.nodes[n].schema = new
    BY <1>9, <1>10 DEF NodeValues, pins
  <2> QED
    BY <1>8, <1>9, <2>1, NotNone DEF Follows, OnlyNode
<1> HIDE DEF y
<1>12. PICK qins \in Seq(Pins) : /\ Carried(pins, qins, n, old, new)
                                 /\ Projects(y.now, n, saved.after, qins)
                                 /\ StaticOrder(y.now, n) = Statics(n, old)
  BY <1>1, <1>4, <1>11, ProjectsIs DEF pins, old
<1>13. /\ Follows(y, t) /\ Projected(y.now, e, n, saved.after, qins) /\ Permitted(y, y.now, e)
  <2>1. e = t.now
    BY DEF Led, t, e
  <2> HIDE DEF t, e
  <2> QED
    BY <1>6, <1>11, <1>12, <2>1, SetDescriptorPinsIs
<1> HIDE DEF t, e
<1>14. /\ e \in Docs /\ OnlyStructure(y.now, e) /\ e.links = y.now.links
       /\ e.nodes[n] # None /\ e.nodes[n] = [y.now.nodes[n] EXCEPT !.pins = qins]
       /\ e.nodes[n].pins = qins /\ e.nodes[n].schema = new
       /\ \A m \in Nodes \ {n} : e.nodes[m] = y.now.nodes[m]
       /\ \A p \in Pins : e.pins[p] = IF p \in after THEN saved.after.pins[p]
                                      ELSE IF p \in before THEN None ELSE d.pins[p]
  <2> HIDE DEF before, after
  <2> QED
    BY <1>4, <1>11, <1>12, <1>13 DEF Projected, before
<1>15. /\ \A l \in Links : e.links[l] = IF l \in S THEN None ELSE d.links[l]
       /\ \A l \in Links : e.link_states[l] = IF l \in S THEN None ELSE d.link_states[l]
       /\ e.read_only = d.read_only /\ e.node_states = d.node_states /\ e.groups = d.groups
  <2> HIDE DEF before, after
  <2> QED
    BY <1>7, <1>8, <1>11, <1>14 DEF OnlyStructure
<1>16. Permitted(b, d, e)
  <2>1. Permitted(b, x.now, y.now)
    BY <1>5, <1>7, <1>9, PermittedIs
  <2>2. Permitted(x, y.now, e)
    BY <1>8, <1>9, <1>13, PermittedIs
  <2>3. Permitted(b, y.now, e)
    BY <1>5, <1>7, <2>2, PermittedIs
  <2> QED
    BY <1>7, <2>1, <2>3, PermittedOn
<1>17. Reprojected(d, e, n, new, saved.after.pins, qins)
  <2> HIDE DEF before, after
  <2> QED
    BY <1>11, <1>14 DEF Reprojected, before, after, old
<1>18. Good(e)
  <2>1. NodesGood(e)
    BY <1>1, <1>4, <1>12, <1>17, NodesProjected DEF pins, old
  <2>2. LinksGood(e)
    BY <1>1, <1>4, <1>15, <1>17, LinksProjected
  <2>3. \A m \in Nodes : d.nodes[m] # None => e.nodes[m] # None
    BY <1>11, <1>14
  <2>4. ValidPresentation(e)
    <3>2. \A m \in Nodes : /\ e.node_states[m] \in {None, d.node_states[m]}
                           /\ e.node_states[m] # None => e.nodes[m] # None
      BY <1>1, <1>15, <2>3 DEF ValidPresentation
    <3>3. \A l \in Links : /\ e.link_states[l] \in {None, d.link_states[l]}
                           /\ e.link_states[l] # None => e.links[l] # None
      BY <1>1, <1>15 DEF ValidPresentation
    <3>4. \A g \in Groups : e.groups[g] # None => \A m \in e.groups[g].members : e.nodes[m] # None
      <4>1. \A g \in Groups : d.groups[g] # None => d.groups[g].members \subseteq Nodes
        BY PartsAre DEF GroupValues
      <4> QED
        BY <1>1, <1>15, <2>3, <4>1 DEF ValidPresentation
    <3> QED
      BY <1>1, <1>14, <3>2, <3>3, <3>4, ShownLess
  <2> QED
    BY <1>14, <2>1, <2>2, <2>4, GoodFrom
<1>19. f \in Transactions /\ f.now = e /\ ~f.enforce
  BY <1>14, RevertedIs
<1>20. old \in SchemaNames /\ before \subseteq Pins
  BY <1>1, StaticPinsIs
<1> HIDE DEF f, u
<1>21. /\ v # None /\ Follows(f, v) /\ OnlyNode(e, v.now, n)
       /\ v.now.nodes[n] = [e.nodes[n] EXCEPT !.schema = old]
  <2> HIDE DEF w, before, old
  <2>1. v = SetNodeProperty(f, n, old) /\ f.now.nodes[n] # None
    BY <1>14, <1>19
  <2> HIDE DEF v
  <2> QED
    <3>1. /\ v # None /\ Follows(f, v) /\ OnlyNode(f.now, v.now, n)
          /\ v.now.nodes[n] = [f.now.nodes[n] EXCEPT !.schema = old]
      BY <1>19, <1>20, <2>1, SetNodePropertyIs
    <3> QED
      BY <1>19, <3>1
<1> HIDE DEF v
<1>22. e.nodes[n] \in NodeValues
  BY <1>14, PartsAre
<1>23. /\ v \in Transactions /\ ~v.enforce /\ v.now \in Docs /\ OnlyStructure(e, v.now)
       /\ v.now.pins = e.pins /\ v.now.links = e.links
       /\ v.now.nodes[n] # None /\ v.now.nodes[n].pins = qins
       /\ \A m \in Nodes \ {n} : v.now.nodes[m] = e.nodes[m]
  <2> HIDE DEF old, before, after
  <2>1. v.now.nodes[n] \in NodeValues /\ v.now.nodes[n].pins = qins
    BY <1>14, <1>20, <1>21, <1>22 DEF NodeValues
  <2> QED
    BY <1>19, <1>21, <2>1, NotNone DEF Follows, OnlyNode
<1>24. PICK rins \in Seq(Pins) : /\ Carried(qins, rins, n, new, old)
                                 /\ Projects(v.now, n, saved.before, rins)
                                 /\ StaticOrder(v.now, n) = Statics(n, new)
  <2>1. NodesGood(e)
    BY <1>14, <1>18, GoodFrom
  <2> HIDE DEF old
  <2> QED
    <3>1. /\ v.now.nodes[n].pins = e.nodes[n].pins /\ v.now.pins = e.pins
          /\ e.nodes[n].schema = new /\ e.nodes[n].pins = qins
      BY <1>14, <1>23
    <3>2. /\ StaticOrder(v.now, n) = Statics(n, e.nodes[n].schema)
          /\ \E rins \in Seq(Pins) : /\ Carried(e.nodes[n].pins, rins, n, e.nodes[n].schema, old)
                                     /\ Projects(v.now, n, saved.before, rins)
      BY <1>4, <1>14, <1>20, <1>23, <2>1, <3>1, ProjectsIs
    <3> QED
      BY <3>1, <3>2
<1>25. rins = pins
  <2>1. pins \in Seq(Pins)
    BY <1>10 DEF NodeValues, pins
  <2> HIDE DEF old
  <2> QED
    BY <1>12, <1>24, <2>1, CarriedBack
<1>26. \A p \in after \ before : p \in Pins /\ d.pins[p] = None
  <2>1. /\ before = {<<n, "in">>} \cup IF Wide(old) THEN {<<n, "out">>} ELSE {}
        /\ after = {<<n, "in">>} \cup IF Wide(new) THEN {<<n, "out">>} ELSE {}
    BY <1>20, StaticsIs
  <2>2. ~Wide(old) => d.pins[<<n, "out">>] = None
    BY <1>1, ResolvedNow DEF old
  <2>3. <<n, "out">> \in Pins
    BY DEF Pins, Keys
  <2> HIDE DEF before, after
  <2> QED
    BY <2>1, <2>2, <2>3
<1>27. Unlinks(v.now, n, saved.before)
  <2>1. ASSUME NEW p \in after \ before PROVE IncidentLinks(v.now, p) = {}
    <3>1. \A l \in Links : d.links[l] # None => p \notin Ends(d, l)
      BY <1>1, <1>26 DEF LinksGood, Joins, Ends
    <3>2. \A l \in Links : v.now.links[l] \in {None, d.links[l]}
      <4> HIDE DEF before, after
      <4> QED
        BY <1>15, <1>23
    <3> QED
      BY <3>1, <3>2 DEF IncidentLinks, Ends
  <2> HIDE DEF before, after
  <2> QED
    BY <1>4, <1>24, <2>1 DEF Unlinks, before, after
<1>28. w # None /\ Follows(v, w) /\ Projected(v.now, w.now, n, saved.before, pins)
  <2>1. Projects(v.now, n, saved.before, pins)
    BY <1>24, <1>25
  <2>2. w = SetDescriptorPins(v, n, saved.before)
    OBVIOUS
  <2> HIDE DEF w
  <2> QED
    BY <1>23, <1>27, <2>1, <2>2, SetDescriptorPinsIs
<1> HIDE DEF w
<1>29. w \in Transactions /\ ~w.enforce /\ w.now \in Docs /\ OnlyStructure(v.now, w.now)
       /\ w.now.links = e.links
  BY <1>23, <1>28 DEF Follows, Projected
<1>30. w.now.pins = d.pins
  <2>1. \A p \in Pins : w.now.pins[p] = IF p \in before THEN saved.before.pins[p]
                                        ELSE IF p \in after THEN None ELSE e.pins[p]
    <3> HIDE DEF before, after
    <3> QED
      BY <1>4, <1>23, <1>24, <1>28 DEF Projected, after
  <2> HIDE DEF before, after
  <2>2. \A p \in Pins : w.now.pins[p] = d.pins[p]
    BY <1>4, <1>14, <1>26, <2>1
  <2> QED
    BY <1>29, <2>2, PartsAre
<1>31. w.now.nodes = d.nodes
  <2>1. w.now.nodes[n] = d.nodes[n]
    <3>1. w.now.nodes[n] = [v.now.nodes[n] EXCEPT !.pins = pins]
      BY <1>28 DEF Projected
    <3>3. /\ y.now.nodes[n] \in NodeValues
          /\ y.now.nodes[n].name = d.nodes[n].name
          /\ y.now.nodes[n].read_only = d.nodes[n].read_only
      BY <1>9, <1>10 DEF NodeValues
    <3>4. /\ e.nodes[n].name = d.nodes[n].name
          /\ e.nodes[n].read_only = d.nodes[n].read_only
      BY <1>14, <3>3 DEF NodeValues
    <3>5. /\ v.now.nodes[n] \in NodeValues
          /\ v.now.nodes[n].name = d.nodes[n].name
          /\ v.now.nodes[n].read_only = d.nodes[n].read_only
          /\ v.now.nodes[n].schema = old
      <4> HIDE DEF old
      <4> QED
        BY <1>20, <1>21, <1>22, <3>4 DEF NodeValues
    <3> QED
      BY <1>10, <3>1, <3>5 DEF NodeValues, pins
  <2>2. \A m \in Nodes \ {n} : w.now.nodes[m] = d.nodes[m]
    <3>1. \A m \in Nodes \ {n} : w.now.nodes[m] = v.now.nodes[m]
      BY <1>28 DEF Projected
    <3> QED
      BY <1>11, <1>14, <1>23, <3>1
  <2> QED
    BY <1>29, <2>1, <2>2, PartsAre
<1>32. /\ \A l \in Links : w.now.links[l] = IF l \in S THEN None ELSE d.links[l]
       /\ \A l \in Links : w.now.link_states[l] = IF l \in S THEN None ELSE d.link_states[l]
       /\ w.now.read_only = d.read_only /\ w.now.node_states = d.node_states
       /\ w.now.groups = d.groups
  BY <1>15, <1>23, <1>29 DEF OnlyStructure
<1>33. u = RelinkAll(w, Snapshot(d, S))
  BY <1>3, <1>4, <1>21, <1>28
<1>34. /\ u # None /\ u \in Transactions /\ u.now \in Docs
       /\ u.now.links = d.links /\ u.now.link_states = d.link_states
       /\ u.now.read_only = w.now.read_only /\ u.now.nodes = w.now.nodes
       /\ u.now.pins = w.now.pins /\ u.now.node_states = w.now.node_states
       /\ u.now.groups = w.now.groups
  BY <1>4, <1>29, <1>30, <1>32, <1>33, RelinkAllIs
<1>35. u.now = d
  BY <1>30, <1>31, <1>32, <1>34, SameDocument
<1> QED
  BY <1>14, <1>16, <1>18, <1>34, <1>35

-----------------------------------------------------------------------------
(* Nodes                                                                   *)

\* A node comes with its pins.
NodeOn(d, e, n, node, pins) ==
    /\ e \in Docs /\ OnlyStructure(d, e) /\ e.links = d.links
    /\ e.nodes[n] = node /\ \A m \in Nodes \ {n} : e.nodes[m] = d.nodes[m]
    /\ \A p \in Pins : e.pins[p] = IF p \in DOMAIN pins THEN pins[p] ELSE d.pins[p]
\* A node goes with its pins.
NodeOff(d, e, n) ==
    /\ e \in Docs /\ OnlyStructure(d, e) /\ e.links = d.links
    /\ e.nodes[n] = None /\ \A m \in Nodes \ {n} : e.nodes[m] = d.nodes[m]
    /\ \A p \in Pins : e.pins[p] = IF p \in ToSet(d.nodes[n].pins) THEN None ELSE d.pins[p]

LEMMA InsertNodeIs ==
    ASSUME NEW d \in Docs, NEW n \in Nodes, NEW node \in NodeValues,
           NEW D \in SUBSET Pins, NEW pins \in [D -> PinValues]
    PROVE  LET e == InsertNode(d, n, node, pins) IN
           IF d.nodes[n] = None /\ (\A p \in D : d.pins[p] = None)
           THEN e # None /\ NodeOn(d, e, n, node, pins)
           ELSE e = None
<1> DEFINE nodes == [d.nodes EXCEPT ![n] = node]
           values == [p \in Pins |-> IF p \in D THEN pins[p] ELSE d.pins[p]]
           g == [d EXCEPT !.nodes = nodes, !.pins = values]
           free == d.nodes[n] = None /\ (\A p \in D : d.pins[p] = None)
           e == InsertNode(d, n, node, pins)
<1>1. /\ d.nodes \in [Nodes -> NodeValues \cup {None}]
      /\ d.pins \in [Pins -> PinValues \cup {None}]
      /\ DOMAIN d = {"read_only", "nodes", "pins", "links", "node_states", "link_states", "groups"}
  BY PartsAre DEF Docs
<1>2. /\ nodes \in [Nodes -> NodeValues \cup {None}]
      /\ nodes[n] = node /\ \A m \in Nodes \ {n} : nodes[m] = d.nodes[m]
  BY <1>1
<1>3. values \in [Pins -> PinValues \cup {None}]
  BY <1>1
<1>4. e = IF free THEN g ELSE None
  <2>1. DOMAIN pins = D
    OBVIOUS
  <2>2. e = IF free
            THEN [d EXCEPT !.nodes[n] = node,
                           !.pins = [p \in Pins |-> IF p \in D THEN pins[p] ELSE @[p]]]
            ELSE None
    BY <2>1 DEF InsertNode, When
  <2> HIDE DEF e, free
  <2>3. [d EXCEPT !.nodes[n] = node,
                  !.pins = [p \in Pins |-> IF p \in D THEN pins[p] ELSE @[p]]] = g
    BY <1>1
  <2> QED
    BY <2>2, <2>3
<1>5. OnlyStructure(d, g) /\ g.nodes = nodes /\ g.pins = values /\ g.links = d.links
  <2> HIDE DEF nodes, values
  <2> QED
    <3>1. d.links \in [Links -> LinkValues \cup {None}]
      BY PartsAre
    <3>2. g \in Docs
      BY <1>2, <1>3 DEF Docs
    <3> QED
      BY <1>1, <3>2 DEF OnlyStructure
<1>6. NodeOn(d, g, n, node, pins) /\ g # None
  <2>1. g \in Docs
    BY <1>5 DEF OnlyStructure
  <2>2. \A p \in Pins : g.pins[p] = IF p \in D THEN pins[p] ELSE d.pins[p]
    <3> HIDE DEF g
    <3> QED
      BY <1>5
  <2>3. DOMAIN pins = D
    OBVIOUS
  <2> HIDE DEF g, nodes, values
  <2> QED
    BY <1>2, <1>5, <2>1, <2>2, <2>3, NotNone DEF NodeOn
<1> QED
  BY <1>4, <1>6

LEMMA EraseNodeIs ==
    ASSUME NEW d \in Docs, NEW n \in Nodes, d.nodes[n] # None, LinksOfNode(d, n) = {}
    PROVE  LET e == EraseNode(d, n) IN e # None /\ NodeOff(d, e, n)
<1> DEFINE nodes == [d.nodes EXCEPT ![n] = None]
           D == ToSet(d.nodes[n].pins)
           values == [p \in Pins |-> IF p \in D THEN None ELSE d.pins[p]]
           g == [d EXCEPT !.nodes = nodes, !.pins = values, !.links = d.links]
           e == EraseNode(d, n)
<1>1. /\ d.nodes \in [Nodes -> NodeValues \cup {None}]
      /\ d.pins \in [Pins -> PinValues \cup {None}]
      /\ d.links \in [Links -> LinkValues \cup {None}]
      /\ DOMAIN d = {"read_only", "nodes", "pins", "links", "node_states", "link_states", "groups"}
  BY PartsAre DEF Docs
<1>2. /\ nodes \in [Nodes -> NodeValues \cup {None}]
      /\ nodes[n] = None /\ \A m \in Nodes \ {n} : nodes[m] = d.nodes[m]
  BY <1>1
<1>3. values \in [Pins -> PinValues \cup {None}]
  BY <1>1
<1>4. e = g
  <2>1. e = [d EXCEPT !.nodes[n] = None,
                      !.pins = [p \in Pins |-> IF p \in D THEN None ELSE @[p]],
                      !.links = [l \in Links |-> IF l \in {} THEN None ELSE @[l]]]
    BY DEF EraseNode, When
  <2> HIDE DEF e, D
  <2>2. [d EXCEPT !.nodes[n] = None,
                  !.pins = [p \in Pins |-> IF p \in D THEN None ELSE @[p]],
                  !.links = [l \in Links |-> IF l \in {} THEN None ELSE @[l]]] = g
    <3>1. [l \in Links |-> IF l \in {} THEN None ELSE d.links[l]] = d.links
      BY <1>1
    <3> QED
      BY <1>1, <3>1
  <2> QED
    BY <2>1, <2>2
<1>5. OnlyStructure(d, g) /\ g.nodes = nodes /\ g.pins = values /\ g.links = d.links
  <2> HIDE DEF nodes, values
  <2> QED
    BY <1>1, <1>2, <1>3, PutStructure
<1>6. NodeOff(d, g, n) /\ g # None
  <2>1. g \in Docs
    BY <1>5 DEF OnlyStructure
  <2>2. \A p \in Pins : g.pins[p] = IF p \in D THEN None ELSE d.pins[p]
    <3> HIDE DEF g, D
    <3> QED
      BY <1>5
  <2> HIDE DEF g, nodes, values
  <2> QED
    BY <1>2, <1>5, <2>1, <2>2, NotNone DEF NodeOff
<1> QED
  BY <1>4, <1>6

LEMMA AddNodeIs ==
    ASSUME NEW t \in Transactions, NEW n \in Nodes, NEW node \in NodeValues,
           NEW D \in SUBSET Pins, NEW pins \in [D -> PinValues]
    PROVE  LET x == AddNode(t, n, node, pins) IN
           /\ x # None =>
                 /\ Follows(t, x) /\ NodeOn(t.now, x.now, n, node, pins)
                 /\ t.now.nodes[n] = None /\ \A p \in D : t.now.pins[p] = None
                 /\ Permitted(t, t.now, x.now)
           /\ ~t.enforce /\ t.now.nodes[n] = None /\ (\A p \in D : t.now.pins[p] = None) => x # None
<1> DEFINE d == t.now
           g == InsertNode(d, n, node, pins)
           x == AddNode(t, n, node, pins)
<1>1. d \in Docs
  BY NowIs
<1>2. x = IF ~GraphReadOnly(t) THEN Stage(t, g) ELSE None
  BY DEF AddNode, When
<1>3. IF d.nodes[n] = None /\ (\A p \in D : d.pins[p] = None)
      THEN g # None /\ NodeOn(d, g, n, node, pins) ELSE g = None
  BY <1>1, InsertNodeIs
<1> HIDE DEF g, x
<1>4. ASSUME x # None
      PROVE  /\ Follows(t, x) /\ NodeOn(d, x.now, n, node, pins)
             /\ d.nodes[n] = None /\ \A p \in D : d.pins[p] = None
             /\ Permitted(t, d, x.now)
  <2>1. ~GraphReadOnly(t) /\ x = Stage(t, g) /\ g # None
    BY <1>2, <1>4 DEF Stage
  <2>2. /\ NodeOn(d, g, n, node, pins) /\ g \in Docs
        /\ d.nodes[n] = None /\ \A p \in D : d.pins[p] = None
    BY <1>3, <2>1 DEF NodeOn
  <2>3. Follows(t, x) /\ x.now = g
    BY <2>1, <2>2, StageIs
  <2>4. OpenGraph(t)
    BY <2>1, ProtectionIs
  <2> HIDE DEF d
  <2>5. /\ \A m \in Nodes : d.nodes[m] # None => g.nodes[m] = d.nodes[m]
        /\ \A p \in Pins : d.pins[p] # None => g.pins[p] = d.pins[p]
        /\ g.links = d.links /\ g.node_states = d.node_states
        /\ g.link_states = d.link_states /\ g.groups = d.groups
    BY <2>2 DEF NodeOn, OnlyStructure
  <2>6. Permitted(t, d, g)
    BY <2>4, <2>5 DEF Permitted
  <2> QED
    BY <2>2, <2>3, <2>6
<1>5. ASSUME ~t.enforce, d.nodes[n] = None, \A p \in D : d.pins[p] = None PROVE x # None
  <2>1. ~GraphReadOnly(t) /\ g \in Docs
    BY <1>3, <1>5, FreeIs DEF NodeOn
  <2> QED
    BY <1>2, <2>1, StageIs
<1> QED
  BY <1>4, <1>5 DEF x

LEMMA RemoveNodeIs ==
    ASSUME NEW t \in Transactions, NEW n \in Nodes,
           t.now.nodes[n] # None =>
              LinksOfNode(t.now, n) = {} /\ \A p \in ToSet(t.now.nodes[n].pins) : p[1] = n
    PROVE  LET x == RemoveNode(t, n) IN
           /\ x # None =>
                 /\ Follows(t, x) /\ t.now.nodes[n] # None
                 /\ NodeOff(t.now, x.now, n)
                 /\ Permitted(t, t.now, x.now)
           /\ ~t.enforce /\ t.now.nodes[n] # None => x # None
<1> DEFINE d == t.now
           g == EraseNode(d, n)
           x == RemoveNode(t, n)
<1>1. d \in Docs
  BY NowIs
<1>2. x = IF /\ d.nodes[n] # None
             /\ ~GraphReadOnly(t) /\ ~NodeReadOnly(t, n)
             /\ \A p \in ToSet(d.nodes[n].pins) : ~PinReadOnly(t, p)
             /\ t.enforce => \A l \in LinksOfNode(d, n) : CheckLinkRemoval(t, l)
          THEN Stage(t, g) ELSE None
  BY DEF RemoveNode, When
<1>3. d.nodes[n] # None => g # None /\ NodeOff(d, g, n)
  BY <1>1, EraseNodeIs
<1> HIDE DEF g, x
<1>4. ASSUME x # None
      PROVE  /\ Follows(t, x) /\ d.nodes[n] # None
             /\ NodeOff(d, x.now, n)
             /\ Permitted(t, d, x.now)
  <2>1. /\ ~GraphReadOnly(t) /\ ~NodeReadOnly(t, n) /\ d.nodes[n] # None
        /\ \A p \in ToSet(d.nodes[n].pins) : ~PinReadOnly(t, p)
        /\ x = Stage(t, g)
    BY <1>2, <1>4
  <2>2. NodeOff(d, g, n) /\ g \in Docs
    BY <1>3, <2>1 DEF NodeOff
  <2>3. Follows(t, x) /\ x.now = g
    BY <2>1, <2>2, StageIs
  <2>4. OpenGraph(t) /\ FreeNode(t, n) /\ \A p \in ToSet(d.nodes[n].pins) : FreePin(t, p)
    BY <2>1, ProtectionIs
  <2>5. \A p \in ToSet(d.nodes[n].pins) : FreeEnd(t, p)
    BY <2>1, <2>4 DEF FreeEnd
  <2> HIDE DEF d
  <2>6. /\ \A m \in Nodes : g.nodes[m] # d.nodes[m] => m = n
        /\ \A p \in Pins : g.pins[p] # d.pins[p] => p \in ToSet(d.nodes[n].pins)
        /\ g.links = d.links /\ g.node_states = d.node_states
        /\ g.link_states = d.link_states /\ g.groups = d.groups
    BY <2>2 DEF NodeOff, OnlyStructure
  <2>7. Permitted(t, d, g)
    BY <2>4, <2>5, <2>6 DEF Permitted
  <2> QED
    BY <2>1, <2>2, <2>3, <2>7
<1>5. ASSUME ~t.enforce, d.nodes[n] # None PROVE x # None
  <2>1. /\ ~GraphReadOnly(t) /\ ~NodeReadOnly(t, n) /\ g \in Docs
        /\ \A p \in ToSet(d.nodes[n].pins) : ~PinReadOnly(t, p)
    BY <1>3, <1>5, FreeIs DEF NodeOff
  <2> QED
    BY <1>2, <1>5, <2>1, StageIs
<1> QED
  BY <1>4, <1>5 DEF x

LEMMA RemoveNodeFollows ==
    ASSUME NEW t \in Transactions, NEW n \in Nodes, RemoveNode(t, n) # None
    PROVE  Follows(t, RemoveNode(t, n))
<1> DEFINE d == t.now
           D == ToSet(d.nodes[n].pins)
           S == LinksOfNode(d, n)
           nodes == [d.nodes EXCEPT ![n] = None]
           pins == [p \in Pins |-> IF p \in D THEN None ELSE d.pins[p]]
           links == [l \in Links |-> IF l \in S THEN None ELSE d.links[l]]
           g == [d EXCEPT !.nodes = nodes, !.pins = pins, !.links = links]
<1>1. d \in Docs
  BY NowIs
<1>2. /\ d.nodes \in [Nodes -> NodeValues \cup {None}]
      /\ d.pins \in [Pins -> PinValues \cup {None}]
      /\ d.links \in [Links -> LinkValues \cup {None}]
      /\ DOMAIN d = {"read_only", "nodes", "pins", "links", "node_states", "link_states", "groups"}
  BY <1>1, PartsAre DEF Docs
<1>3. EraseNode(d, n) \in {None, g}
  <2>1. EraseNode(d, n) \in {None, [d EXCEPT !.nodes[n] = None,
                      !.pins = [p \in Pins |-> IF p \in D THEN None ELSE @[p]],
                      !.links = [l \in Links |-> IF l \in S THEN None ELSE @[l]]]}
    BY DEF EraseNode, When
  <2> HIDE DEF D, S
  <2>2. [d EXCEPT !.nodes[n] = None,
                  !.pins = [p \in Pins |-> IF p \in D THEN None ELSE @[p]],
                  !.links = [l \in Links |-> IF l \in S THEN None ELSE @[l]]] = g
    BY <1>1, <1>2
  <2> QED
    BY <2>1, <2>2
<1>4. /\ nodes \in [Nodes -> NodeValues \cup {None}]
      /\ pins \in [Pins -> PinValues \cup {None}]
      /\ links \in [Links -> LinkValues \cup {None}]
  <2> HIDE DEF D, S, d
  <2> QED
    BY <1>2
<1>5. g \in Docs
  <2> HIDE DEF nodes, pins, links
  <2> QED
    BY <1>1, <1>4 DEF Docs
<1> HIDE DEF g
<1>6. RemoveNode(t, n) \in {None, Stage(t, EraseNode(d, n))}
  BY DEF RemoveNode, When
<1> QED
  BY <1>3, <1>5, <1>6, StageIs DEF Stage

-----------------------------------------------------------------------------
(* Several nodes and several groups                                        *)

\* Several nodes without links go.
NodesOff(t, x, s) ==
    x # None =>
       /\ Follows(t, x) /\ x.now \in Docs /\ OnlyStructure(t.now, x.now)
       /\ x.now.links = t.now.links
       /\ \A m \in Nodes : x.now.nodes[m] = IF m \in s THEN None ELSE t.now.nodes[m]
       /\ \A p \in Pins : x.now.pins[p] = IF p[1] \in s THEN None ELSE t.now.pins[p]
       /\ Permitted(t, t.now, x.now)

LEMMA RemoveNodesIs ==
    ASSUME NEW t \in Transactions, NEW S \in SUBSET Nodes, NodesGood(t.now),
           \A n \in S : t.now.nodes[n] # None => LinksOfNode(t.now, n) = {}
    PROVE  NodesOff(t, RemoveNodes(t, S), S)
<1> DEFINE Step(x, n) == Then(x, LAMBDA y : RemoveNode(y, n))
           Loop(f) == f = [s \in SUBSET (S) |->
                              IF s = {} THEN t
                              ELSE LET n == CHOOSE n \in s : TRUE IN Step(f[s \ {n}], n)]
           step == [p \in Staged \X (S) |-> Step(p[1], p[2])]
           h == CHOOSE f : Loop(f)
           D == {s \in SUBSET (S) : NodesOff(t, h[s], s)}
<1>1. IsFiniteSet(S) /\ t \in Staged /\ t # None
  BY FS_Subset, ElementDocumentAssumption, NowIs
<1>2. ASSUME NEW x \in Staged, NEW n \in S PROVE Step(x, n) \in Staged
  <2>1. CASE x = None
    BY <2>1 DEF Then, Staged
  <2>2. CASE x # None
    <3>1. x \in Transactions /\ n \in Nodes
      BY <2>2 DEF Staged
    <3>2. RemoveNode(x, n) # None => Follows(x, RemoveNode(x, n))
      BY <3>1, RemoveNodeFollows
    <3> QED
      BY <2>2, <3>2 DEF Then, Staged, Follows
  <2> QED
    BY <2>1, <2>2
<1>3. NodesOff(t, t, {})
  <2>1. OnlyStructure(t.now, t.now) /\ Follows(t, t) /\ t.now \in Docs
    BY NowIs DEF OnlyStructure
  <2>2. Permitted(t, t.now, t.now)
    BY <2>1, PermittedIs
  <2> QED
    BY <2>1, <2>2 DEF NodesOff
<1>4. ASSUME NEW x, NEW s \in SUBSET (S), NEW n \in (S) \ s, NodesOff(t, x, s)
      PROVE  NodesOff(t, Step(x, n), s \cup {n})
  <2>1. CASE x = None
    BY <1>4, <2>1 DEF Then, NodesOff
  <2>2. CASE x # None
    <3> DEFINE y == RemoveNode(x, n)
               d == t.now
    <3>1. /\ Follows(t, x) /\ x.now \in Docs /\ OnlyStructure(d, x.now) /\ x.now.links = d.links
          /\ \A m \in Nodes : x.now.nodes[m] = IF m \in s THEN None ELSE d.nodes[m]
          /\ \A p \in Pins : x.now.pins[p] = IF p[1] \in s THEN None ELSE d.pins[p]
          /\ Permitted(t, d, x.now)
      BY <1>4, <2>2 DEF NodesOff
    <3>2. x \in Transactions /\ n \in Nodes /\ n \notin s /\ d \in Docs
      BY <3>1, NowIs DEF Follows
    <3>3. x.now.nodes[n] = d.nodes[n]
      BY <3>1, <3>2
    <3>4. d.nodes[n] # None =>
             /\ LinksOfNode(d, n) = {} /\ \A p \in ToSet(d.nodes[n].pins) : p[1] = n
      BY DEF NodesGood, Held
    <3> HIDE DEF d
    <3>5. LinksOfNode(x.now, n) = LinksOfNode(d, n)
      BY <3>1, <3>3 DEF LinksOfNode, IncidentLinks
    <3>6. y # None =>
             /\ Follows(x, y) /\ d.nodes[n] # None /\ NodeOff(x.now, y.now, n)
             /\ Permitted(x, x.now, y.now)
      BY <3>2, <3>3, <3>4, <3>5, RemoveNodeIs
    <3>7. Step(x, n) = y
      BY <2>2 DEF Then
    <3> HIDE DEF y, Step
    <3>8. ASSUME y # None PROVE NodesOff(t, y, s \cup {n})
      <4>1. Follows(t, y)
        BY <3>1, <3>6, <3>8, FollowsOn
      <4>2. /\ y.now \in Docs /\ OnlyStructure(d, y.now) /\ y.now.links = d.links
            /\ y.now.nodes[n] = None /\ \A m \in Nodes \ {n} : y.now.nodes[m] = x.now.nodes[m]
            /\ \A p \in Pins : y.now.pins[p] = IF p \in ToSet(d.nodes[n].pins) THEN None ELSE x.now.pins[p]
        BY <3>1, <3>3, <3>6, <3>8 DEF NodeOff, OnlyStructure
      <4>3. Permitted(t, d, y.now)
        <5>1. Permitted(t, x.now, y.now)
          BY <3>1, <3>6, <3>8, PermittedIs
        <5> QED
          BY <3>1, <5>1, PermittedOn
      <4>4. \A m \in Nodes : y.now.nodes[m] = IF m \in s \cup {n} THEN None ELSE d.nodes[m]
        BY <3>1, <4>2
      <4>5. \A p \in Pins : d.pins[p] # None => p \in ToSet(d.nodes[p[1]].pins)
        BY DEF NodesGood, Rooted, d
      <4>6. ASSUME NEW p \in Pins
            PROVE  y.now.pins[p] = IF p[1] \in s \cup {n} THEN None ELSE d.pins[p]
        <5>1. p \in ToSet(d.nodes[n].pins) => p[1] = n
          BY <3>4, <3>6, <3>8
        <5>2. p[1] = n /\ d.pins[p] # None => p \in ToSet(d.nodes[n].pins)
          BY <4>5
        <5> QED
          BY <3>1, <3>2, <4>2, <5>1, <5>2
      <4> QED
        BY <3>8, <4>1, <4>2, <4>3, <4>4, <4>6 DEF NodesOff, d
    <3> QED
      BY <3>7, <3>8 DEF NodesOff
  <2> QED
    BY <2>1, <2>2
<1> HIDE DEF Step
<1>5. step \in [Staged \X (S) -> Staged]
  <2> SUFFICES ASSUME NEW p \in Staged \X (S) PROVE Step(p[1], p[2]) \in Staged
    OBVIOUS
  <2> QED
    BY <1>2
<1>6. Folds(S, t, step) # {}
  <2> HIDE DEF step
  <2> QED
    BY <1>1, <1>5, FoldsExist
<1>7. PICK g : g \in Folds(S, t, step)
  BY <1>6
<1>8. Loop(g)
  <2> HIDE DEF Staged
  <2>1. g \in [SUBSET (S) -> Staged] /\ g[{}] = t
    BY <1>7 DEF Folds
  <2>2. ASSUME NEW s \in SUBSET (S), s # {}
        PROVE  g[s] = LET n == CHOOSE n \in s : TRUE IN Step(g[s \ {n}], n)
    <3> DEFINE n == CHOOSE n \in s : TRUE
    <3>1. n \in s /\ g[s \ {n}] \in Staged /\ Rest(s) = s \ {n}
      BY <2>1, <2>2 DEF Rest
    <3>2. g[s] = step[<<g[Rest(s)], n>>]
      BY <1>7, <2>2 DEF Folds
    <3> HIDE DEF n
    <3>3. step[<<g[s \ {n}], n>>] = Step(g[s \ {n}], n)
      BY <3>1
    <3> HIDE DEF step
    <3>4. g[s] = Step(g[s \ {n}], n)
      BY <3>1, <3>2, <3>3
    <3> QED
      BY <3>4 DEF n
  <2> HIDE DEF step
  <2>3. g = [s \in SUBSET (S) |-> g[s]]
    BY <2>1
  <2> QED
    BY <2>1, <2>2, <2>3
<1> HIDE DEF step
<1>9. RemoveNodes(t, S) = h[S]
  BY DEF RemoveNodes, ForEach, FoldSet, MapThenFoldSet, Then, Step
<1>10. Loop(h)
  <2> HIDE DEF Loop
  <2> QED
    BY <1>8
<1> HIDE DEF h
<1>11. {} \in D
  BY <1>3, <1>10
<1>12. ASSUME NEW s \in SUBSET (S), s # {}, s \ {CHOOSE n \in s : TRUE} \in D PROVE s \in D
  <2> DEFINE n == CHOOSE n \in s : TRUE
  <2>1. n \in s /\ NodesOff(t, h[s \ {n}], s \ {n})
    BY <1>12
  <2>2. h[s] = Step(h[s \ {n}], n)
    BY <1>10, <1>12
  <2> HIDE DEF n, D, Loop
  <2>3. (s \ {n}) \cup {n} = s /\ n \in (S) \ (s \ {n}) /\ s \ {n} \in SUBSET (S)
    BY <2>1
  <2>4. NodesOff(t, h[s], s)
    BY <1>4, <2>1, <2>2, <2>3
  <2> QED
    BY <2>4 DEF D
<1> HIDE DEF D, Loop
<1>13. S \in D
  BY <1>1, <1>11, <1>12, SubsetInduct
<1> QED
  BY <1>9, <1>13 DEF D

\* Several nodes of d come back.
PinsOf(d, n) == [p \in ToSet(d.nodes[n].pins) |-> d.pins[p]]
NodesOn(d, t, x, s) ==
    /\ x # None /\ Follows(t, x) /\ x.now \in Docs /\ OnlyStructure(t.now, x.now)
    /\ x.now.links = t.now.links
    /\ \A m \in Nodes : x.now.nodes[m] = IF m \in s THEN d.nodes[m] ELSE t.now.nodes[m]
    /\ \A p \in Pins : x.now.pins[p] = IF p[1] \in s THEN d.pins[p] ELSE t.now.pins[p]

LEMMA AddNodesIs ==
    ASSUME NEW t \in Transactions, NEW d \in Docs, NodesGood(d), NEW S \in SUBSET Nodes,
           NEW saved, DOMAIN saved = S,
           \A n \in S : /\ d.nodes[n] # None /\ saved[n].node = d.nodes[n]
                       /\ saved[n].pins = PinsOf(d, n),
           ~t.enforce, \A n \in S : t.now.nodes[n] = None,
           \A p \in Pins : p[1] \in S => t.now.pins[p] = None
    PROVE  NodesOn(d, t, AddNodes(t, saved), S)
<1> DEFINE Step(x, n) == Then(x, LAMBDA y : AddNode(y, n, saved[n].node, saved[n].pins))
           Loop(f) == f = [s \in SUBSET (S) |->
                              IF s = {} THEN t
                              ELSE LET n == CHOOSE n \in s : TRUE IN Step(f[s \ {n}], n)]
           step == [p \in Staged \X (S) |-> Step(p[1], p[2])]
           h == CHOOSE f : Loop(f)
           D == {s \in SUBSET (S) : NodesOn(d, t, h[s], s)}
<1>0. \A n \in S : /\ n \in Nodes /\ d.nodes[n] \in NodeValues
                    /\ PinsOf(d, n) \in [ToSet(d.nodes[n].pins) -> PinValues]
                    /\ ToSet(d.nodes[n].pins) \in SUBSET Pins
                    /\ saved[n].node = d.nodes[n] /\ saved[n].pins = PinsOf(d, n)
  <2> SUFFICES ASSUME NEW n \in S
               PROVE  /\ n \in Nodes /\ d.nodes[n] \in NodeValues
                      /\ PinsOf(d, n) \in [ToSet(d.nodes[n].pins) -> PinValues]
                      /\ ToSet(d.nodes[n].pins) \in SUBSET Pins
                      /\ saved[n].node = d.nodes[n] /\ saved[n].pins = PinsOf(d, n)
    OBVIOUS
  <2>1. d.nodes[n] \in NodeValues
    BY PartsAre
  <2>2. ToSet(d.nodes[n].pins) \in SUBSET Pins
    BY <2>1 DEF NodeValues, ToSet
  <2>3. \A p \in ToSet(d.nodes[n].pins) : d.pins[p] \in PinValues
    <3>1. \A p \in ToSet(d.nodes[n].pins) : d.pins[p] # None
      BY DEF NodesGood, Held
    <3> QED
      BY <2>2, <3>1, PartsAre
  <2> QED
    BY <2>1, <2>2, <2>3 DEF PinsOf
<1>1. IsFiniteSet(S) /\ t \in Staged /\ t # None
  BY FS_Subset, ElementDocumentAssumption, NowIs
<1>2. ASSUME NEW x \in Staged, NEW n \in S PROVE Step(x, n) \in Staged
  <2>0. n \in Nodes /\ saved[n].node \in NodeValues /\ saved[n].pins \in [ToSet(d.nodes[n].pins) -> PinValues]
        /\ ToSet(d.nodes[n].pins) \in SUBSET Pins
    BY <1>0
  <2>1. CASE x = None
    BY <2>1 DEF Then, Staged
  <2>2. CASE x # None
    <3>1. x \in Transactions /\ n \in Nodes
      BY <2>2 DEF Staged
    <3>2. AddNode(x, n, saved[n].node, saved[n].pins) # None => Follows(x, AddNode(x, n, saved[n].node, saved[n].pins))
      BY <2>0, <3>1, AddNodeIs
    <3> QED
      BY <2>2, <3>2 DEF Then, Staged, Follows
  <2> QED
    BY <2>1, <2>2
<1>3. NodesOn(d, t, t, {})
  <2>1. OnlyStructure(t.now, t.now) /\ Follows(t, t) /\ t.now \in Docs
    BY NowIs DEF OnlyStructure
  <2> QED
    BY <1>1, <2>1 DEF NodesOn
<1>4. ASSUME NEW x, NEW s \in SUBSET (S), NEW n \in (S) \ s, NodesOn(d, t, x, s)
      PROVE  NodesOn(d, t, Step(x, n), s \cup {n})
  <2> DEFINE Own == ToSet(d.nodes[n].pins)
             y == AddNode(x, n, d.nodes[n], PinsOf(d, n))
  <2>1. /\ x # None /\ Follows(t, x) /\ x.now \in Docs /\ OnlyStructure(t.now, x.now)
        /\ x.now.links = t.now.links
        /\ \A m \in Nodes : x.now.nodes[m] = IF m \in s THEN d.nodes[m] ELSE t.now.nodes[m]
        /\ \A p \in Pins : x.now.pins[p] = IF p[1] \in s THEN d.pins[p] ELSE t.now.pins[p]
    BY <1>4 DEF NodesOn
  <2>2. x \in Transactions /\ ~x.enforce /\ n \in Nodes /\ n \notin s
    BY <2>1 DEF Follows
  <2>3. /\ d.nodes[n] \in NodeValues /\ PinsOf(d, n) \in [Own -> PinValues] /\ Own \in SUBSET Pins
        /\ saved[n].node = d.nodes[n] /\ saved[n].pins = PinsOf(d, n)
        /\ \A p \in Own : p[1] = n
        /\ \A p \in Pins : p[1] = n /\ d.pins[p] # None => p \in Own
    <3>1. /\ d.nodes[n] \in NodeValues /\ PinsOf(d, n) \in [Own -> PinValues] /\ Own \in SUBSET Pins
          /\ saved[n].node = d.nodes[n] /\ saved[n].pins = PinsOf(d, n)
      BY <1>0
    <3>2. \A p \in Own : p[1] = n
      BY DEF NodesGood, Held
    <3>3. \A p \in Pins : p[1] = n /\ d.pins[p] # None => p \in Own
      BY DEF NodesGood, Rooted
    <3> QED
      BY <3>1, <3>2, <3>3
  <2>4. Step(x, n) = y
    BY <2>1, <2>3 DEF Then
  <2> HIDE DEF Step, Own
  <2>5. x.now.nodes[n] = None /\ \A p \in Own : x.now.pins[p] = None
    BY <2>1, <2>2, <2>3
  <2>6. y # None /\ Follows(x, y) /\ NodeOn(x.now, y.now, n, d.nodes[n], PinsOf(d, n))
    BY <2>2, <2>3, <2>5, AddNodeIs
  <2> HIDE DEF y
  <2>7. Follows(t, y)
    BY <2>1, <2>6, FollowsOn
  <2>8. /\ y.now \in Docs /\ OnlyStructure(t.now, y.now) /\ y.now.links = t.now.links
        /\ y.now.nodes[n] = d.nodes[n] /\ \A m \in Nodes \ {n} : y.now.nodes[m] = x.now.nodes[m]
        /\ \A p \in Pins : y.now.pins[p] = IF p \in Own THEN d.pins[p] ELSE x.now.pins[p]
    BY <2>1, <2>6 DEF NodeOn, OnlyStructure, PinsOf, Own
  <2>9. \A m \in Nodes : y.now.nodes[m] = IF m \in s \cup {n} THEN d.nodes[m] ELSE t.now.nodes[m]
    BY <2>1, <2>8
  <2>10. ASSUME NEW p \in Pins
         PROVE  y.now.pins[p] = IF p[1] \in s \cup {n} THEN d.pins[p] ELSE t.now.pins[p]
    <3>1. CASE p \in Own
      BY <2>3, <2>8, <3>1
    <3>2. CASE p \notin Own /\ p[1] = n
      BY <2>1, <2>2, <2>3, <2>8, <3>2
    <3>3. CASE p \notin Own /\ p[1] # n
      BY <2>1, <2>8, <3>3
    <3> QED
      BY <3>1, <3>2, <3>3
  <2> QED
    BY <2>4, <2>6, <2>7, <2>8, <2>9, <2>10 DEF NodesOn
<1> HIDE DEF Step
<1>5. step \in [Staged \X (S) -> Staged]
  <2> SUFFICES ASSUME NEW p \in Staged \X (S) PROVE Step(p[1], p[2]) \in Staged
    OBVIOUS
  <2> QED
    BY <1>2
<1>6. Folds(S, t, step) # {}
  <2> HIDE DEF step
  <2> QED
    BY <1>1, <1>5, FoldsExist
<1>7. PICK g : g \in Folds(S, t, step)
  BY <1>6
<1>8. Loop(g)
  <2> HIDE DEF Staged
  <2>1. g \in [SUBSET (S) -> Staged] /\ g[{}] = t
    BY <1>7 DEF Folds
  <2>2. ASSUME NEW s \in SUBSET (S), s # {}
        PROVE  g[s] = LET n == CHOOSE n \in s : TRUE IN Step(g[s \ {n}], n)
    <3> DEFINE n == CHOOSE n \in s : TRUE
    <3>1. n \in s /\ g[s \ {n}] \in Staged /\ Rest(s) = s \ {n}
      BY <2>1, <2>2 DEF Rest
    <3>2. g[s] = step[<<g[Rest(s)], n>>]
      BY <1>7, <2>2 DEF Folds
    <3> HIDE DEF n
    <3>3. step[<<g[s \ {n}], n>>] = Step(g[s \ {n}], n)
      BY <3>1
    <3> HIDE DEF step
    <3>4. g[s] = Step(g[s \ {n}], n)
      BY <3>1, <3>2, <3>3
    <3> QED
      BY <3>4 DEF n
  <2> HIDE DEF step
  <2>3. g = [s \in SUBSET (S) |-> g[s]]
    BY <2>1
  <2> QED
    BY <2>1, <2>2, <2>3
<1> HIDE DEF step
<1>9. AddNodes(t, saved) = h[S]
  BY DEF AddNodes, ForEach, FoldSet, MapThenFoldSet, Then, Step
<1>10. Loop(h)
  <2> HIDE DEF Loop
  <2> QED
    BY <1>8
<1> HIDE DEF h
<1>11. {} \in D
  BY <1>3, <1>10
<1>12. ASSUME NEW s \in SUBSET (S), s # {}, s \ {CHOOSE n \in s : TRUE} \in D PROVE s \in D
  <2> DEFINE n == CHOOSE n \in s : TRUE
  <2>1. n \in s /\ NodesOn(d, t, h[s \ {n}], s \ {n})
    BY <1>12
  <2>2. h[s] = Step(h[s \ {n}], n)
    BY <1>10, <1>12
  <2> HIDE DEF n, D, Loop
  <2>3. (s \ {n}) \cup {n} = s /\ n \in (S) \ (s \ {n}) /\ s \ {n} \in SUBSET (S)
    BY <2>1
  <2>4. NodesOn(d, t, h[s], s)
    BY <1>4, <2>1, <2>2, <2>3
  <2> QED
    BY <2>4 DEF D
<1> HIDE DEF D, Loop
<1>13. S \in D
  BY <1>1, <1>11, <1>12, SubsetInduct
<1> QED
  BY <1>9, <1>13 DEF D


LEMMA GroupPermitted ==
    ASSUME NEW t \in Transactions, NEW d \in Docs, NEW e, NEW g \in Groups, OnlyGroup(d, e, g),
           e = d \/ (OpenGraph(t) /\ FreeGroup(t, g))
    PROVE  Permitted(t, d, e)
<1>1. CASE e = d
  BY <1>1, PermittedIs, NowIs
<1>2. CASE OpenGraph(t) /\ FreeGroup(t, g)
  <2>1. \A h \in Groups : e.groups[h] # d.groups[h] => FreeGroup(t, h)
    BY <1>2 DEF OnlyGroup
  <2> QED
    BY <1>2, <2>1 DEF Permitted, OnlyGroup, OnlyGroups, Ends
<1> QED
  BY <1>1, <1>2

\* Several groups lose some nodes.
Ungrouped(t, nodes, x, s) ==
    x # None =>
       /\ Follows(t, x) /\ OnlyGroups(t.now, x.now)
       /\ \A g \in Groups : x.now.groups[g] =
             IF g \in s THEN [t.now.groups[g] EXCEPT !.members = @ \ nodes] ELSE t.now.groups[g]
       /\ Permitted(t, t.now, x.now)

LEMMA UngroupIs ==
    ASSUME NEW t \in Transactions, NEW nodes \in SUBSET Nodes, NEW S \in SUBSET Groups
    PROVE  Ungrouped(t, nodes, Ungroup(t, nodes, S), S)
<1> DEFINE Step(x, n) == Then(x, LAMBDA y : RemoveGroupMembers(y, n, nodes))
           Loop(f) == f = [s \in SUBSET (S) |->
                              IF s = {} THEN t
                              ELSE LET n == CHOOSE n \in s : TRUE IN Step(f[s \ {n}], n)]
           step == [p \in Staged \X (S) |-> Step(p[1], p[2])]
           h == CHOOSE f : Loop(f)
           D == {s \in SUBSET (S) : Ungrouped(t, nodes, h[s], s)}
<1>1. IsFiniteSet(S) /\ t \in Staged /\ t # None
  BY FS_Subset, ElementDocumentAssumption, NowIs
<1>2. ASSUME NEW x \in Staged, NEW n \in S PROVE Step(x, n) \in Staged
  <2>1. CASE x = None
    BY <2>1 DEF Then, Staged
  <2>2. CASE x # None
    <3>1. x \in Transactions /\ n \in Groups
      BY <2>2 DEF Staged
    <3>2. RemoveGroupMembers(x, n, nodes) # None => Follows(x, RemoveGroupMembers(x, n, nodes))
      BY <3>1, RemoveGroupMembersIs
    <3> QED
      BY <2>2, <3>2 DEF Then, Staged, Follows
  <2> QED
    BY <2>1, <2>2
<1>3. Ungrouped(t, nodes, t, {})
  <2>1. OnlyGroups(t.now, t.now) /\ Follows(t, t)
    BY NowIs DEF OnlyGroups
  <2>2. Permitted(t, t.now, t.now)
    BY <2>1, PermittedIs
  <2> QED
    BY <2>1, <2>2 DEF Ungrouped
<1>4. ASSUME NEW x, NEW s \in SUBSET (S), NEW n \in (S) \ s, Ungrouped(t, nodes, x, s)
      PROVE  Ungrouped(t, nodes, Step(x, n), s \cup {n})
  <2>1. CASE x = None
    BY <1>4, <2>1 DEF Then, Ungrouped
  <2>2. CASE x # None
    <3> DEFINE y == RemoveGroupMembers(x, n, nodes)
               old == t.now.groups[n]
    <3>1. /\ Follows(t, x) /\ OnlyGroups(t.now, x.now) /\ x.now \in Docs
          /\ \A g \in Groups : x.now.groups[g] =
                IF g \in s THEN [t.now.groups[g] EXCEPT !.members = @ \ nodes] ELSE t.now.groups[g]
          /\ Permitted(t, t.now, x.now)
      BY <1>4, <2>2 DEF Ungrouped, OnlyGroups
    <3>2. x \in Transactions /\ n \in Groups /\ n \notin s
      BY <3>1 DEF Follows
    <3>3. x.now.groups[n] = old
      BY <3>1, <3>2
    <3>4. Step(x, n) = y
      BY <2>2 DEF Then
    <3> HIDE DEF Step
    <3>5. ASSUME y # None PROVE Ungrouped(t, nodes, y, s \cup {n})
      <4> HIDE DEF old
      <4>4. /\ Follows(x, y) /\ OnlyGroup(x.now, y.now, n)
            /\ y.now.groups[n] = [old EXCEPT !.members = @ \ nodes]
            /\ y.now = x.now \/ (OpenGraph(x) /\ FreeGroup(x, n))
        BY <3>2, <3>3, <3>5, RemoveGroupMembersIs
      <4> HIDE DEF y
      <4>5. Follows(t, y)
        BY <3>1, <4>4, FollowsOn
      <4>6. Permitted(t, t.now, y.now)
        <5>1. Permitted(x, x.now, y.now)
          BY <3>1, <3>2, <4>4, GroupPermitted
        <5>2. Permitted(t, x.now, y.now)
          BY <3>1, <5>1, PermittedIs
        <5> QED
          BY <3>1, <5>2, PermittedOn
      <4>7. OnlyGroups(t.now, y.now) /\ \A g \in Groups \ {n} : y.now.groups[g] = x.now.groups[g]
        BY <3>1, <4>4 DEF OnlyGroup, OnlyGroups
      <4> QED
        BY <3>1, <4>4, <4>5, <4>6, <4>7 DEF Ungrouped, old
    <3> HIDE DEF y
    <3> QED
      BY <3>4, <3>5 DEF Ungrouped
  <2> QED
    BY <2>1, <2>2
<1> HIDE DEF Step
<1>5. step \in [Staged \X (S) -> Staged]
  <2> SUFFICES ASSUME NEW p \in Staged \X (S) PROVE Step(p[1], p[2]) \in Staged
    OBVIOUS
  <2> QED
    BY <1>2
<1>6. Folds(S, t, step) # {}
  <2> HIDE DEF step
  <2> QED
    BY <1>1, <1>5, FoldsExist
<1>7. PICK g : g \in Folds(S, t, step)
  BY <1>6
<1>8. Loop(g)
  <2> HIDE DEF Staged
  <2>1. g \in [SUBSET (S) -> Staged] /\ g[{}] = t
    BY <1>7 DEF Folds
  <2>2. ASSUME NEW s \in SUBSET (S), s # {}
        PROVE  g[s] = LET n == CHOOSE n \in s : TRUE IN Step(g[s \ {n}], n)
    <3> DEFINE n == CHOOSE n \in s : TRUE
    <3>1. n \in s /\ g[s \ {n}] \in Staged /\ Rest(s) = s \ {n}
      BY <2>1, <2>2 DEF Rest
    <3>2. g[s] = step[<<g[Rest(s)], n>>]
      BY <1>7, <2>2 DEF Folds
    <3> HIDE DEF n
    <3>3. step[<<g[s \ {n}], n>>] = Step(g[s \ {n}], n)
      BY <3>1
    <3> HIDE DEF step
    <3>4. g[s] = Step(g[s \ {n}], n)
      BY <3>1, <3>2, <3>3
    <3> QED
      BY <3>4 DEF n
  <2> HIDE DEF step
  <2>3. g = [s \in SUBSET (S) |-> g[s]]
    BY <2>1
  <2> QED
    BY <2>1, <2>2, <2>3
<1> HIDE DEF step
<1>9. Ungroup(t, nodes, S) = h[S]
  BY DEF Ungroup, ForEach, FoldSet, MapThenFoldSet, Then, Step
<1>10. Loop(h)
  <2> HIDE DEF Loop
  <2> QED
    BY <1>8
<1> HIDE DEF h
<1>11. {} \in D
  BY <1>3, <1>10
<1>12. ASSUME NEW s \in SUBSET (S), s # {}, s \ {CHOOSE n \in s : TRUE} \in D PROVE s \in D
  <2> DEFINE n == CHOOSE n \in s : TRUE
  <2>1. n \in s /\ Ungrouped(t, nodes, h[s \ {n}], s \ {n})
    BY <1>12
  <2>2. h[s] = Step(h[s \ {n}], n)
    BY <1>10, <1>12
  <2> HIDE DEF n, D, Loop
  <2>3. (s \ {n}) \cup {n} = s /\ n \in (S) \ (s \ {n}) /\ s \ {n} \in SUBSET (S)
    BY <2>1
  <2>4. Ungrouped(t, nodes, h[s], s)
    BY <1>4, <2>1, <2>2, <2>3
  <2> QED
    BY <2>4 DEF D
<1> HIDE DEF D, Loop
<1>13. S \in D
  BY <1>1, <1>11, <1>12, SubsetInduct
<1> QED
  BY <1>9, <1>13 DEF D

\* Several groups get their members back.
Regrouped(t, saved, x, s) ==
    /\ x # None /\ Follows(t, x) /\ OnlyGroups(t.now, x.now)
    /\ \A g \in Groups : x.now.groups[g] =
          IF g \in s THEN [t.now.groups[g] EXCEPT !.members = saved[g]] ELSE t.now.groups[g]

LEMMA RegroupIs ==
    ASSUME NEW t \in Transactions, NEW S \in SUBSET Groups, NEW saved \in [S -> SUBSET Nodes], ~t.enforce,
           \A g \in S : /\ t.now.groups[g] # None
                       /\ \A m \in saved[g] : t.now.nodes[m] # None
    PROVE  Regrouped(t, saved, Regroup(t, saved), S)
<1> DEFINE Step(x, n) == Then(x, LAMBDA y : SetGroupMembers(y, n, saved[n]))
           Loop(f) == f = [s \in SUBSET (S) |->
                              IF s = {} THEN t
                              ELSE LET n == CHOOSE n \in s : TRUE IN Step(f[s \ {n}], n)]
           step == [p \in Staged \X (S) |-> Step(p[1], p[2])]
           h == CHOOSE f : Loop(f)
           D == {s \in SUBSET (S) : Regrouped(t, saved, h[s], s)}
<1>1. IsFiniteSet(S) /\ t \in Staged /\ t # None
  BY FS_Subset, ElementDocumentAssumption, NowIs
<1>2. ASSUME NEW x \in Staged, NEW n \in S PROVE Step(x, n) \in Staged
  <2>1. CASE x = None
    BY <2>1 DEF Then, Staged
  <2>2. CASE x # None
    <3>1. x \in Transactions /\ n \in Groups
      BY <2>2 DEF Staged
    <3>2. SetGroupMembers(x, n, saved[n]) # None => Follows(x, SetGroupMembers(x, n, saved[n]))
      <4>1. saved[n] \in SUBSET Nodes
        OBVIOUS
      <4> QED
        BY <3>1, <4>1, SetGroupMembersIs
    <3> QED
      BY <2>2, <3>2 DEF Then, Staged, Follows
  <2> QED
    BY <2>1, <2>2
<1>3. Regrouped(t, saved, t, {})
  <2>1. OnlyGroups(t.now, t.now) /\ Follows(t, t)
    BY NowIs DEF OnlyGroups
  <2> QED
    BY <1>1, <2>1 DEF Regrouped
<1>4. ASSUME NEW x, NEW s \in SUBSET (S), NEW n \in (S) \ s, Regrouped(t, saved, x, s)
      PROVE  Regrouped(t, saved, Step(x, n), s \cup {n})
  <2> DEFINE y == SetGroupMembers(x, n, saved[n])
             old == t.now.groups[n]
  <2>1. /\ x # None /\ Follows(t, x) /\ OnlyGroups(t.now, x.now) /\ x.now \in Docs
        /\ \A g \in Groups : x.now.groups[g] =
              IF g \in s THEN [t.now.groups[g] EXCEPT !.members = saved[g]] ELSE t.now.groups[g]
    BY <1>4 DEF Regrouped, OnlyGroups
  <2>2. x \in Transactions /\ n \in Groups /\ n \notin s /\ ~x.enforce
        /\ saved[n] \in SUBSET Nodes
    BY <2>1 DEF Follows
  <2>3. x.now.groups[n] = old /\ old # None /\ x.now.nodes = t.now.nodes
    BY <2>1, <2>2 DEF OnlyGroups
  <2>4. \A m \in saved[n] : x.now.nodes[m] # None
    BY <2>3
  <2>5. Step(x, n) = y
    BY <2>1 DEF Then
  <2> HIDE DEF Step
  <2>6. y # None /\ Follows(x, y) /\ OnlyGroup(x.now, y.now, n)
        /\ y.now.groups[n] = [x.now.groups[n] EXCEPT !.members = saved[n]]
    BY <2>2, <2>3, <2>4, SetGroupMembersIs
  <2> HIDE DEF y
  <2>7. Follows(t, y)
    BY <2>1, <2>6, FollowsOn
  <2>8. OnlyGroups(t.now, y.now) /\ \A g \in Groups \ {n} : y.now.groups[g] = x.now.groups[g]
    BY <2>1, <2>6 DEF OnlyGroup, OnlyGroups
  <2> QED
    BY <2>1, <2>3, <2>5, <2>6, <2>7, <2>8 DEF Regrouped
<1> HIDE DEF Step
<1>5. step \in [Staged \X (S) -> Staged]
  <2> SUFFICES ASSUME NEW p \in Staged \X (S) PROVE Step(p[1], p[2]) \in Staged
    OBVIOUS
  <2> QED
    BY <1>2
<1>6. Folds(S, t, step) # {}
  <2> HIDE DEF step
  <2> QED
    BY <1>1, <1>5, FoldsExist
<1>7. PICK g : g \in Folds(S, t, step)
  BY <1>6
<1>8. Loop(g)
  <2> HIDE DEF Staged
  <2>1. g \in [SUBSET (S) -> Staged] /\ g[{}] = t
    BY <1>7 DEF Folds
  <2>2. ASSUME NEW s \in SUBSET (S), s # {}
        PROVE  g[s] = LET n == CHOOSE n \in s : TRUE IN Step(g[s \ {n}], n)
    <3> DEFINE n == CHOOSE n \in s : TRUE
    <3>1. n \in s /\ g[s \ {n}] \in Staged /\ Rest(s) = s \ {n}
      BY <2>1, <2>2 DEF Rest
    <3>2. g[s] = step[<<g[Rest(s)], n>>]
      BY <1>7, <2>2 DEF Folds
    <3> HIDE DEF n
    <3>3. step[<<g[s \ {n}], n>>] = Step(g[s \ {n}], n)
      BY <3>1
    <3> HIDE DEF step
    <3>4. g[s] = Step(g[s \ {n}], n)
      BY <3>1, <3>2, <3>3
    <3> QED
      BY <3>4 DEF n
  <2> HIDE DEF step
  <2>3. g = [s \in SUBSET (S) |-> g[s]]
    BY <2>1
  <2> QED
    BY <2>1, <2>2, <2>3
<1> HIDE DEF step
<1>9. Regroup(t, saved) = h[S]
  BY DEF Regroup, ForEach, FoldSet, MapThenFoldSet, Then, Step
<1>10. Loop(h)
  <2> HIDE DEF Loop
  <2> QED
    BY <1>8
<1> HIDE DEF h
<1>11. {} \in D
  BY <1>3, <1>10
<1>12. ASSUME NEW s \in SUBSET (S), s # {}, s \ {CHOOSE n \in s : TRUE} \in D PROVE s \in D
  <2> DEFINE n == CHOOSE n \in s : TRUE
  <2>1. n \in s /\ Regrouped(t, saved, h[s \ {n}], s \ {n})
    BY <1>12
  <2>2. h[s] = Step(h[s \ {n}], n)
    BY <1>10, <1>12
  <2> HIDE DEF n, D, Loop
  <2>3. (s \ {n}) \cup {n} = s /\ n \in (S) \ (s \ {n}) /\ s \ {n} \in SUBSET (S)
    BY <2>1
  <2>4. Regrouped(t, saved, h[s], s)
    BY <1>4, <2>1, <2>2, <2>3
  <2> QED
    BY <2>4 DEF D
<1> HIDE DEF D, Loop
<1>13. S \in D
  BY <1>1, <1>11, <1>12, SubsetInduct
<1> QED
  BY <1>9, <1>13 DEF D


-----------------------------------------------------------------------------
(* A node that is made                                                     *)

LEMMA AllStatic ==
    ASSUME NEW n \in Nodes, NEW schema \in SchemaNames, NEW values,
           \A p \in ToSet(Statics(n, schema)) : ~Dynamic(values, p)
    PROVE  StaticAmong(Statics(n, schema), values)[Len(Statics(n, schema))] = Statics(n, schema)
<1> DEFINE pins == Statics(n, schema)
           s == StaticAmong(pins, values)
           a == <<n, "in">>
           b == <<n, "out">>
<1>1. /\ pins \in Seq(Pins) /\ Len(pins) = IF Wide(schema) THEN 2 ELSE 1
      /\ pins[1] = a /\ (Wide(schema) => pins[2] = b)
      /\ ToSet(pins) = {a} \cup IF Wide(schema) THEN {b} ELSE {}
      /\ pins = IF Wide(schema) THEN <<a, b>> ELSE <<a>>
  BY StaticsIs, SchemaIs
<1>2. ~Dynamic(values, a) /\ (Wide(schema) => ~Dynamic(values, b))
  BY <1>1
<1> HIDE DEF pins, a, b
<1>3. /\ s[0] = <<>>
      /\ \A i \in 1..Len(pins) :
            s[i] = IF Dynamic(values, pins[i]) THEN s[i - 1] ELSE Append(s[i - 1], pins[i])
  BY <1>1, StaticIs
<1> HIDE DEF s
<1>4. s[1] = <<a>>
  <2>1. 1 \in 1..Len(pins) /\ 1 - 1 = 0
    BY <1>1
  <2>2. s[1] = IF Dynamic(values, pins[1]) THEN s[1 - 1] ELSE Append(s[1 - 1], pins[1])
    BY <1>3, <2>1
  <2>3. s[1] = Append(<<>>, a)
    BY <1>1, <1>2, <1>3, <2>1, <2>2
  <2> QED
    BY <2>3
<1>5. CASE ~Wide(schema)
  BY <1>1, <1>4, <1>5 DEF pins, s
<1>6. CASE Wide(schema)
  <2>1. 2 \in 1..Len(pins) /\ 2 - 1 = 1
    BY <1>1, <1>6
  <2>2. s[2] = IF Dynamic(values, pins[2]) THEN s[2 - 1] ELSE Append(s[2 - 1], pins[2])
    BY <1>3, <2>1
  <2>3. s[2] = Append(<<a>>, b)
    BY <1>1, <1>2, <1>4, <1>6, <2>1, <2>2
  <2>4. s[2] = <<a, b>>
    BY <2>3, AppendPair
  <2> QED
    BY <1>1, <1>6, <2>4 DEF pins, s
<1> QED
  BY <1>5, <1>6

LEMMA NewNodeIs ==
    ASSUME NEW n \in Nodes, NEW schema \in SchemaNames
    PROVE  /\ NodeOf(n, schema) \in NodeValues
           /\ NodeOf(n, schema).pins = Statics(n, schema) /\ NodeOf(n, schema).schema = schema
           /\ NodeOf(n, schema).read_only = FALSE
           /\ ToSet(Statics(n, schema)) \in SUBSET Pins
           /\ ResolvedPins(n, schema) \in [ToSet(Statics(n, schema)) -> PinValues]
           /\ Resolves(n, schema, ResolvedPins(n, schema))
           /\ \A p \in ToSet(Statics(n, schema)) :
                 /\ ResolvedPins(n, schema)[p].read_only = FALSE
                 /\ ResolvedPins(n, schema)[p] = ResolvePinSchema(schema).pins[p[2]]
<1> DEFINE s == ResolvePinSchema(schema)
           D == ToSet(Statics(n, schema))
           keys == ToSet(s.order)
           pins == ResolvedPins(n, schema)
<1>1. /\ Statics(n, schema) \in Seq(Pins)
      /\ D = {<<n, "in">>} \cup IF Wide(schema) THEN {<<n, "out">>} ELSE {}
      /\ keys = IF Wide(schema) THEN {"in", "out"} ELSE {"in"}
      /\ \A key \in keys : s.pins[key] \in PinValues /\ s.pins[key].read_only = FALSE
      /\ <<n, "in">> \in Pins /\ <<n, "out">> \in Pins
  BY StaticsIs, SchemaIs
<1>2. /\ NodeOf(n, schema).pins = Statics(n, schema) /\ NodeOf(n, schema).schema = schema
      /\ NodeOf(n, schema).read_only = FALSE /\ NodeOf(n, schema) \in NodeValues
  <2>1. NodeOf(n, schema) = [pins |-> Statics(n, schema), schema |-> schema, name |-> 0,
                             read_only |-> FALSE]
    BY DEF NodeOf, Statics
  <2> QED
    BY <1>1, <2>1 DEF NodeValues, Looks
<1>3. D = {<<n, key>> : key \in keys}
  <2> HIDE DEF D, keys
  <2> QED
    BY <1>1
<1>4. pins = [p \in D |-> s.pins[p[2]]]
  <2>1. pins = [p \in {<<n, key>> : key \in keys} |-> s.pins[p[2]]]
    BY DEF ResolvedPins
  <2> HIDE DEF pins, D, keys
  <2> QED
    BY <1>3, <2>1
<1> HIDE DEF pins, s, keys
<1>5. \A p \in D : p \in Pins /\ p[2] \in keys
  <2> HIDE DEF D
  <2> QED
    BY <1>1
<1>6. \A p \in D : /\ pins[p] = s.pins[p[2]] /\ pins[p] \in PinValues
                   /\ pins[p].read_only = FALSE
  <2> HIDE DEF D
  <2> QED
    BY <1>1, <1>4, <1>5
<1>7. \A v \in PinValues : v.read_only = FALSE => [v EXCEPT !.read_only = FALSE] = v
  BY DEF PinValues
<1>8. \A p \in D : [pins[p] EXCEPT !.read_only = FALSE] = s.pins[p[2]]
  <2> HIDE DEF D
  <2> QED
    BY <1>6, <1>7
<1>9. pins \in [D -> PinValues] /\ DOMAIN pins = D
  <2> HIDE DEF D
  <2> QED
    BY <1>4, <1>6
<1>10. Resolves(n, schema, pins)
  BY <1>6, <1>8, <1>9 DEF Resolves, s
<1> QED
  BY <1>2, <1>5, <1>6, <1>9, <1>10 DEF pins, s

LEMMA NodeOnGood ==
    ASSUME NEW d \in Docs, NodesGood(d), NEW n \in Nodes, d.nodes[n] = None,
           NEW schema \in SchemaNames, NEW e,
           NodeOn(d, e, n, NodeOf(n, schema), ResolvedPins(n, schema))
    PROVE  NodesGood(e)
<1> DEFINE order == Statics(n, schema)
           D == ToSet(order)
           values == ResolvedPins(n, schema)
<1>1. /\ NodeOf(n, schema) \in NodeValues /\ NodeOf(n, schema).pins = order
      /\ NodeOf(n, schema).schema = schema
      /\ Resolves(n, schema, values) /\ DOMAIN values = D
  BY NewNodeIs DEF Resolves
<1>2. /\ e \in Docs /\ e.nodes[n] # None /\ e.nodes[n].pins = order /\ e.nodes[n].schema = schema
      /\ \A m \in Nodes \ {n} : e.nodes[m] = d.nodes[m]
      /\ \A p \in Pins : e.pins[p] = IF p \in D THEN values[p] ELSE d.pins[p]
  BY <1>1, NotNone DEF NodeOn
<1>3. \A p \in D : /\ p \in Pins /\ p[1] = n /\ p[2] \in {"in", "out"}
                   /\ values[p] \in PinValues /\ values[p].storage = "static"
                   /\ [values[p] EXCEPT !.read_only = FALSE] = ResolvePinSchema(schema).pins[p[2]]
  BY <1>1, ResolvesStatic DEF Resolves
<1>4. /\ order \in Seq(Pins) /\ Len(order) = IF Wide(schema) THEN 2 ELSE 1
      /\ order[1] = <<n, "in">> /\ (Wide(schema) => order[2] = <<n, "out">>)
      /\ D = {<<n, "in">>} \cup IF Wide(schema) THEN {<<n, "out">>} ELSE {}
  BY StaticsIs
<1> HIDE DEF D, values, order
<1>5. \A p \in D : e.pins[p] = values[p] /\ ~Dynamic(e.pins, p) /\ e.pins[p] # None
  BY <1>2, <1>3, NotNone DEF Dynamic
<1>6. Held(e, n)
  <2>1. IsInjective(order)
    BY <1>4 DEF IsInjective
  <2> QED
    BY <1>2, <1>3, <1>5, <2>1 DEF Held, D
<1>7. Fitted(e, n)
  <2>1. StaticOrder(e, n) = order
    BY <1>2, <1>5, AllStatic DEF StaticOrder, order, D
  <2>2. MatchesDescriptor(e, n)
    BY <1>2, <1>3, <1>5, <2>1 DEF MatchesDescriptor, order, D, Statics
  <2>3. schema # "narrow" => e.pins[Last(order)].storage = "static"
    <3>1. schema # "narrow" => Last(order) = <<n, "out">> /\ <<n, "out">> \in D
      BY <1>4 DEF Last, Wide
    <3>2. \A p \in D : e.pins[p].storage = "static"
      BY <1>3, <1>5
    <3> QED
      BY <3>1, <3>2
  <2> QED
    BY <1>2, <2>2, <2>3 DEF Fitted
<1>8. ASSUME NEW m \in Nodes, e.nodes[m] # None PROVE Held(e, m) /\ Fitted(e, m)
  <2>1. CASE m = n
    BY <1>6, <1>7, <2>1
  <2>2. CASE m # n
    <3>1. e.nodes[m] = d.nodes[m] /\ d.nodes[m] # None
      BY <1>2, <1>8, <2>2
    <3>2. \A p \in ToSet(d.nodes[m].pins) : p \in Pins /\ p[1] = m
      <4>1. d.nodes[m] \in NodeValues
        BY <3>1, PartsAre
      <4> QED
        BY <3>1, <4>1 DEF NodesGood, Held, NodeValues, ToSet
    <3>3. \A p \in ToSet(d.nodes[m].pins) : e.pins[p] = d.pins[p]
      BY <1>2, <1>3, <2>2, <3>2
    <3> QED
      BY <1>2, <3>1, <3>3, NodeAside
  <2> QED
    BY <2>1, <2>2
<1>9. ASSUME NEW p \in Pins, e.pins[p] # None PROVE Rooted(e, p)
  <2>1. CASE p \in D
    BY <1>2, <1>3, <1>5, <2>1 DEF Rooted, D, Dynamic
  <2>2. CASE p \notin D
    <3>1. e.pins[p] = d.pins[p] /\ d.pins[p] # None /\ Rooted(d, p)
      BY <1>2, <1>9, <2>2 DEF NodesGood
    <3>2. p[1] \in Nodes /\ p[1] # n
      BY <3>1 DEF Rooted, Pins
    <3> QED
      BY <1>2, <3>1, <3>2 DEF Rooted
  <2> QED
    BY <2>1, <2>2
<1> QED
  BY <1>8, <1>9 DEF NodesGood

\* e is d with a node of the schema, which is shown.
NodeMade(d, e, n, schema) ==
    /\ e \in Docs /\ e.read_only = d.read_only /\ e.links = d.links
    /\ e.link_states = d.link_states /\ e.groups = d.groups
    /\ d.nodes[n] = None /\ e.nodes[n] # None
    /\ e.nodes[n].pins = Statics(n, schema) /\ e.nodes[n].read_only = FALSE
    /\ \A m \in Nodes \ {n} : e.nodes[m] = d.nodes[m]
    /\ \A p \in ToSet(Statics(n, schema)) :
          /\ d.pins[p] = None /\ e.pins[p] = ResolvePinSchema(schema).pins[p[2]]
          /\ e.pins[p].read_only = FALSE
    /\ \A p \in Pins : p \notin ToSet(Statics(n, schema)) => e.pins[p] = d.pins[p]
    /\ e.node_states[n] # None
    /\ \A m \in Nodes \ {n} : e.node_states[m] = d.node_states[m]

LEMMA ApplyAddNodeIs ==
    ASSUME NEW t \in Transactions, NEW n \in Nodes, NEW schema \in SchemaNames,
           NEW c, c.node = n, c.schema = schema
    PROVE  LET x == ApplyAddNode(t, c) IN
           x # None =>
              /\ Follows(t, x) /\ NodeMade(t.now, x.now, n, schema)
              /\ Permitted(t, t.now, x.now)
              /\ NodesGood(t.now) => NodesGood(x.now)
<1>0. \A p \in ToSet(Statics(n, schema)) :
         /\ ResolvedPins(n, schema)[p].read_only = FALSE
         /\ ResolvedPins(n, schema)[p] = ResolvePinSchema(schema).pins[p[2]]
  BY NewNodeIs, ZenonT(20)
<1> DEFINE node == NodeOf(n, schema)
           D == ToSet(Statics(n, schema))
           pins == ResolvedPins(n, schema)
           d == t.now
           y == AddNode(t, n, node, pins)
           x == ApplyAddNode(t, c)
<1>1. x = IF y = None THEN None ELSE SetNodePresentation(y, n, NewNodeState)
  BY DEF ApplyAddNode, Then
<1> SUFFICES ASSUME x # None
             PROVE  /\ Follows(t, x) /\ NodeMade(d, x.now, n, schema)
                    /\ Permitted(t, d, x.now)
                    /\ NodesGood(d) => NodesGood(x.now)
  OBVIOUS
<1>2. d \in Docs
  BY NowIs
<1>3. /\ node \in NodeValues /\ node.pins = Statics(n, schema) /\ node.read_only = FALSE
      /\ D \in SUBSET Pins /\ pins \in [D -> PinValues] /\ DOMAIN pins = D
      /\ \A p \in D : pins[p].read_only = FALSE /\ pins[p] = ResolvePinSchema(schema).pins[p[2]]
  <2>1. Resolves(n, schema, pins)
    BY NewNodeIs
  <2>2. DOMAIN pins = D
    BY <2>1 DEF Resolves
  <2> HIDE DEF x, y, d
  <2>3. node \in NodeValues /\ node.pins = Statics(n, schema) /\ node.read_only = FALSE
    BY NewNodeIs
  <2>4. D \in SUBSET Pins /\ pins \in [D -> PinValues]
    BY NewNodeIs
  <2>5. \A p \in D : pins[p].read_only = FALSE /\ pins[p] = ResolvePinSchema(schema).pins[p[2]]
    BY <1>0
  <2> QED
    BY <2>2, <2>3, <2>4, <2>5
<1> HIDE DEF x
<1>4. y # None /\ x = SetNodePresentation(y, n, NewNodeState)
  BY <1>1
<1> HIDE DEF node, pins
<1>5. /\ Follows(t, y) /\ NodeOn(d, y.now, n, node, pins)
      /\ d.nodes[n] = None /\ \A p \in D : d.pins[p] = None
      /\ Permitted(t, d, y.now)
  BY <1>3, <1>4, AddNodeIs
<1> HIDE DEF y, D
<1>6. y \in Transactions /\ y.now \in Docs
  BY <1>5 DEF Follows, NodeOn
<1>7. NewNodeState \in NodeStates /\ NewNodeState # None
  <2>1. NewNodeState \in NodeStates
    BY DEF NewNodeState, NodeStates, Looks
  <2> QED
    BY <2>1, NotNone
<1> HIDE DEF d
<1>8. /\ Follows(y, x) /\ OnlyNodeState(y.now, x.now, n) /\ x.now.node_states[n] = NewNodeState
      /\ NewNodeState = y.now.node_states[n] \/ (OpenGraph(y) /\ FreeNodeState(y, n))
  BY <1>4, <1>6, <1>7, SetNodePresentationIs
<1>9. x.now \in Docs /\ Permitted(y, y.now, x.now)
  BY <1>6, <1>8, NodeStatePermitted
<1>10. Permitted(t, d, x.now)
  <2>1. Permitted(t, y.now, x.now)
    BY <1>5, <1>9, PermittedIs
  <2> QED
    BY <1>5, <2>1, PermittedOn
<1>11. Follows(t, x)
  BY <1>5, <1>8, FollowsOn
<1>12. /\ x.now.nodes = y.now.nodes /\ x.now.pins = y.now.pins /\ x.now.links = y.now.links
       /\ x.now.read_only = y.now.read_only /\ x.now.link_states = y.now.link_states
       /\ x.now.groups = y.now.groups
       /\ \A m \in Nodes \ {n} : x.now.node_states[m] = y.now.node_states[m]
  BY <1>8 DEF OnlyNodeState, OnlyNodeStates
<1>13. NodesGood(d) => NodesGood(x.now)
  <2>1. NodesGood(d) => NodesGood(y.now)
    BY <1>2, <1>5, NodeOnGood DEF node, pins
  <2> QED
    BY <1>6, <1>9, <1>12, <2>1, NodesSame
<1>14. NodeMade(d, x.now, n, schema)
  <2>1. /\ y.now.nodes[n] = node /\ y.now.links = d.links /\ OnlyStructure(d, y.now)
        /\ \A m \in Nodes \ {n} : y.now.nodes[m] = d.nodes[m]
        /\ \A p \in Pins : y.now.pins[p] = IF p \in D THEN pins[p] ELSE d.pins[p]
    BY <1>3, <1>5 DEF NodeOn
  <2>2. node # None
    BY <1>3, NotNone
  <2>3. \A p \in D : /\ p \in Pins /\ d.pins[p] = None /\ x.now.pins[p] = pins[p]
                     /\ pins[p].read_only = FALSE /\ pins[p] = ResolvePinSchema(schema).pins[p[2]]
    BY <1>3, <1>5, <1>12, <2>1
  <2> QED
    BY <1>3, <1>5, <1>7, <1>8, <1>9, <1>12, <2>1, <2>2, <2>3 DEF NodeMade, OnlyStructure, D
<1> QED
  BY <1>10, <1>11, <1>13, <1>14

\* What is made is shown; nothing else was there.
LEMMA NodeMadeShown ==
    ASSUME NEW d \in Docs, Good(d), NEW n \in Nodes, NEW schema \in SchemaNames,
           NEW e, NodeMade(d, e, n, schema)
    PROVE  /\ ValidPresentation(e) /\ d.node_states[n] = None
           /\ \A p \in ToSet(Statics(n, schema)) : IncidentLinks(d, p) = {}
<1>1. LinksGood(d) /\ ValidPresentation(d) /\ e \in Docs
  BY GoodFrom DEF NodeMade
<1>2. d.node_states[n] = None
  BY <1>1 DEF ValidPresentation, NodeMade
<1>3. \A m \in Nodes : d.nodes[m] # None => e.nodes[m] # None
  BY DEF NodeMade
<1>4. ValidPresentation(e)
  <2>1. \A m \in Nodes : e.node_states[m] # None => e.nodes[m] # None
    BY <1>1, <1>3 DEF NodeMade, ValidPresentation
  <2>2. \A g \in Groups : d.groups[g] # None => d.groups[g].members \subseteq Nodes
    BY PartsAre DEF GroupValues
  <2>3. \A g \in Groups : e.groups[g] # None => \A m \in e.groups[g].members : e.nodes[m] # None
    BY <1>1, <1>3, <2>2 DEF NodeMade, ValidPresentation
  <2>4. \A point : RoutePointOwner(e, point) = RoutePointOwner(d, point)
    BY DEF NodeMade, RoutePointOwner
  <2>5. e.links = d.links /\ e.link_states = d.link_states
    BY DEF NodeMade
  <2> QED
    BY <1>1, <2>1, <2>3, <2>4, <2>5 DEF ValidPresentation
<1>5. ASSUME NEW p \in ToSet(Statics(n, schema)) PROVE IncidentLinks(d, p) = {}
  <2>1. d.pins[p] = None
    BY DEF NodeMade
  <2> QED
    BY <1>1, <2>1 DEF IncidentLinks, LinksGood, Joins
<1> QED
  BY <1>2, <1>4, <1>5

LEMMA AddNodeUndoes ==
    ASSUME NEW d \in Docs, Good(d), NEW n \in Nodes, NEW schema \in SchemaNames
    PROVE  Undoes(d, [kind |-> "add_node", node |-> n, schema |-> schema])
<1> DEFINE c == [kind |-> "add_node", node |-> n, schema |-> schema]
           b == Begin(d, TRUE)
           t == Executed(d, c)
           e == Led(d, c)
           f == Begin(e, FALSE)
           u == TakenBack(d, c)
           D == ToSet(Statics(n, schema))
           S == LinksOfNode(e, n)
           v == RemoveNode(f, n)
           w == ClearLinks(v, S)
<1>1. NodesGood(d) /\ LinksGood(d) /\ ValidPresentation(d)
  BY GoodFrom
<1>2. /\ c.node = n /\ c.schema = schema
      /\ t = ApplyAddNode(b, c) /\ u = RevertAddNode(f, c)
  <2> HIDE DEF b, f
  <2> QED
    BY DEF Executed, TakenBack, Apply, Revert, b, f
<1> HIDE DEF c
<1> SUFFICES ASSUME t # None
             PROVE  /\ e \in Docs /\ Good(e) /\ Permitted(b, d, e)
                    /\ u \in Transactions /\ u.now = d
  <2>1. Undoes(d, c)
    BY PermittedUndoes DEF Changes
  <2> QED
    BY <2>1 DEF c
<1>3. b \in Transactions /\ b.now = d /\ b.base = d
  BY ExecutedIs
<1> HIDE DEF b
<1>4. NodeMade(d, e, n, schema) /\ Permitted(b, d, e) /\ NodesGood(e)
  <2> HIDE DEF t
  <2> QED
    BY <1>1, <1>2, <1>3, ApplyAddNodeIs DEF Led, t
<1> HIDE DEF e, t
<1>5. /\ ValidPresentation(e) /\ d.node_states[n] = None /\ e \in Docs
      /\ \A p \in D : IncidentLinks(d, p) = {}
  <2>1. e \in Docs
    BY <1>4 DEF NodeMade
  <2> QED
    BY <1>4, <2>1, NodeMadeShown
<1> HIDE DEF D
<1>6. Good(e)
  <2>1. \A l \in Links : e.links[l] \in {None, d.links[l]}
    BY <1>4 DEF NodeMade
  <2>2. ASSUME NEW l \in Links, e.links[l] # None, NEW p \in Ends(e, l)
        PROVE  Alike(d.pins[p], e.pins[p])
    <3>1. e.links[l] = d.links[l] /\ e.links[l] \in LinkValues
      BY <1>4, <1>5, <2>2, PartsAre DEF NodeMade
    <3>2. p \in Pins /\ d.pins[p] # None
      BY <1>1, <2>2, <3>1 DEF LinksGood, Joins, Ends, LinkValues
    <3>3. e.pins[p] = d.pins[p]
      BY <1>4, <3>2 DEF NodeMade
    <3> QED
      BY <3>2, <3>3 DEF Alike
  <2>3. LinksGood(e)
    BY <1>1, <1>5, <2>1, <2>2, LinksErased
  <2> QED
    BY <1>4, <1>5, <2>3, GoodFrom
<1>7. f \in Transactions /\ f.now = e /\ ~f.enforce
  BY <1>5, RevertedIs
<1> HIDE DEF f
<1>8. u = IF v = None THEN None ELSE IF w = None THEN None ELSE ClearNodes(w, {n})
  <2> HIDE DEF u, v
  <2> QED
    BY <1>2, <1>7 DEF RevertAddNode, Then, v
<1> HIDE DEF u
<1>9. /\ e.nodes[n] # None /\ ToSet(e.nodes[n].pins) = D
      /\ \A p \in D : p \in Pins /\ p[1] = n
  <2>1. e.nodes[n].pins = Statics(n, schema) /\ e.nodes[n] # None
    BY <1>4 DEF NodeMade
  <2>2. Held(e, n) /\ e.nodes[n] \in NodeValues
    BY <1>4, <1>5, <2>1, PartsAre DEF NodesGood
  <2> QED
    BY <2>1, <2>2 DEF Held, NodeValues, D, ToSet
<1>10. S = {}
  <2>1. \A p \in D : IncidentLinks(e, p) = {}
    BY <1>4, <1>5 DEF IncidentLinks, NodeMade
  <2> QED
    BY <1>9, <2>1 DEF LinksOfNode
<1>11. v # None /\ Follows(f, v) /\ NodeOff(e, v.now, n)
  <2>1. v # None
    BY <1>7, <1>9, <1>10, RemoveNodeIs
  <2> HIDE DEF v
  <2> QED
    BY <1>7, <1>9, <1>10, <2>1, RemoveNodeIs DEF v
<1> HIDE DEF v
<1>12. v \in Transactions /\ ~v.enforce /\ v.now \in Docs
  BY <1>7, <1>11 DEF Follows, NodeOff
<1>13. /\ w # None /\ Follows(v, w) /\ OnlyLinkStates(v.now, w.now)
       /\ \A l \in Links : w.now.link_states[l] = v.now.link_states[l]
  <2>1. w = ClearLinks(v, {}) /\ {} \in SUBSET Links
    BY <1>10
  <2> HIDE DEF w
  <2>2. w # None
    BY <1>12, <2>1, ClearLinksIs
  <2> QED
    BY <1>12, <2>1, <2>2, ClearLinksIs
<1> HIDE DEF w
<1>14. w \in Transactions /\ ~w.enforce /\ w.now \in Docs
  BY <1>12, <1>13 DEF Follows, OnlyLinkStates
<1>15. /\ u # None /\ Follows(w, u) /\ OnlyNodeStates(w.now, u.now)
       /\ \A m \in Nodes : u.now.node_states[m] = IF m \in {n} THEN None ELSE w.now.node_states[m]
  <2>1. u = ClearNodes(w, {n}) /\ {n} \in SUBSET Nodes
    BY <1>8, <1>11, <1>13
  <2>2. u # None
    BY <1>14, <2>1, ClearNodesIs
  <2> QED
    BY <1>14, <2>1, <2>2, ClearNodesIs
<1>16. u \in Transactions /\ u.now \in Docs
  BY <1>15 DEF Follows, OnlyNodeStates
<1>17. u.now.nodes = d.nodes
  <2>1. u.now.nodes = v.now.nodes
    BY <1>13, <1>15 DEF OnlyLinkStates, OnlyNodeStates
  <2>2. \A m \in Nodes : u.now.nodes[m] = d.nodes[m]
    BY <1>4, <1>11, <2>1 DEF NodeMade, NodeOff
  <2> QED
    BY <1>16, <2>2, PartsAre
<1>18. u.now.pins = d.pins
  <2>1. u.now.pins = v.now.pins
    BY <1>13, <1>15 DEF OnlyLinkStates, OnlyNodeStates
  <2>2. \A p \in Pins : v.now.pins[p] = IF p \in D THEN None ELSE e.pins[p]
    BY <1>9, <1>11 DEF NodeOff
  <2>3. \A p \in Pins : u.now.pins[p] = d.pins[p]
    BY <1>4, <2>1, <2>2 DEF NodeMade, D
  <2> QED
    BY <1>16, <2>3, PartsAre
<1>19. u.now.node_states = d.node_states
  <2>1. w.now.node_states = e.node_states
    BY <1>11, <1>13 DEF OnlyLinkStates, NodeOff, OnlyStructure
  <2>2. \A m \in Nodes : u.now.node_states[m] = d.node_states[m]
    BY <1>4, <1>5, <1>15, <2>1 DEF NodeMade
  <2> QED
    BY <1>16, <2>2, PartsAre
<1>20. u.now.link_states = d.link_states
  <2>1. \A l \in Links : u.now.link_states[l] = d.link_states[l]
    BY <1>4, <1>11, <1>13, <1>15 DEF NodeMade, NodeOff, OnlyStructure, OnlyNodeStates
  <2> QED
    BY <1>16, <2>1, PartsAre
<1>21. u.now.links = d.links /\ u.now.groups = d.groups /\ u.now.read_only = d.read_only
  BY <1>4, <1>11, <1>13, <1>15 DEF NodeMade, NodeOff, OnlyStructure, OnlyNodeStates, OnlyLinkStates
<1>22. u.now = d
  BY <1>16, <1>17, <1>18, <1>19, <1>20, <1>21, SameDocument
<1> QED
  BY <1>4, <1>5, <1>6, <1>16, <1>22

-----------------------------------------------------------------------------
(* Nodes and links that are deleted                                        *)

\* e is d without some nodes and some links.
Deleted(d, e, nodes, links, groups) ==
    /\ e \in Docs /\ e.read_only = d.read_only
    /\ \A m \in Nodes : e.nodes[m] = IF m \in nodes THEN None ELSE d.nodes[m]
    /\ \A p \in Pins : e.pins[p] = IF p[1] \in nodes THEN None ELSE d.pins[p]
    /\ \A l \in Links : e.links[l] = IF l \in links THEN None ELSE d.links[l]
    /\ \A m \in Nodes : e.node_states[m] = IF m \in nodes THEN None ELSE d.node_states[m]
    /\ \A l \in Links : e.link_states[l] = IF l \in links THEN None ELSE d.link_states[l]
    /\ \A g \in Groups : e.groups[g] = IF g \in groups THEN [d.groups[g] EXCEPT !.members = @ \ nodes]
                                       ELSE d.groups[g]
\* What has to go with the nodes.
GoesWith(d, nodes, links, groups) ==
    /\ nodes \in SUBSET Nodes /\ links \in SUBSET Links /\ groups \in SUBSET Groups
    /\ \A m \in nodes : d.nodes[m] # None
    /\ \A l \in links : d.links[l] # None
    /\ \A m \in nodes : LinksOfNode(d, m) \subseteq links
    /\ groups = UNION {GroupsForNode(d, m) : m \in nodes}
    /\ \A g \in groups : d.groups[g] # None
DeleteKept(d, saved, nodes, links, groups) ==
    /\ DOMAIN saved.nodes = nodes
    /\ \A m \in nodes : /\ saved.nodes[m].node = d.nodes[m]
                        /\ saved.nodes[m].state = d.node_states[m]
                        /\ saved.nodes[m].pins = PinsOf(d, m)
    /\ saved.links = Snapshot(d, links) /\ DOMAIN saved.links = links
    /\ saved.groups = [g \in groups |-> d.groups[g].members] /\ DOMAIN saved.groups = groups

LEMMA DeleteKeptIs ==
    ASSUME NEW d \in Docs, NEW nodes \in SUBSET Nodes, \A m \in nodes : d.nodes[m] # None,
           NEW lone \in SUBSET Links, \A l \in lone : d.links[l] # None,
           NEW c, c.nodes = nodes, c.links = lone
    PROVE  \E links \in SUBSET Links, groups \in SUBSET Groups :
              /\ GoesWith(d, nodes, links, groups)
              /\ DeleteKept(d, CaptureDelete(d, c), nodes, links, groups)
<1> DEFINE links == lone \cup UNION {LinksOfNode(d, n) : n \in nodes}
           groups == UNION {GroupsForNode(d, n) : n \in nodes}
           kept == [n \in nodes |-> [node |-> d.nodes[n], state |-> d.node_states[n],
                                     pins |-> [p \in ToSet(d.nodes[n].pins) |-> d.pins[p]]]]
           saved == CaptureDelete(d, c)
<1>1. /\ saved.nodes = kept /\ saved.links = Snapshot(d, links)
      /\ saved.groups = [g \in groups |-> d.groups[g].members]
  BY DEF CaptureDelete
<1>2. /\ links \in SUBSET Links /\ groups \in SUBSET Groups
      /\ \A l \in links : d.links[l] # None
      /\ \A g \in groups : d.groups[g] # None
      /\ \A m \in nodes : LinksOfNode(d, m) \subseteq links
  BY DEF LinksOfNode, IncidentLinks, GroupsForNode
<1>3. GoesWith(d, nodes, links, groups)
  <2> HIDE DEF links
  <2> QED
    BY <1>2 DEF GoesWith
<1>4. /\ DOMAIN kept = nodes
      /\ \A m \in nodes : /\ kept[m].node = d.nodes[m] /\ kept[m].state = d.node_states[m]
                          /\ kept[m].pins = PinsOf(d, m)
  BY DEF PinsOf
<1> HIDE DEF saved, kept, links, groups
<1>5. DOMAIN Snapshot(d, links) = links
  BY DEF Snapshot
<1>6. DeleteKept(d, saved, nodes, links, groups)
  BY <1>1, <1>4, <1>5 DEF DeleteKept
<1> QED
  BY <1>2, <1>3, <1>6 DEF saved

LEMMA DeletedGood ==
    ASSUME NEW d \in Docs, Good(d), NEW nodes, NEW links, NEW groups,
           GoesWith(d, nodes, links, groups), NEW e, Deleted(d, e, nodes, links, groups)
    PROVE  Good(e)
<1>1. NodesGood(d) /\ LinksGood(d) /\ ValidPresentation(d) /\ e \in Docs
  BY GoodFrom DEF Deleted
<1>2. NodesGood(e)
  <2>1. ASSUME NEW m \in Nodes, e.nodes[m] # None PROVE Held(e, m) /\ Fitted(e, m)
    <3>1. m \notin nodes /\ e.nodes[m] = d.nodes[m] /\ d.nodes[m] # None
      BY <2>1 DEF Deleted
    <3>2. \A p \in ToSet(d.nodes[m].pins) : p \in Pins /\ p[1] = m
      <4>1. d.nodes[m] \in NodeValues
        BY <3>1, PartsAre
      <4> QED
        BY <1>1, <3>1, <4>1 DEF NodesGood, Held, NodeValues, ToSet
    <3>3. \A p \in ToSet(d.nodes[m].pins) : e.pins[p] = d.pins[p]
      BY <3>1, <3>2 DEF Deleted
    <3> QED
      BY <1>1, <3>1, <3>3, NodeAside
  <2>2. ASSUME NEW p \in Pins, e.pins[p] # None PROVE Rooted(e, p)
    <3>1. p[1] \notin nodes /\ e.pins[p] = d.pins[p] /\ d.pins[p] # None /\ p[1] \in Nodes
      BY <2>2 DEF Deleted, Pins
    <3>2. Rooted(d, p) /\ e.nodes[p[1]] = d.nodes[p[1]]
      BY <1>1, <3>1 DEF NodesGood, Deleted
    <3> QED
      BY <3>1, <3>2 DEF Rooted
  <2> QED
    BY <2>1, <2>2 DEF NodesGood
<1>3. LinksGood(e)
  <2>1. \A l \in Links : e.links[l] \in {None, d.links[l]}
    BY DEF Deleted
  <2>2. ASSUME NEW l \in Links, e.links[l] # None, NEW p \in Ends(e, l)
        PROVE  Alike(d.pins[p], e.pins[p])
    <3>1. l \notin links /\ e.links[l] = d.links[l] /\ e.links[l] \in LinkValues
      BY <1>1, <2>2, PartsAre DEF Deleted
    <3>2. p \in Pins /\ d.pins[p] # None /\ l \in IncidentLinks(d, p)
      BY <1>1, <2>2, <3>1 DEF LinksGood, Joins, Ends, LinkValues, IncidentLinks
    <3>3. p[1] \in Nodes /\ p \in ToSet(d.nodes[p[1]].pins)
      BY <1>1, <3>2 DEF NodesGood, Rooted, Pins
    <3>4. l \in LinksOfNode(d, p[1])
      BY <3>2, <3>3 DEF LinksOfNode
    <3>5. p[1] \notin nodes
      BY <3>1, <3>4 DEF GoesWith
    <3>6. e.pins[p] = d.pins[p]
      BY <3>2, <3>5 DEF Deleted
    <3> QED
      BY <3>2, <3>6 DEF Alike
  <2> QED
    BY <1>1, <2>1, <2>2, LinksErased
<1>4. ValidPresentation(e)
  <2>1. \A m \in Nodes : /\ e.node_states[m] \in {None, d.node_states[m]}
                         /\ e.node_states[m] # None => e.nodes[m] # None
    BY <1>1 DEF ValidPresentation, Deleted
  <2>2. \A l \in Links : /\ e.link_states[l] \in {None, d.link_states[l]}
                         /\ e.link_states[l] # None => e.links[l] # None
    BY <1>1 DEF ValidPresentation, Deleted
  <2>3. ASSUME NEW g \in Groups, e.groups[g] # None, NEW m \in e.groups[g].members
        PROVE  e.nodes[m] # None
    <3>1. CASE g \in groups
      <4>1. d.groups[g] # None
        BY <3>1 DEF GoesWith
      <4>2. d.groups[g] \in GroupValues
        BY <4>1, PartsAre
      <4>3. e.groups[g] = [d.groups[g] EXCEPT !.members = d.groups[g].members \ nodes]
        BY <3>1 DEF Deleted
      <4>4. m \in d.groups[g].members /\ m \notin nodes /\ m \in Nodes
        BY <2>3, <4>2, <4>3 DEF GroupValues
      <4> QED
        BY <1>1, <4>1, <4>4 DEF ValidPresentation, Deleted
    <3>2. CASE g \notin groups
      <4>1. e.groups[g] = d.groups[g] /\ d.groups[g] # None
        BY <2>3, <3>2 DEF Deleted
      <4>2. d.groups[g] \in GroupValues
        BY <4>1, PartsAre
      <4>3. m \in Nodes /\ m \in d.groups[g].members
        BY <2>3, <4>1, <4>2 DEF GroupValues
      <4>4. m \notin nodes
        BY <3>2, <4>1, <4>3 DEF GoesWith, GroupsForNode
      <4> QED
        BY <1>1, <4>1, <4>3, <4>4 DEF ValidPresentation, Deleted
    <3> QED
      BY <3>1, <3>2
  <2>4. \A g \in Groups : e.groups[g] # None => \A m \in e.groups[g].members : e.nodes[m] # None
    BY <2>3
  <2> QED
    BY <1>1, <2>1, <2>2, <2>4, ShownLess
<1> QED
  BY <1>1, <1>2, <1>3, <1>4, GoodFrom

LEMMA ApplyDeleteIs ==
    ASSUME NEW t \in Transactions, NodesGood(t.now), NEW nodes, NEW links, NEW groups,
           GoesWith(t.now, nodes, links, groups),
           NEW c, c.nodes = nodes,
           NEW saved, DOMAIN saved.links = links, DOMAIN saved.groups = groups
    PROVE  LET x == ApplyDelete(t, c, saved) IN
           x # None => /\ Follows(t, x) /\ Deleted(t.now, x.now, nodes, links, groups)
                       /\ Permitted(t, t.now, x.now)
<1> DEFINE x == ApplyDelete(t, c, saved)
           x1 == Ungroup(t, nodes, groups)
           x2 == RemoveLinks(x1, links)
           x3 == RemoveNodes(x2, nodes)
           x4 == ClearLinks(x3, links)
<1> SUFFICES ASSUME x # None
             PROVE  /\ Follows(t, x) /\ Deleted(t.now, x.now, nodes, links, groups)
                    /\ Permitted(t, t.now, x.now)
  OBVIOUS
<1>1. x1 # None /\ x2 # None /\ x3 # None /\ x4 # None /\ x = ClearNodes(x4, nodes)
  BY DEF ApplyDelete, Then
<1>2. nodes \in SUBSET Nodes /\ links \in SUBSET Links /\ groups \in SUBSET Groups
  BY DEF GoesWith
<1> HIDE DEF x
<1>3. /\ Follows(t, x1) /\ OnlyGroups(t.now, x1.now) /\ Permitted(t, t.now, x1.now)
      /\ \A g \in Groups : x1.now.groups[g] =
            IF g \in groups THEN [t.now.groups[g] EXCEPT !.members = @ \ nodes] ELSE t.now.groups[g]
  <2> HIDE DEF x2, x3, x4
  <2>1. Ungrouped(t, nodes, x1, groups)
    BY <1>2, UngroupIs
  <2> HIDE DEF x1
  <2> QED
    BY <1>1, <2>1 DEF Ungrouped
<1>4. x1 \in Transactions /\ x1.now \in Docs
  BY <1>3 DEF Follows, OnlyGroups
<1> HIDE DEF x1
<1>5. /\ Follows(x1, x2) /\ OnlyLinks(x1.now, x2.now) /\ Permitted(x1, x1.now, x2.now)
      /\ \A l \in Links : x2.now.links[l] = IF l \in links THEN None ELSE x1.now.links[l]
  <2> HIDE DEF x3, x4
  <2>1. LostLinks(x1, x2, links)
    BY <1>2, <1>4, RemoveLinksIs
  <2> HIDE DEF x2
  <2> QED
    BY <1>1, <2>1 DEF LostLinks
<1>6. x2 \in Transactions /\ x2.now \in Docs
  BY <1>5 DEF Follows, OnlyLinks
<1> HIDE DEF x2
<1>7. /\ x2.now.nodes = t.now.nodes /\ x2.now.pins = t.now.pins
      /\ \A l \in Links : x2.now.links[l] = IF l \in links THEN None ELSE t.now.links[l]
      /\ x2.now.read_only = t.now.read_only
      /\ x2.now.node_states = t.now.node_states /\ x2.now.link_states = t.now.link_states
      /\ x2.now.groups = x1.now.groups
  BY <1>3, <1>5 DEF OnlyGroups, OnlyLinks, OnlyStructure
<1>8. NodesGood(x2.now)
  <2>1. t.now \in Docs
    BY NowIs
  <2> QED
    BY <1>6, <1>7, <2>1, NodesSame
<1>9. \A n \in nodes : x2.now.nodes[n] # None => LinksOfNode(x2.now, n) = {}
  <2>1. ASSUME NEW n \in nodes, NEW p \in ToSet(x2.now.nodes[n].pins), NEW l \in IncidentLinks(x2.now, p)
        PROVE  FALSE
    <3>1. l \in Links /\ l \notin links /\ x2.now.links[l] = t.now.links[l]
      BY <1>7, <2>1 DEF IncidentLinks
    <3>2. l \in IncidentLinks(t.now, p)
      BY <2>1, <3>1 DEF IncidentLinks
    <3>3. l \in LinksOfNode(t.now, n)
      BY <1>7, <2>1, <3>2 DEF LinksOfNode
    <3> QED
      BY <3>1, <3>3 DEF GoesWith
  <2> QED
    BY <2>1 DEF LinksOfNode
<1>10. /\ Follows(x2, x3) /\ x3.now \in Docs /\ OnlyStructure(x2.now, x3.now)
       /\ x3.now.links = x2.now.links /\ Permitted(x2, x2.now, x3.now)
       /\ \A m \in Nodes : x3.now.nodes[m] = IF m \in nodes THEN None ELSE x2.now.nodes[m]
       /\ \A p \in Pins : x3.now.pins[p] = IF p[1] \in nodes THEN None ELSE x2.now.pins[p]
  <2> HIDE DEF x4
  <2>1. NodesOff(x2, x3, nodes)
    BY <1>2, <1>6, <1>8, <1>9, RemoveNodesIs
  <2> HIDE DEF x3
  <2> QED
    BY <1>1, <2>1 DEF NodesOff
<1>11. x3 \in Transactions
  BY <1>10 DEF Follows
<1> HIDE DEF x3
<1>12. /\ Follows(x3, x4) /\ OnlyLinkStates(x3.now, x4.now) /\ Permitted(x3, x3.now, x4.now)
       /\ \A l \in Links : x4.now.link_states[l] = IF l \in links THEN None ELSE x3.now.link_states[l]
  BY <1>1, <1>2, <1>11, ClearLinksIs
<1>13. x4 \in Transactions /\ x4.now \in Docs
  BY <1>12 DEF Follows, OnlyLinkStates
<1> HIDE DEF x4
<1>14. /\ Follows(x4, x) /\ OnlyNodeStates(x4.now, x.now) /\ Permitted(x4, x4.now, x.now)
       /\ \A n \in Nodes : x.now.node_states[n] = IF n \in nodes THEN None ELSE x4.now.node_states[n]
  BY <1>1, <1>2, <1>13, ClearNodesIs
<1>15. Follows(t, x2) /\ Follows(t, x3) /\ Follows(t, x4) /\ Follows(t, x)
  BY <1>3, <1>5, <1>10, <1>12, <1>14, FollowsOn
<1>16. Permitted(t, t.now, x.now)
  <2>1. Permitted(t, x1.now, x2.now)
    BY <1>3, <1>5, PermittedIs
  <2>2. Permitted(t, x2.now, x3.now)
    BY <1>10, <1>15, PermittedIs
  <2>3. Permitted(t, x3.now, x4.now)
    BY <1>12, <1>15, PermittedIs
  <2>4. Permitted(t, x4.now, x.now)
    BY <1>14, <1>15, PermittedIs
  <2> QED
    BY <1>3, <2>1, <2>2, <2>3, <2>4, PermittedOn
<1>17. /\ x.now \in Docs /\ x.now.read_only = x2.now.read_only
       /\ x.now.nodes = x3.now.nodes /\ x.now.pins = x3.now.pins /\ x.now.links = x2.now.links
       /\ x.now.groups = x1.now.groups /\ x.now.link_states = x4.now.link_states
       /\ x4.now.node_states = x2.now.node_states /\ x3.now.link_states = x2.now.link_states
  BY <1>7, <1>10, <1>12, <1>14 DEF OnlyStructure, OnlyLinkStates, OnlyNodeStates
<1>18. /\ \A m \in Nodes : x.now.nodes[m] = IF m \in nodes THEN None ELSE t.now.nodes[m]
       /\ \A p \in Pins : x.now.pins[p] = IF p[1] \in nodes THEN None ELSE t.now.pins[p]
       /\ \A l \in Links : x.now.links[l] = IF l \in links THEN None ELSE t.now.links[l]
  BY <1>7, <1>10, <1>17
<1>19. /\ \A m \in Nodes : x.now.node_states[m] = IF m \in nodes THEN None ELSE t.now.node_states[m]
       /\ \A l \in Links : x.now.link_states[l] = IF l \in links THEN None ELSE t.now.link_states[l]
  BY <1>7, <1>12, <1>14, <1>17
<1>20. Deleted(t.now, x.now, nodes, links, groups)
  BY <1>3, <1>7, <1>17, <1>18, <1>19 DEF Deleted
<1> QED
  BY <1>15, <1>16, <1>20

LEMMA RevertDeleteIs ==
    ASSUME NEW d \in Docs, Good(d), NEW nodes, NEW links, NEW groups,
           GoesWith(d, nodes, links, groups),
           NEW f \in Transactions, ~f.enforce, Deleted(d, f.now, nodes, links, groups),
           NEW c, NEW saved, DeleteKept(d, saved, nodes, links, groups)
    PROVE  LET u == RevertDelete(f, c, saved) IN u \in Transactions /\ u.now = d
<1> DEFINE u == RevertDelete(f, c, saved)
           states == [n \in nodes |-> saved.nodes[n].state]
           v1 == AddNodes(f, saved.nodes)
           v2 == AddLinks(v1, saved.links)
           v3 == ShowNodes(v2, states)
           v4 == ShowLinks(v3, [l \in DOMAIN saved.links |-> saved.links[l].state])
<1>1. NodesGood(d) /\ LinksGood(d) /\ ValidPresentation(d)
  BY GoodFrom
<1>2. /\ nodes \in SUBSET Nodes /\ links \in SUBSET Links /\ groups \in SUBSET Groups
      /\ \A m \in nodes : d.nodes[m] # None
      /\ \A l \in links : d.links[l] # None
      /\ \A g \in groups : d.groups[g] # None
  BY DEF GoesWith
<1>3. /\ DOMAIN saved.nodes = nodes /\ saved.links = Snapshot(d, links)
      /\ \A m \in nodes : /\ saved.nodes[m].node = d.nodes[m]
                          /\ saved.nodes[m].state = d.node_states[m]
                          /\ saved.nodes[m].pins = PinsOf(d, m)
      /\ saved.groups = [g \in groups |-> d.groups[g].members] /\ DOMAIN saved.groups = groups
  BY DEF DeleteKept
<1>4. u = IF v1 = None THEN None ELSE IF v2 = None THEN None
          ELSE IF v3 = None THEN None
          ELSE IF v4 = None THEN None ELSE Regroup(v4, saved.groups)
  BY <1>3 DEF RevertDelete, Then
<1> HIDE DEF u
<1>5. /\ v1 # None /\ Follows(f, v1) /\ v1.now \in Docs /\ OnlyStructure(f.now, v1.now)
      /\ v1.now.links = f.now.links
      /\ \A m \in Nodes : v1.now.nodes[m] = d.nodes[m]
      /\ \A p \in Pins : v1.now.pins[p] = d.pins[p]
  <2> HIDE DEF v2, v3, v4
  <2>1. /\ \A n \in nodes : f.now.nodes[n] = None
        /\ \A p \in Pins : p[1] \in nodes => f.now.pins[p] = None
    BY <1>2 DEF Deleted
  <2>2. NodesOn(d, f, v1, nodes)
    <3>1. \A n \in nodes : /\ d.nodes[n] # None /\ saved.nodes[n].node = d.nodes[n]
                           /\ saved.nodes[n].pins = PinsOf(d, n)
      BY <1>2, <1>3
    <3> QED
      BY <1>1, <1>2, <1>3, <2>1, <3>1, AddNodesIs
  <2> HIDE DEF v1
  <2> QED
    BY <2>2 DEF NodesOn, Deleted
<1>6. v1 \in Transactions /\ ~v1.enforce
  BY <1>5 DEF Follows
<1> HIDE DEF v1
<1>7. v1.now.nodes = d.nodes /\ v1.now.pins = d.pins
  BY <1>5, PartsAre
<1>8. v2 # None /\ Rejoined(d, v1, v2)
  <2>1. \A l \in Links : v1.now.links[l] = IF l \in links THEN None ELSE d.links[l]
    BY <1>5 DEF Deleted
  <2>2. v2 = AddLinks(v1, Snapshot(d, links))
    BY <1>3
  <2> HIDE DEF v2, v3, v4
  <2> QED
    BY <1>2, <1>6, <1>7, <2>1, <2>2, AddLinksAgain
<1> HIDE DEF v2
<1>9. /\ v2 \in Transactions /\ ~v2.enforce /\ v2.now \in Docs
      /\ v2.now.nodes = d.nodes /\ v2.now.pins = d.pins /\ v2.now.links = d.links
      /\ v2.now.node_states = f.now.node_states /\ v2.now.link_states = f.now.link_states
      /\ v2.now.groups = f.now.groups /\ v2.now.read_only = d.read_only
  BY <1>5, <1>7, <1>8 DEF Rejoined, OnlyLinks, OnlyStructure, Deleted
<1>10. /\ states \in [nodes -> NodeStates \cup {None}]
       /\ \A n \in nodes : states[n] = d.node_states[n]
  <2>1. \A n \in nodes : d.node_states[n] \in NodeStates \cup {None}
    BY <1>2, PartsAre
  <2> QED
    BY <1>3, <2>1
<1> HIDE DEF states
<1>11. /\ v3 # None /\ Follows(v2, v3) /\ OnlyNodeStates(v2.now, v3.now)
       /\ \A n \in Nodes : v3.now.node_states[n] = IF n \in nodes THEN states[n] ELSE v2.now.node_states[n]
  <2> HIDE DEF v4
  <2>1. ShownNodes(v2, states, v3, nodes)
    BY <1>2, <1>9, <1>10, ShowNodesIs
  <2>2. \A n \in nodes : states[n] # None => v2.now.nodes[n] # None
    BY <1>2, <1>9
  <2> HIDE DEF v3
  <2> QED
    BY <1>9, <2>1, <2>2 DEF ShownNodes
<1> HIDE DEF v3
<1>12. /\ v3 \in Transactions /\ ~v3.enforce /\ v3.now \in Docs
       /\ v3.now.nodes = d.nodes /\ v3.now.pins = d.pins /\ v3.now.links = d.links
       /\ v3.now.node_states = d.node_states /\ v3.now.link_states = f.now.link_states
       /\ v3.now.groups = f.now.groups /\ v3.now.read_only = d.read_only
  <2>1. v3 \in Transactions /\ ~v3.enforce /\ v3.now \in Docs
    BY <1>9, <1>11 DEF Follows, OnlyNodeStates
  <2>2. \A n \in Nodes : v3.now.node_states[n] = d.node_states[n]
    BY <1>9, <1>10, <1>11 DEF Deleted
  <2>3. v3.now.node_states = d.node_states
    BY <2>1, <2>2, PartsAre
  <2> QED
    BY <1>9, <1>11, <2>1, <2>3 DEF OnlyNodeStates
<1>13. /\ v4 # None /\ v4 \in Transactions /\ ~v4.enforce /\ v4.now \in Docs
       /\ v4.now.links = d.links /\ v4.now.link_states = d.link_states
       /\ v4.now.read_only = d.read_only /\ v4.now.nodes = d.nodes /\ v4.now.pins = d.pins
       /\ v4.now.node_states = d.node_states /\ v4.now.groups = f.now.groups
  <2>1. \A l \in Links : v3.now.link_states[l] = IF l \in links THEN None ELSE d.link_states[l]
    BY <1>12 DEF Deleted
  <2>2. v4 = ShowLinks(v3, [l \in DOMAIN Snapshot(d, links) |-> Snapshot(d, links)[l].state])
    BY <1>3
  <2> HIDE DEF v4
  <2>3. /\ v4 # None /\ v4 \in Transactions /\ ~v4.enforce
        /\ OnlyLinkStates(v3.now, v4.now) /\ v4.now.link_states = d.link_states
    BY <1>2, <1>12, <2>1, <2>2, ShowLinksAgain
  <2> QED
    BY <1>12, <2>3 DEF OnlyLinkStates
<1> HIDE DEF v4
<1>14. saved.groups \in [groups -> SUBSET Nodes]
  <2>1. \A g \in groups : d.groups[g].members \in SUBSET Nodes
    BY <1>2, PartsAre DEF GroupValues
  <2> QED
    BY <1>3, <2>1
<1>15. \A g \in groups : /\ v4.now.groups[g] # None
                         /\ v4.now.groups[g] = [d.groups[g] EXCEPT !.members = d.groups[g].members \ nodes]
                         /\ \A m \in saved.groups[g] : v4.now.nodes[m] # None
  <2> TAKE g \in groups
  <2>1. g \in Groups /\ d.groups[g] # None /\ d.groups[g] \in GroupValues
    BY <1>2, PartsAre
  <2>2. v4.now.groups[g] = [d.groups[g] EXCEPT !.members = d.groups[g].members \ nodes]
    BY <1>13, <2>1 DEF Deleted
  <2>3. v4.now.groups[g] \in GroupValues
    BY <2>1, <2>2 DEF GroupValues
  <2>4. \A m \in d.groups[g].members : d.nodes[m] # None
    BY <1>1, <2>1 DEF ValidPresentation, GroupValues
  <2> QED
    BY <1>3, <1>13, <2>2, <2>3, <2>4, NotNone
<1>16. /\ u # None /\ Follows(v4, u) /\ OnlyGroups(v4.now, u.now)
       /\ \A g \in Groups : u.now.groups[g] =
             IF g \in groups THEN [v4.now.groups[g] EXCEPT !.members = saved.groups[g]] ELSE v4.now.groups[g]
  <2>1. u = Regroup(v4, saved.groups)
    BY <1>4, <1>5, <1>8, <1>11, <1>13
  <2>2. Regrouped(v4, saved.groups, u, groups)
    BY <1>2, <1>13, <1>14, <1>15, <2>1, RegroupIs
  <2> QED
    BY <2>2 DEF Regrouped
<1>17. u \in Transactions /\ u.now \in Docs
  BY <1>16 DEF Follows, OnlyGroups
<1>18. u.now.groups = d.groups
  <2>1. ASSUME NEW g \in Groups PROVE u.now.groups[g] = d.groups[g]
    <3>1. CASE g \in groups
      <4>1. d.groups[g] \in GroupValues
        BY <1>2, <3>1, PartsAre
      <4>2. u.now.groups[g] = [[d.groups[g] EXCEPT !.members = d.groups[g].members \ nodes]
                                  EXCEPT !.members = d.groups[g].members]
        <5>1. saved.groups[g] = d.groups[g].members
          BY <1>3, <3>1
        <5>2. v4.now.groups[g] = [d.groups[g] EXCEPT !.members = d.groups[g].members \ nodes]
          BY <1>15, <3>1
        <5> HIDE DEF states
        <5>3. u.now.groups[g] = [v4.now.groups[g] EXCEPT !.members = saved.groups[g]]
          BY <1>16, <3>1
        <5> QED
          BY <5>1, <5>2, <5>3
      <4> QED
        BY <4>1, <4>2 DEF GroupValues
    <3>2. CASE g \notin groups
      BY <1>13, <1>16, <3>2 DEF Deleted
    <3> QED
      BY <3>1, <3>2
  <2> QED
    BY <1>17, <2>1, PartsAre
<1>19. u.now = d
  BY <1>13, <1>16, <1>17, <1>18, SameDocument DEF OnlyGroups
<1> QED
  BY <1>17, <1>19 DEF u

LEMMA DeleteUndoes ==
    ASSUME NEW d \in Docs, Good(d), NEW nodes \in SUBSET Nodes, \A m \in nodes : d.nodes[m] # None,
           NEW lone \in SUBSET Links, \A l \in lone : d.links[l] # None
    PROVE  Undoes(d, [kind |-> "delete", nodes |-> nodes, links |-> lone])
<1> DEFINE c == [kind |-> "delete", nodes |-> nodes, links |-> lone]
           b == Begin(d, TRUE)
           t == Executed(d, c)
           e == Led(d, c)
           f == Begin(e, FALSE)
           u == TakenBack(d, c)
           saved == Capture(d, c)
<1>1. PICK links \in SUBSET Links, groups \in SUBSET Groups :
         GoesWith(d, nodes, links, groups) /\ DeleteKept(d, saved, nodes, links, groups)
  <2>1. saved = CaptureDelete(d, c) /\ c.nodes = nodes /\ c.links = lone
    BY DEF Capture
  <2> HIDE DEF c, saved
  <2> QED
    BY <2>1, DeleteKeptIs
<1>2. t = ApplyDelete(b, c, saved) /\ u = RevertDelete(f, c, saved) /\ c.nodes = nodes
  <2> HIDE DEF b, f
  <2> QED
    BY DEF Executed, TakenBack, Apply, Revert, b, f, saved
<1>3. b \in Transactions /\ b.now = d /\ b.base = d
  BY ExecutedIs
<1>4. NodesGood(d)
  BY GoodFrom
<1> HIDE DEF saved, c
<1> SUFFICES ASSUME t # None
             PROVE  /\ e \in Docs /\ Good(e) /\ Permitted(b, d, e)
                    /\ u \in Transactions /\ u.now = d
  <2>1. Undoes(d, c)
    BY PermittedUndoes DEF Changes
  <2> QED
    BY <2>1 DEF c
<1> HIDE DEF b
<1>5. Deleted(d, e, nodes, links, groups) /\ Permitted(b, d, e)
  <2>1. e = t.now
    BY DEF Led, t, e
  <2>2. DOMAIN saved.links = links /\ DOMAIN saved.groups = groups
    BY <1>1 DEF DeleteKept
  <2> HIDE DEF t, e
  <2> QED
    BY <1>1, <1>2, <1>3, <1>4, <2>1, <2>2, ApplyDeleteIs
<1> HIDE DEF e, t
<1>6. e \in Docs /\ Good(e)
  <2>1. Good(e)
    BY <1>1, <1>5, DeletedGood
  <2> QED
    BY <1>5, <2>1 DEF Deleted
<1>7. f \in Transactions /\ f.now = e /\ ~f.enforce
  BY <1>6, RevertedIs
<1> HIDE DEF f, u
<1>8. u \in Transactions /\ u.now = d
  BY <1>1, <1>2, <1>5, <1>7, RevertDeleteIs
<1> QED
  BY <1>5, <1>6, <1>8

-----------------------------------------------------------------------------
(* A converter between two pins                                            *)

\* The links that a conversion gets, and the one that it replaces.
Planned(d, replacing, first, second) ==
    /\ first \in Links /\ second \in Links /\ first # second
    /\ replacing \in {None, first, second}
    /\ \A l \in {first, second} : d.links[l] = None \/ l = replacing
    /\ replacing # None => d.links[replacing] # None

\* e is d with a converter and its links.
Converted(d, e, n, replacing, first, second) ==
    /\ e \in Docs /\ e.read_only = d.read_only /\ e.groups = d.groups
    /\ d.nodes[n] = None /\ e.nodes[n] # None
    /\ e.nodes[n].pins = Statics(n, "convert")
    /\ \A m \in Nodes \ {n} : e.nodes[m] = d.nodes[m]
    /\ \A p \in ToSet(Statics(n, "convert")) : d.pins[p] = None
    /\ \A p \in Pins : p \notin ToSet(Statics(n, "convert")) => e.pins[p] = d.pins[p]
    /\ \A m \in Nodes \ {n} : e.node_states[m] = d.node_states[m]
    /\ e.links[first] # None /\ e.links[second] # None
    /\ \A l \in Links \ {first, second} : e.links[l] = d.links[l]
    /\ \A l \in Links : l # replacing => e.link_states[l] = d.link_states[l]

\* Links of d that are left when a node has come.
LEMMA LinksBeside ==
    ASSUME NEW d \in Docs, LinksGood(d), NEW n \in Nodes, NEW schema \in SchemaNames,
           NEW e, NodeMade(d, e, n, schema), NEW r \in Docs, r.pins = e.pins,
           \A l \in Links : r.links[l] \in {None, d.links[l]}
    PROVE  LinksGood(r)
<1>1. ASSUME NEW l \in Links, r.links[l] # None, NEW p \in Ends(r, l)
      PROVE  Alike(d.pins[p], r.pins[p])
  <2>1. r.links[l] = d.links[l] /\ d.links[l] # None
    BY <1>1
  <2>2. d.links[l] \in LinkValues
    BY <2>1, PartsAre
  <2>3. p \in Pins /\ d.pins[p] # None
    BY <1>1, <2>1, <2>2 DEF LinksGood, Joins, Ends, LinkValues
  <2>4. e.pins[p] = d.pins[p]
    BY <2>3 DEF NodeMade
  <2> QED
    BY <2>3, <2>4 DEF Alike
<1> QED
  BY <1>1, LinksErased

\* The link that makes room.
Freed(a, replacing) == IF replacing = None THEN a ELSE RemovePlannedLink(a, replacing)
LEMMA FreedIs ==
    ASSUME NEW a \in Transactions, NEW replacing \in Links \cup {None}, Freed(a, replacing) # None,
           replacing # None => /\ OpenGraph(a) /\ FreeLink(a, replacing)
                               /\ \A p \in Ends(a.now, replacing) : FreeEnd(a, p)
    PROVE  LET r == Freed(a, replacing) IN
           /\ Follows(a, r) /\ OnlyLinks(a.now, r.now) /\ Permitted(a, a.now, r.now)
           /\ \A l \in Links : r.now.links[l] = IF l = replacing THEN None ELSE a.now.links[l]
<1> DEFINE r == Freed(a, replacing)
<1>0. a.now \in Docs /\ Follows(a, a) /\ Permitted(a, a.now, a.now) /\ \A l \in Links : l # None
  BY NowIs, NotNone, PermittedIs
<1>1. CASE replacing = None
  BY <1>0, <1>1 DEF Freed, OnlyLinks, OnlyStructure
<1>2. CASE replacing # None
  <2>1. r = RemovePlannedLink(a, replacing) /\ replacing \in Links
    BY <1>2 DEF Freed
  <2> HIDE DEF r
  <2>2. /\ Follows(a, r) /\ OnlyLink(a.now, r.now, replacing) /\ r.now.links[replacing] = None
        /\ Permitted(a, a.now, r.now)
    BY <1>2, <2>1, RemovePlannedLinkIs DEF r
  <2> QED
    BY <2>1, <2>2 DEF r, OnlyLink, OnlyLinks
<1> QED
  BY <1>1, <1>2

\* The route of the link that is replaced is straightened.
Straightened(y, replacing, kept) ==
    IF replacing # None /\ kept # None THEN SetLinkRoute(y, replacing, EmptyRoute) ELSE y
LEMMA StraightenedIs ==
    ASSUME NEW y \in Transactions, NEW replacing \in Links \cup {None}, NEW kept,
           Straightened(y, replacing, kept) # None
    PROVE  LET z == Straightened(y, replacing, kept) IN
           /\ Follows(y, z) /\ OnlyLinkStates(y.now, z.now) /\ Permitted(y, y.now, z.now)
           /\ \A l \in Links : l # replacing => z.now.link_states[l] = y.now.link_states[l]
           /\ ValidPresentation(y.now) => ValidPresentation(z.now)
<1> DEFINE z == Straightened(y, replacing, kept)
<1>0. y.now \in Docs /\ Follows(y, y) /\ Permitted(y, y.now, y.now)
  BY NowIs, PermittedIs
<1>1. CASE ~(replacing # None /\ kept # None)
  BY <1>0, <1>1 DEF Straightened, OnlyLinkStates
<1>2. CASE replacing # None /\ kept # None
  <2>1. z = SetLinkRoute(y, replacing, EmptyRoute) /\ replacing \in Links
    BY <1>2 DEF Straightened
  <2>2. EmptyRoute \in Routes
    <3>1. EmptyRoute \in [{} -> Looks] /\ {} \in SUBSET Points
      BY DEF EmptyRoute
    <3> QED
      BY <3>1 DEF Routes
  <2>3. z # None
    OBVIOUS
  <2> HIDE DEF z
  <2>4. Dresses(y, z, replacing)
    BY <2>1, <2>2, SetLinkRouteDresses
  <2>5. /\ Permitted(y, y.now, z.now) /\ OnlyLinkState(y.now, z.now, replacing) /\ Follows(y, z)
        /\ ValidPresentation(y.now) => ValidPresentation(z.now)
    BY <2>1, <2>3, <2>4, DressesPermitted
  <2> QED
    BY <2>5 DEF z, OnlyLinkState
<1> QED
  BY <1>1, <1>2

LEMMA ApplyConversionIs ==
    ASSUME NEW d \in Docs, Good(d), NEW t \in Transactions, t.now = d, t.base = d,
           NEW c, NEW n \in Nodes, c.node = n, c.output \in Pins, c.input \in Pins,
           Planned(d, c.replacing, c.first, c.second), NEW saved
    PROVE  LET z == ApplyConversion(t, c, saved) IN
           z # None => /\ Follows(t, z) /\ Good(z.now) /\ Permitted(t, d, z.now)
                       /\ Converted(d, z.now, n, c.replacing, c.first, c.second)
<1> DEFINE z == ApplyConversion(t, c, saved)
           new == [node |-> n, schema |-> "convert"]
           into == LinkOf(c.output, <<n, "in">>)
           from == LinkOf(<<n, "out">>, c.input)
           D == ToSet(Statics(n, "convert"))
           a == ApplyAddNode(t, new)
           r == Freed(a, c.replacing)
           x == AddPlannedLink(r, c.first, into)
           y == AddPlannedLink(x, c.second, from)
<1> SUFFICES ASSUME z # None
             PROVE  /\ Follows(t, z) /\ Good(z.now) /\ Permitted(t, d, z.now)
                    /\ Converted(d, z.now, n, c.replacing, c.first, c.second)
  OBVIOUS
<1>1. /\ ValidateConnection(t, c.output, c.input, c.replacing) = "conversion"
      /\ a # None /\ r # None /\ x # None /\ y # None
      /\ z = Straightened(y, c.replacing, saved.state)
  <2> HIDE DEF into, from, new
  <2>2. z = LET freed == IF c.replacing = None THEN a
                         ELSE IF a = None THEN None ELSE RemovePlannedLink(a, c.replacing)
                first == IF freed = None THEN None ELSE AddPlannedLink(freed, c.first, into)
                second == IF first = None THEN None ELSE AddPlannedLink(first, c.second, from)
            IN IF ValidateConnection(t, c.output, c.input, c.replacing) = "conversion"
               THEN IF c.replacing # None /\ saved.state # None
                    THEN IF second = None THEN None ELSE SetLinkRoute(second, c.replacing, EmptyRoute)
                    ELSE second
               ELSE None
    BY DEF ApplyConversion, Then, When, into, from, new
  <2> HIDE DEF z, a
  <2> QED
    BY <2>2 DEF Freed, Straightened
<1> HIDE DEF z
<1>2. NodesGood(d) /\ LinksGood(d) /\ ValidPresentation(d)
  BY GoodFrom
<1>3. /\ c.first \in Links /\ c.second \in Links /\ c.first # c.second
      /\ c.replacing \in Links \cup {None} /\ c.replacing \in {None, c.first, c.second}
      /\ \A l \in {c.first, c.second} : d.links[l] = None \/ l = c.replacing
      /\ c.replacing # None => d.links[c.replacing] # None
  BY DEF Planned
<1>4. /\ OpenGraph(t) /\ FreeEnd(t, c.output) /\ FreeEnd(t, c.input)
      /\ c.replacing # None => /\ FreeLink(t, c.replacing)
                               /\ \A p \in Ends(d, c.replacing) : FreeEnd(t, p)
  <2>1. ValidateConnection(t, c.output, c.input, c.replacing) # "rejected"
    BY <1>1
  <2> QED
    BY <2>1, ValidationIs DEF Ends
<1>5. /\ Follows(t, a) /\ NodeMade(d, a.now, n, "convert") /\ Permitted(t, d, a.now)
      /\ NodesGood(a.now)
  <2>1. new.node = n /\ new.schema = "convert" /\ "convert" \in SchemaNames
    BY DEF SchemaNames
  <2> HIDE DEF r, x, y, new
  <2> QED
    BY <1>1, <1>2, <2>1, ApplyAddNodeIs
<1>6. a \in Transactions /\ a.now \in Docs /\ a.now.links = d.links
  BY <1>5 DEF Follows, NodeMade
<1> HIDE DEF a
<1>7. /\ <<n, "in">> \in D /\ <<n, "out">> \in D /\ D \in SUBSET Pins
      /\ "convert" \in SchemaNames
  <2>1. "convert" \in SchemaNames /\ Wide("convert")
    BY DEF SchemaNames, Wide
  <2>2. D = {<<n, "in">>, <<n, "out">>}
    BY <2>1, StaticsIs
  <2>3. D \in SUBSET Pins
    BY <2>1, NewNodeIs
  <2> QED
    BY <2>1, <2>2, <2>3
<1>8. FreeEnd(t, <<n, "in">>) /\ FreeEnd(t, <<n, "out">>)
  <2>1. d.nodes[n] = None /\ d.pins[<<n, "in">>] = None /\ d.pins[<<n, "out">>] = None
    BY <1>5, <1>7 DEF NodeMade
  <2> QED
    BY <2>1 DEF FreeEnd, FreePin, FreeNode
<1> HIDE DEF D
<1>9. /\ into \in LinkValues /\ into.output = c.output /\ into.input = <<n, "in">>
      /\ from \in LinkValues /\ from.output = <<n, "out">> /\ from.input = c.input
  BY <1>7 DEF LinkOf, LinkValues
<1> HIDE DEF into, from
<1>10. /\ Follows(a, r) /\ OnlyLinks(a.now, r.now) /\ Permitted(a, a.now, r.now)
       /\ \A l \in Links : r.now.links[l] = IF l = c.replacing THEN None ELSE d.links[l]
  <2>1. OpenGraph(a) /\ (c.replacing # None => FreeLink(a, c.replacing))
    BY <1>4, <1>5 DEF OpenGraph, FreeLink, Follows
  <2>2. c.replacing # None => \A p \in Ends(a.now, c.replacing) : FreeEnd(a, p)
    BY <1>4, <1>5, <1>6, PermittedIs DEF Ends
  <2> HIDE DEF x, y
  <2> QED
    BY <1>1, <1>3, <1>6, <2>1, <2>2, FreedIs
<1>11. /\ r \in Transactions /\ r.now \in Docs /\ Follows(t, r)
       /\ r.now.pins = a.now.pins /\ r.now.nodes = a.now.nodes
  BY <1>5, <1>10, FollowsOn DEF Follows, OnlyLinks
<1> HIDE DEF r
<1>12. LinksGood(r.now)
  <2>1. \A l \in Links : r.now.links[l] \in {None, d.links[l]}
    BY <1>10
  <2> QED
    BY <1>2, <1>5, <1>7, <1>11, <2>1, LinksBeside
<1>13. /\ Follows(r, x) /\ OnlyLink(r.now, x.now, c.first) /\ x.now.links[c.first] = into
       /\ r.now.links[c.first] = None /\ Connects(r.now, into) /\ Compatible(r.now, into)
       /\ Permitted(r, r.now, x.now)
  <2>1. OpenGraph(r) /\ FreeEnd(r, into.output) /\ FreeEnd(r, into.input)
    BY <1>4, <1>8, <1>9, <1>11, PermittedIs
  <2> HIDE DEF y
  <2> QED
    BY <1>1, <1>3, <1>9, <1>11, <2>1, AddPlannedLinkIs
<1>14. x \in Transactions /\ x.now \in Docs /\ Follows(t, x) /\ x.now.pins = a.now.pins
  BY <1>11, <1>13, FollowsOn DEF Follows, OnlyLink
<1> HIDE DEF x
<1>15. LinksGood(x.now)
  BY <1>3, <1>9, <1>11, <1>12, <1>13, <1>14, LinkInserted
<1>16. /\ Follows(x, y) /\ OnlyLink(x.now, y.now, c.second) /\ y.now.links[c.second] = from
       /\ x.now.links[c.second] = None /\ Connects(x.now, from) /\ Compatible(x.now, from)
       /\ Permitted(x, x.now, y.now)
  <2>1. OpenGraph(x) /\ FreeEnd(x, from.output) /\ FreeEnd(x, from.input)
    BY <1>4, <1>8, <1>9, <1>14, PermittedIs
  <2> QED
    BY <1>1, <1>3, <1>9, <1>14, <2>1, AddPlannedLinkIs
<1>17. y \in Transactions /\ y.now \in Docs /\ Follows(t, y)
  BY <1>14, <1>16, FollowsOn DEF Follows, OnlyLink
<1> HIDE DEF y
<1>18. LinksGood(y.now)
  BY <1>3, <1>9, <1>14, <1>15, <1>16, <1>17, LinkInserted
<1>19. /\ OnlyLinks(a.now, y.now) /\ OnlyStructure(a.now, y.now)
       /\ y.now.links[c.first] = into /\ y.now.links[c.second] = from
       /\ \A l \in Links \ {c.first, c.second} : y.now.links[l] = d.links[l]
  <2>1. OnlyLinks(a.now, y.now) /\ OnlyStructure(a.now, y.now)
    BY <1>10, <1>13, <1>16 DEF OnlyLinks, OnlyLink, OnlyStructure
  <2>2. /\ \A l \in Links \ {c.first} : x.now.links[l] = r.now.links[l]
        /\ \A l \in Links \ {c.second} : y.now.links[l] = x.now.links[l]
    BY <1>13, <1>16 DEF OnlyLink
  <2>3. y.now.links[c.first] = into /\ y.now.links[c.second] = from
    BY <1>3, <1>13, <1>16, <2>2
  <2>4. ASSUME NEW l \in Links \ {c.first, c.second} PROVE y.now.links[l] = d.links[l]
    <3>1. l # c.replacing
      BY <1>3, NotNone
    <3> QED
      BY <1>10, <2>2, <3>1
  <2> QED
    BY <2>1, <2>3, <2>4
<1>20. y.now.links[c.first] # None /\ y.now.links[c.second] # None
  BY <1>9, <1>19, NotNone
<1>21. NodesGood(y.now) /\ ValidPresentation(y.now)
  <2>1. NodesGood(y.now)
    BY <1>5, <1>6, <1>17, <1>19, NodesSame DEF OnlyLinks
  <2>2. ValidPresentation(a.now)
    BY <1>5, <1>7, NodeMadeShown
  <2>3. \A l \in Links : a.now.links[l] # None => y.now.links[l] # None
    BY <1>6, <1>19, <1>20
  <2> QED
    BY <1>6, <1>17, <1>19, <2>1, <2>2, <2>3, ShownStill DEF OnlyLinks
<1>22. /\ Follows(y, z) /\ OnlyLinkStates(y.now, z.now) /\ Permitted(y, y.now, z.now)
       /\ \A l \in Links : l # c.replacing => z.now.link_states[l] = y.now.link_states[l]
       /\ ValidPresentation(z.now)
  BY <1>1, <1>3, <1>17, <1>21, StraightenedIs
<1>23. /\ Follows(t, z) /\ z.now \in Docs /\ z.now.nodes = y.now.nodes
       /\ z.now.pins = y.now.pins /\ z.now.links = y.now.links
  BY <1>17, <1>22, FollowsOn DEF OnlyLinkStates
<1>24. Good(z.now)
  <2>1. NodesGood(z.now)
    BY <1>17, <1>21, <1>23, NodesSame
  <2>2. LinksGood(z.now)
    BY <1>18, <1>23 DEF LinksGood, Joins, Distinct, Ends
  <2> QED
    BY <1>22, <1>23, <2>1, <2>2, GoodFrom
<1>25. Permitted(t, d, z.now)
  <2>1. Permitted(t, a.now, r.now)
    BY <1>5, <1>10, PermittedIs
  <2>2. Permitted(t, r.now, x.now)
    BY <1>11, <1>13, PermittedIs
  <2>3. Permitted(t, x.now, y.now)
    BY <1>14, <1>16, PermittedIs
  <2>4. Permitted(t, y.now, z.now)
    BY <1>17, <1>22, PermittedIs
  <2> QED
    BY <1>5, <2>1, <2>2, <2>3, <2>4, PermittedOn
<1>26. Converted(d, z.now, n, c.replacing, c.first, c.second)
  <2>1. /\ z.now.read_only = a.now.read_only /\ z.now.groups = a.now.groups
        /\ z.now.nodes = a.now.nodes /\ z.now.pins = a.now.pins
        /\ z.now.node_states = a.now.node_states
        /\ y.now.link_states = a.now.link_states
    BY <1>19, <1>22 DEF OnlyStructure, OnlyLinks, OnlyLinkStates
  <2> QED
    BY <1>5, <1>19, <1>20, <1>22, <1>23, <2>1 DEF Converted, NodeMade
<1> QED
  BY <1>23, <1>24, <1>25, <1>26

\* What is left of a conversion when the converter and its links are gone.
Unconverted(d, e, replacing) ==
    /\ e \in Docs /\ e.read_only = d.read_only /\ e.groups = d.groups
    /\ e.nodes = d.nodes /\ e.pins = d.pins /\ e.node_states = d.node_states
    /\ \A l \in Links : e.links[l] = IF l = replacing THEN None ELSE d.links[l]
    /\ \A l \in Links : e.link_states[l] = IF l = replacing THEN None ELSE d.link_states[l]
TakenOut(f, c) ==
    LET dropped == Then(Unlink(f, c.second), LAMBDA x : Unlink(x, c.first)) IN
    Then(Then(dropped, LAMBDA x : ClearNodes(x, {c.node})), LAMBDA x : RemoveNode(x, c.node))

LEMMA TakenOutIs ==
    ASSUME NEW d \in Docs, Good(d), NEW n \in Nodes, NEW c, c.node = n,
           Planned(d, c.replacing, c.first, c.second),
           NEW f \in Transactions, ~f.enforce,
           Converted(d, f.now, n, c.replacing, c.first, c.second)
    PROVE  LET v == TakenOut(f, c) IN
           /\ v # None /\ Follows(f, v) /\ Unconverted(d, v.now, c.replacing)
<1> DEFINE v == TakenOut(f, c)
           x1 == Unlink(f, c.second)
           x2 == Unlink(x1, c.first)
           x3 == ClearNodes(x2, {n})
           e == f.now
           D == ToSet(Statics(n, "convert"))
<1>1. v = IF x1 = None THEN None ELSE IF x2 = None THEN None
          ELSE IF x3 = None THEN None ELSE RemoveNode(x3, n)
  BY DEF TakenOut, Then
<1> HIDE DEF v
<1>2. NodesGood(d) /\ LinksGood(d) /\ ValidPresentation(d)
  BY GoodFrom
<1>3. /\ c.first \in Links /\ c.second \in Links /\ c.first # c.second
      /\ c.replacing \in {None, c.first, c.second}
      /\ \A l \in {c.first, c.second} : d.links[l] = None \/ l = c.replacing
      /\ e.links[c.first] # None /\ e.links[c.second] # None /\ e \in Docs
  BY DEF Planned, Converted
<1>4. /\ x1 # None /\ Follows(f, x1) /\ LinksAside(e, x1.now)
      /\ x1.now.links[c.second] = None /\ x1.now.link_states[c.second] = None
      /\ \A m \in Links \ {c.second} : /\ x1.now.links[m] = e.links[m]
                                       /\ x1.now.link_states[m] = e.link_states[m]
  <2>1. x1 # None
    BY <1>3, UnlinkIs
  <2> HIDE DEF x1, x2, x3
  <2> QED
    BY <1>3, <2>1, UnlinkIs DEF x1
<1>5. x1 \in Transactions /\ ~x1.enforce /\ x1.now.links[c.first] # None
  BY <1>3, <1>4 DEF Follows
<1> HIDE DEF x1
<1>6. /\ x2 # None /\ Follows(x1, x2) /\ LinksAside(x1.now, x2.now)
      /\ x2.now.links[c.first] = None /\ x2.now.link_states[c.first] = None
      /\ \A m \in Links \ {c.first} : /\ x2.now.links[m] = x1.now.links[m]
                                      /\ x2.now.link_states[m] = x1.now.link_states[m]
  <2>1. x2 # None
    BY <1>3, <1>5, UnlinkIs
  <2> HIDE DEF x2, x3
  <2> QED
    BY <1>3, <1>5, <2>1, UnlinkIs DEF x2
<1>7. x2 \in Transactions /\ ~x2.enforce /\ x2.now \in Docs
  BY <1>5, <1>6 DEF Follows, LinksAside
<1> HIDE DEF x2
<1>8. /\ x3 # None /\ Follows(x2, x3) /\ OnlyNodeStates(x2.now, x3.now)
      /\ \A m \in Nodes : x3.now.node_states[m] = IF m \in {n} THEN None ELSE x2.now.node_states[m]
  BY <1>7, ClearNodesIs
<1>9. x3 \in Transactions /\ ~x3.enforce /\ x3.now \in Docs /\ Follows(f, x3)
  BY <1>4, <1>6, <1>7, <1>8, FollowsOn DEF Follows, OnlyNodeStates
<1> HIDE DEF x3
<1>10. /\ x3.now.read_only = d.read_only /\ x3.now.groups = d.groups
       /\ x3.now.nodes = e.nodes /\ x3.now.pins = e.pins /\ x2.now.node_states = e.node_states
       /\ x3.now.links = x2.now.links /\ x3.now.link_states = x2.now.link_states
  BY <1>4, <1>6, <1>8 DEF LinksAside, OnlyNodeStates, Converted
<1>11. \A l \in Links : x3.now.links[l] = IF l = c.replacing THEN None ELSE d.links[l]
  <2> TAKE l \in Links
  <2>1. CASE l \in {c.first, c.second}
    BY <1>3, <1>4, <1>6, <1>10, <2>1
  <2>2. CASE l \notin {c.first, c.second}
    <3>1. e.links[l] = d.links[l] /\ l # c.replacing
      BY <1>3, <2>2, NotNone DEF Converted
    <3> QED
      BY <1>4, <1>6, <1>10, <2>2, <3>1
  <2> QED
    BY <2>1, <2>2
<1>12. \A l \in Links : x3.now.link_states[l] = IF l = c.replacing THEN None ELSE d.link_states[l]
  <2> TAKE l \in Links
  <2>1. CASE l \in {c.first, c.second}
    BY <1>2, <1>3, <1>4, <1>6, <1>10, <2>1 DEF ValidPresentation
  <2>2. CASE l \notin {c.first, c.second}
    <3>1. l # c.replacing
      BY <1>3, <2>2, NotNone
    <3>2. e.link_states[l] = d.link_states[l]
      BY <3>1 DEF Converted
    <3> QED
      BY <1>4, <1>6, <1>10, <2>2, <3>1, <3>2
  <2> QED
    BY <2>1, <2>2
<1>13. /\ x3.now.nodes[n] # None /\ x3.now.nodes[n].pins = Statics(n, "convert")
       /\ \A p \in D : p \in Pins /\ p[1] = n /\ d.pins[p] = None
  <2>1. "convert" \in SchemaNames
    BY DEF SchemaNames
  <2>2. D \subseteq {<<n, "in">>, <<n, "out">>} /\ D \in SUBSET Pins
    <3>1. D = {<<n, "in">>} \cup IF Wide("convert") THEN {<<n, "out">>} ELSE {}
      BY <2>1, StaticsIs
    <3>2. D \in SUBSET Pins
      BY <2>1, NewNodeIs
    <3> HIDE DEF D
    <3> QED
      BY <3>1, <3>2
  <2> QED
    BY <1>10, <2>2 DEF Converted
<1>14. LinksOfNode(x3.now, n) = {}
  <2>1. ASSUME NEW p \in D, NEW l \in IncidentLinks(x3.now, p) PROVE FALSE
    <3>1. l \in Links /\ x3.now.links[l] = d.links[l] /\ d.links[l] # None
      BY <1>11, <2>1 DEF IncidentLinks
    <3>2. p \in {d.links[l].output, d.links[l].input}
      BY <2>1, <3>1 DEF IncidentLinks
    <3> QED
      BY <1>2, <1>13, <3>1, <3>2 DEF LinksGood, Joins
  <2> QED
    BY <1>13, <2>1 DEF LinksOfNode, D
<1>15. v = RemoveNode(x3, n)
  BY <1>1, <1>4, <1>6, <1>8
<1>16. v # None /\ Follows(x3, v) /\ NodeOff(x3.now, v.now, n)
  <2>1. \A p \in ToSet(x3.now.nodes[n].pins) : p[1] = n
    BY <1>13
  <2>2. v # None
    BY <1>9, <1>13, <1>14, <1>15, <2>1, RemoveNodeIs
  <2> QED
    BY <1>9, <1>13, <1>14, <1>15, <2>1, <2>2, RemoveNodeIs
<1>17. v.now \in Docs /\ Follows(f, v)
  BY <1>9, <1>16, FollowsOn DEF NodeOff
<1>18. v.now.nodes = d.nodes
  <2>1. \A m \in Nodes : v.now.nodes[m] = d.nodes[m]
    BY <1>10, <1>16 DEF NodeOff, Converted
  <2> QED
    BY <1>17, <2>1, PartsAre
<1>19. v.now.pins = d.pins
  <2>1. \A p \in Pins : v.now.pins[p] = IF p \in D THEN None ELSE e.pins[p]
    BY <1>10, <1>13, <1>16 DEF NodeOff
  <2>2. \A p \in Pins : p \notin D => e.pins[p] = d.pins[p]
    BY DEF Converted
  <2>3. \A p \in Pins : v.now.pins[p] = d.pins[p]
    BY <1>13, <2>1, <2>2
  <2> QED
    BY <1>17, <2>3, PartsAre
<1>20. v.now.node_states = d.node_states
  <2>1. d.node_states[n] = None
    BY <1>2 DEF ValidPresentation, Converted
  <2>2. \A m \in Nodes : x3.now.node_states[m] = d.node_states[m]
    BY <1>8, <1>10, <2>1 DEF Converted
  <2>3. \A m \in Nodes : v.now.node_states[m] = d.node_states[m]
    BY <1>16, <2>2 DEF NodeOff, OnlyStructure
  <2> QED
    BY <1>17, <2>3, PartsAre
<1>21. /\ v.now.links = x3.now.links /\ v.now.link_states = x3.now.link_states
       /\ v.now.read_only = d.read_only /\ v.now.groups = d.groups
  BY <1>10, <1>16 DEF NodeOff, OnlyStructure
<1>22. Unconverted(d, v.now, c.replacing)
  BY <1>11, <1>12, <1>17, <1>18, <1>19, <1>20, <1>21 DEF Unconverted
<1> QED
  BY <1>16, <1>17, <1>22 DEF v

LEMMA RevertConversionIs ==
    ASSUME NEW d \in Docs, Good(d), NEW n \in Nodes, NEW c, c.node = n,
           Planned(d, c.replacing, c.first, c.second),
           NEW f \in Transactions, ~f.enforce,
           Converted(d, f.now, n, c.replacing, c.first, c.second),
           NEW saved,
           c.replacing # None => /\ saved.link = d.links[c.replacing]
                                 /\ saved.state = d.link_states[c.replacing]
    PROVE  LET u == RevertConversion(f, c, saved) IN u \in Transactions /\ u.now = d
<1> DEFINE u == RevertConversion(f, c, saved)
           v == TakenOut(f, c)
           l == c.replacing
           w == AddLink(v, l, saved.link)
<1>1. u = IF l = None THEN v ELSE IF v = None THEN None ELSE IF w = None THEN None
          ELSE SetLinkPresentation(w, l, saved.state)
  BY DEF RevertConversion, TakenOut, Then
<1> HIDE DEF u
<1>2. NodesGood(d) /\ LinksGood(d) /\ ValidPresentation(d)
  BY GoodFrom
<1>3. v # None /\ Follows(f, v) /\ Unconverted(d, v.now, l)
  BY TakenOutIs
<1>4. v \in Transactions /\ ~v.enforce /\ v.now \in Docs
  BY <1>3 DEF Follows, Unconverted
<1> HIDE DEF v
<1>5. CASE l = None
  <2>1. /\ \A m \in Links : v.now.links[m] = d.links[m]
        /\ \A m \in Links : v.now.link_states[m] = d.link_states[m]
    BY <1>3, <1>5, NotNone DEF Unconverted
  <2>2. v.now.links = d.links /\ v.now.link_states = d.link_states
    BY <1>4, <2>1, PartsAre
  <2>3. v.now = d
    BY <1>3, <1>4, <2>2, SameDocument DEF Unconverted
  <2> QED
    BY <1>1, <1>4, <1>5, <2>3 DEF u
<1>6. CASE l # None
  <2>1. l \in Links /\ d.links[l] # None
    BY <1>6 DEF Planned
  <2>2. saved.link = d.links[l] /\ saved.state = d.link_states[l]
    BY <1>6
  <2>3. saved.link \in LinkValues /\ Connects(v.now, saved.link)
    <3>1. /\ v.now.links[l] = None /\ v.now.pins = d.pins
          /\ \A m \in Links : v.now.links[m] \in {None, d.links[m]}
      BY <1>3, <2>1 DEF Unconverted
    <3> HIDE DEF l
    <3> QED
      BY <1>2, <1>4, <2>1, <2>2, <3>1, ConnectsAgain
  <2> HIDE DEF l
  <2>4. /\ w # None /\ Follows(v, w) /\ OnlyLink(v.now, w.now, l)
        /\ w.now.links[l] = d.links[l]
    <3>1. v.now.links[l] = None
      BY <1>3, <2>1 DEF Unconverted
    <3>2. w # None
      BY <1>4, <2>1, <2>3, <3>1, AddLinkIs
    <3> HIDE DEF w
    <3> QED
      BY <1>4, <2>1, <2>2, <2>3, <3>2, AddLinkIs DEF w
  <2>5. w \in Transactions /\ w.now \in Docs /\ ~w.enforce
    BY <1>4, <2>4 DEF Follows, OnlyLink
  <2> HIDE DEF w
  <2>6. OnlyLinkState(d, w.now, l)
    <3>1. /\ w.now.nodes = d.nodes /\ w.now.pins = d.pins
          /\ w.now.read_only = d.read_only /\ w.now.node_states = d.node_states
          /\ w.now.groups = d.groups
          /\ \A m \in Links \ {l} : w.now.link_states[m] = d.link_states[m]
          /\ \A m \in Links : w.now.links[m] = d.links[m]
      BY <1>3, <2>4 DEF OnlyLink, OnlyStructure, Unconverted
    <3>2. w.now.links = d.links
      BY <2>5, <3>1, PartsAre
    <3> QED
      BY <2>5, <3>1, <3>2 DEF OnlyLinkState, OnlyLinkStates
  <2>7. d.link_states[l] \in LinkStates \cup {None} /\ Unshared(w.now, l, d.link_states[l])
    BY <1>2, <2>1, <2>5, <2>6, OneLinkShown, PartsAre
  <2>8. u = SetLinkPresentation(w, l, d.link_states[l])
    BY <1>1, <1>3, <1>6, <2>2, <2>4
  <2>9. /\ u # None /\ Follows(w, u) /\ OnlyLinkState(w.now, u.now, l)
        /\ u.now.link_states[l] = d.link_states[l]
    BY <2>1, <2>4, <2>5, <2>7, <2>8, SetLinkPresentationIs
  <2>10. OnlyLinkState(d, u.now, l)
    BY <2>6, <2>9 DEF OnlyLinkState, OnlyLinkStates
  <2>11. u.now = d
    BY <2>1, <2>9, <2>10, OnlyLinkStateIs
  <2> QED
    BY <2>9, <2>11 DEF u, Follows
<1> QED
  BY <1>5, <1>6

LEMMA ConvertUndoes ==
    ASSUME NEW d \in Docs, Good(d), NEW n \in Nodes, NEW output \in Pins, NEW input \in Pins,
           NEW replacing, NEW first, NEW second, Planned(d, replacing, first, second)
    PROVE  Undoes(d, [kind |-> "convert", node |-> n, output |-> output, input |-> input,
                      first |-> first, second |-> second, replacing |-> replacing])
<1> DEFINE c == [kind |-> "convert", node |-> n, output |-> output, input |-> input,
                 first |-> first, second |-> second, replacing |-> replacing]
           b == Begin(d, TRUE)
           t == Executed(d, c)
           e == Led(d, c)
           f == Begin(e, FALSE)
           u == TakenBack(d, c)
           saved == Capture(d, c)
<1>1. /\ t = ApplyConversion(b, c, saved) /\ u = RevertConversion(f, c, saved)
      /\ c.node = n /\ c.output = output /\ c.input = input
      /\ c.first = first /\ c.second = second /\ c.replacing = replacing
  <2> HIDE DEF b, f
  <2> QED
    BY DEF Executed, TakenBack, Apply, Revert, b, f, saved
<1>2. replacing # None => saved.link = d.links[replacing] /\ saved.state = d.link_states[replacing]
  BY DEF Capture, CaptureLink
<1>3. b \in Transactions /\ b.now = d /\ b.base = d
  BY ExecutedIs
<1> HIDE DEF saved, c
<1> SUFFICES ASSUME t # None
             PROVE  /\ e \in Docs /\ Good(e) /\ Permitted(b, d, e)
                    /\ u \in Transactions /\ u.now = d
  <2>1. Undoes(d, c)
    BY PermittedUndoes DEF Changes
  <2> QED
    BY <2>1 DEF c
<1> HIDE DEF b
<1>4. /\ Good(e) /\ Permitted(b, d, e)
      /\ Converted(d, e, n, c.replacing, c.first, c.second)
  <2>1. e = t.now
    BY DEF Led, t, e
  <2> HIDE DEF t, e
  <2> QED
    BY <1>1, <1>3, <2>1, ApplyConversionIs
<1> HIDE DEF e, t
<1>5. e \in Docs
  BY <1>4 DEF Converted
<1>6. f \in Transactions /\ f.now = e /\ ~f.enforce
  BY <1>5, RevertedIs
<1> HIDE DEF f, u
<1>7. u \in Transactions /\ u.now = d
  BY <1>1, <1>2, <1>4, <1>6, RevertConversionIs
<1> QED
  BY <1>4, <1>5, <1>7

-----------------------------------------------------------------------------
(* The commands that are executed                                          *)

\* A command is executed that can be taken back.
Covered == \E c : Execute(c) /\ Undoes(doc, c)

LEMMA CoveredBy ==
    ASSUME NEW c, Execute(c), Undoes(doc, c)
    PROVE  Covered
BY DEF Covered

LEMMA ExistingIs ==
    ASSUME doc \in Docs
    PROVE  /\ Existing("nodes") = {n \in Nodes : doc.nodes[n] # None}
           /\ Existing("pins") = {p \in Pins : doc.pins[p] # None}
           /\ Existing("links") = {l \in Links : doc.links[l] # None}
           /\ Existing("groups") = {g \in Groups : doc.groups[g] # None}
           /\ Existing("node_states") = {n \in Nodes : doc.node_states[n] # None}
           /\ Existing("link_states") = {l \in Links : doc.link_states[l] # None}
<1>1. /\ DOMAIN doc.nodes = Nodes /\ DOMAIN doc.pins = Pins /\ DOMAIN doc.links = Links
      /\ DOMAIN doc.groups = Groups /\ DOMAIN doc.node_states = Nodes
      /\ DOMAIN doc.link_states = Links
  BY PartsAre
<1>2. Existing("nodes") = {n \in Nodes : doc.nodes[n] # None}
  BY <1>1 DEF Existing
<1>3. Existing("pins") = {p \in Pins : doc.pins[p] # None}
  BY <1>1 DEF Existing
<1>4. Existing("links") = {l \in Links : doc.links[l] # None}
  BY <1>1 DEF Existing
<1>5. Existing("groups") = {g \in Groups : doc.groups[g] # None}
  BY <1>1 DEF Existing
<1>6. Existing("node_states") = {n \in Nodes : doc.node_states[n] # None}
  BY <1>1 DEF Existing
<1>7. Existing("link_states") = {l \in Links : doc.link_states[l] # None}
  BY <1>1 DEF Existing
<1> QED
  BY <1>2, <1>3, <1>4, <1>5, <1>6, <1>7

\* An identifier that no document of the history uses.
LEMMA FreshIs ==
    ASSUME doc \in Docs, NEW i \in DOMAIN trail, trail[i] = doc
    PROVE  /\ Fresh("links") \subseteq {l \in Links : doc.links[l] = None}
           /\ NextOf("nodes") \subseteq Nodes /\ NextOf("links") \subseteq Links
           /\ NextOf("groups") \subseteq Groups
<1>1. /\ DOMAIN doc.nodes = Nodes /\ DOMAIN doc.links = Links /\ DOMAIN doc.groups = Groups
  BY PartsAre
<1>2. /\ Fresh("nodes") \subseteq Nodes /\ Fresh("groups") \subseteq Groups
      /\ Fresh("links") \subseteq {l \in Links : doc.links[l] = None}
  <2>1. Fresh("nodes") \subseteq DOMAIN doc.nodes
    BY DEF Fresh
  <2>2. Fresh("groups") \subseteq DOMAIN doc.groups
    BY DEF Fresh
  <2>3. \A l \in Fresh("links") : l \in DOMAIN doc.links /\ trail[i].links[l] = None
    BY DEF Fresh
  <2> QED
    BY <1>1, <2>1, <2>2, <2>3
<1>3. \A part : NextOf(part) \subseteq Fresh(part)
  BY DEF NextOf
<1> QED
  BY <1>2, <1>3

LEMMA NodeCommandsCovered ==
    ASSUME doc \in Docs, Good(doc), NEW i \in DOMAIN trail, trail[i] = doc, NodeCommands
    PROVE  Covered
<1>1. ASSUME NEW n \in NextOf("nodes"), NEW schema \in Schemas,
             Execute([kind |-> "add_node", node |-> n, schema |-> schema])
      PROVE  Covered
  <2>1. n \in Nodes
    BY FreshIs
  <2>2. schema \in SchemaNames
    BY GraphElementsAssumption DEF SchemaNames
  <2> QED
    BY <1>1, <2>1, <2>2, AddNodeUndoes, CoveredBy
<1>2. ASSUME NEW nodes \in SUBSET Existing("nodes"), NEW links \in SUBSET Existing("links"),
             Execute([kind |-> "delete", nodes |-> nodes, links |-> links])
      PROVE  Covered
  <2>1. /\ nodes \in SUBSET Nodes /\ \A m \in nodes : doc.nodes[m] # None
        /\ links \in SUBSET Links /\ \A l \in links : doc.links[l] # None
    BY ExistingIs
  <2> QED
    BY <1>2, <2>1, DeleteUndoes, CoveredBy
<1>3. ASSUME NEW n \in Existing("nodes"), NEW name \in Looks,
             Execute([kind |-> "rename", node |-> n, name |-> name])
      PROVE  Covered
  <2>1. n \in Nodes /\ doc.nodes[n] # None
    BY ExistingIs
  <2> QED
    BY <1>3, <2>1, RenameUndoes, CoveredBy
<1>4. ASSUME NEW n \in Existing("nodes"), NEW look \in Looks,
             Execute([kind |-> "show_node", node |-> n, state |-> ShownAs(n, look)])
      PROVE  Covered
  <2>1. n \in Nodes /\ doc.nodes[n] # None
    BY ExistingIs
  <2>2. ShownAs(n, look) \in NodeStates
    <3>1. doc.node_states[n] \in NodeStates \cup {None}
      BY <2>1, PartsAre
    <3>2. (doc.node_states[n] # None /\ doc.node_states[n].locked) \in BOOLEAN
      BY <3>1 DEF NodeStates
    <3> QED
      BY <3>2 DEF ShownAs, NodeStates
  <2> QED
    BY <1>4, <2>1, <2>2, ShowNodeUndoes, CoveredBy
<1>5. ASSUME NEW nodes \in SUBSET Existing("node_states"), NEW look \in Looks,
             Execute([kind |-> "looks", looks |-> [n \in nodes |-> look]])
      PROVE  Covered
  <2>1. nodes \in SUBSET Nodes /\ \A n \in nodes : doc.node_states[n] # None
    BY ExistingIs
  <2>2. [n \in nodes |-> look] \in [nodes -> Looks]
    OBVIOUS
  <2> QED
    BY <1>5, <2>1, <2>2, LooksUndoes, CoveredBy
<1> QED
  BY <1>1, <1>2, <1>3, <1>4, <1>5 DEF NodeCommands

LEMMA PinCommandsCovered ==
    ASSUME doc \in Docs, Good(doc), ~Behind, PinCommands
    PROVE  Covered
<1>0. \A pin \in DynamicPins : pin \in PinValues /\ pin.storage = "dynamic"
  BY DEF DynamicPins, PinValues, PinTypes
<1>1. ASSUME NEW n \in Existing("nodes"), NEW key \in DynamicKeys, NEW pin \in DynamicPins,
             NEW index \in 1..Len(doc.nodes[n].pins) + (IF Behind THEN 1 ELSE 0),
             Execute([kind |-> "add_pin", pin |-> <<n, key>>, instance |-> pin, index |-> index])
      PROVE  Covered
  <2>1. n \in Nodes /\ doc.nodes[n] # None
    BY ExistingIs
  <2>2. <<n, key>> \in Pins /\ <<n, key>>[1] = n /\ <<n, key>>[2] = key
    BY <2>1 DEF Pins, Keys
  <2>3. index \in 1..Len(doc.nodes[n].pins)
    <3>1. Len(doc.nodes[n].pins) \in Nat
      <4>1. doc.nodes[n] \in NodeValues
        BY <2>1, PartsAre
      <4> QED
        BY <4>1, LenProperties DEF NodeValues
    <3> QED
      BY <3>1
  <2> QED
    BY <1>0, <1>1, <2>1, <2>2, <2>3, AddPinUndoes, CoveredBy
<1>2. ASSUME NEW p \in Existing("pins"), Execute([kind |-> "remove_pin", pin |-> p])
      PROVE  Covered
  <2>1. p \in Pins /\ doc.pins[p] # None
    BY ExistingIs
  <2> QED
    BY <1>2, <2>1, RemovePinUndoes, CoveredBy
<1>3. ASSUME NEW p \in Existing("pins"), NEW pin \in DynamicPins,
             Execute([kind |-> "update_pin", pin |-> p,
                      instance |-> [pin EXCEPT !.read_only = doc.pins[p].read_only]])
      PROVE  Covered
  <2>1. p \in Pins /\ doc.pins[p] # None
    BY ExistingIs
  <2>2. [pin EXCEPT !.read_only = doc.pins[p].read_only] \in PinValues
    <3>1. doc.pins[p] \in PinValues
      BY <2>1, PartsAre
    <3> QED
      BY <1>0, <3>1 DEF PinValues
  <2> QED
    BY <1>3, <2>1, <2>2, UpdatePinUndoes, CoveredBy
<1>4. ASSUME NEW n \in Existing("nodes"), NEW order \in SetToSeqs(ToSet(doc.nodes[n].pins)),
             Execute([kind |-> "reorder", node |-> n, order |-> order])
      PROVE  Covered
  <2>1. n \in Nodes /\ doc.nodes[n] # None
    BY ExistingIs
  <2> QED
    BY <1>4, <2>1, ReorderUndoes, CoveredBy
<1>5. ASSUME NEW n \in Existing("nodes"), NEW schema \in Schemas, NEW reject \in BOOLEAN,
             Execute([kind |-> "property", node |-> n, schema |-> schema, reject |-> reject])
      PROVE  Covered
  <2>1. n \in Nodes /\ doc.nodes[n] # None
    BY ExistingIs
  <2>2. schema \in SchemaNames
    BY GraphElementsAssumption DEF SchemaNames
  <2> QED
    BY <1>5, <2>1, <2>2, PropertyUndoes, CoveredBy
<1> QED
  BY <1>1, <1>2, <1>3, <1>4, <1>5 DEF PinCommands

\* The links that a conversion is given.
LEMMA ConversionPlanned ==
    ASSUME doc \in Docs, NEW i \in DOMAIN trail, trail[i] = doc,
           NEW output, NEW replacing \in Existing("links") \cup {None},
           NEW pair \in ConversionLinks(output, replacing)
    PROVE  Planned(doc, replacing, pair[1], pair[2])
<1>1. Fresh("links") \subseteq {l \in Links : doc.links[l] = None}
  BY FreshIs
<1>2. replacing # None => replacing \in Links /\ doc.links[replacing] # None
  BY ExistingIs
<1>3. CASE replacing = None
  <2>1. pair \in Fresh("links") \X Fresh("links") /\ pair[1] # pair[2]
    BY <1>3 DEF ConversionLinks
  <2> QED
    BY <1>1, <1>3, <2>1 DEF Planned
<1>4. CASE replacing # None
  <2>1. \/ \E l \in Fresh("links") : pair = <<l, replacing>>
        \/ \E l \in Fresh("links") : pair = <<replacing, l>>
    BY <1>4 DEF ConversionLinks
  <2>2. PICK l \in Fresh("links") : pair = <<l, replacing>> \/ pair = <<replacing, l>>
    BY <2>1
  <2>3. l \in Links /\ doc.links[l] = None /\ l # replacing
    BY <1>1, <1>2, <1>4
  <2> QED
    BY <1>2, <1>4, <2>2, <2>3 DEF Planned
<1> QED
  BY <1>3, <1>4

LEMMA LinkCommandsCovered ==
    ASSUME doc \in Docs, Good(doc), NEW i \in DOMAIN trail, trail[i] = doc, LinkCommands
    PROVE  Covered
<1>0. /\ NextOf("links") \subseteq Links /\ NextOf("nodes") \subseteq Nodes
      /\ \A p \in Existing("pins") : p \in Pins
      /\ \A l \in Existing("links") : l \in Links /\ doc.links[l] # None
  BY FreshIs, ExistingIs
<1>1. ASSUME NEW l \in NextOf("links"), NEW output \in Existing("pins"), NEW input \in Existing("pins"),
             Execute([kind |-> "connect", link |-> l, output |-> output, input |-> input])
      PROVE  Covered
  <2>1. l \in Links /\ output \in Pins /\ input \in Pins
    BY <1>0
  <2> QED
    BY <1>1, <2>1, ConnectUndoes, CoveredBy
<1>2. ASSUME NEW l \in Existing("links"), NEW output \in Existing("pins"), NEW input \in Existing("pins"),
             NEW keep \in BOOLEAN,
             Execute([kind |-> "reconnect", link |-> l, output |-> output, input |-> input,
                      preserve_route |-> keep])
      PROVE  Covered
  <2>1. l \in Links /\ doc.links[l] # None /\ output \in Pins /\ input \in Pins
    BY <1>0
  <2> QED
    BY <1>2, <2>1, ReconnectUndoes, CoveredBy
<1>3. ASSUME NEW n \in NextOf("nodes"), NEW output \in Existing("pins"), NEW input \in Existing("pins"),
             NEW replacing \in Existing("links") \cup {None},
             NEW pair \in ConversionLinks(output, replacing),
             Execute([kind |-> "convert", node |-> n, output |-> output, input |-> input,
                      first |-> pair[1], second |-> pair[2], replacing |-> replacing])
      PROVE  Covered
  <2>1. n \in Nodes /\ output \in Pins /\ input \in Pins
    BY <1>0
  <2>2. Planned(doc, replacing, pair[1], pair[2])
    BY ConversionPlanned
  <2> QED
    BY <1>3, <2>1, <2>2, ConvertUndoes, CoveredBy
<1>4. ASSUME NEW n \in NextOf("nodes"), NEW output \in Existing("pins"), NEW input \in Existing("pins"),
             NEW replacing \in Existing("links") \cup {None},
             ConversionLinks(output, replacing) # {},
             LET pair == CHOOSE pair \in ConversionLinks(output, replacing) : TRUE IN
             Execute([kind |-> "convert", node |-> n, output |-> output, input |-> input,
                      first |-> pair[1], second |-> pair[2], replacing |-> replacing])
      PROVE  Covered
  <2> DEFINE pair == CHOOSE pair \in ConversionLinks(output, replacing) : TRUE
  <2>1. pair \in ConversionLinks(output, replacing)
    BY <1>4
  <2>2. Execute([kind |-> "convert", node |-> n, output |-> output, input |-> input,
                 first |-> pair[1], second |-> pair[2], replacing |-> replacing])
    BY <1>4
  <2> HIDE DEF pair
  <2> QED
    BY <1>3, <2>1, <2>2
<1> QED
  BY <1>1, <1>2, <1>4 DEF LinkCommands

LEMMA RouteCommandsCovered ==
    ASSUME doc \in Docs, Good(doc), RouteCommands
    PROVE  Covered
<1>0. \A l \in Existing("links") : l \in Links /\ doc.links[l] # None
  BY ExistingIs
<1>1. ASSUME NEW l \in Existing("links"), NEW style \in Looks,
             Execute([kind |-> "style", link |-> l, style |-> style])
      PROVE  Covered
  BY <1>0, <1>1, LinkStyleUndoes, CoveredBy
<1>2. ASSUME NEW l \in Existing("links"), NEW style \in Looks,
             Execute([kind |-> "link_state", link |-> l,
                      state |-> [LinkStateOr(doc, l) EXCEPT !.style = style]])
      PROVE  Covered
  <2>1. [LinkStateOr(doc, l) EXCEPT !.style = style] \in LinkStates
    BY <1>0, LinkStateOrIs
  <2> QED
    BY <1>0, <1>2, <2>1, LinkShownUndoes, CoveredBy
<1>3. ASSUME NEW l \in Existing("links"), NEW points \in SUBSET Points,
             Execute([kind |-> "route", link |-> l, route |-> [p \in points |-> 1]])
      PROVE  Covered
  <2>1. [p \in points |-> 1] \in Routes
    <3>1. [p \in points |-> 1] \in [points -> Looks]
      BY DEF Looks
    <3> QED
      BY <3>1 DEF Routes
  <2> QED
    BY <1>0, <1>3, <2>1, LinkRouteUndoes, CoveredBy
<1>4. ASSUME NEW l \in Existing("links"), NEW p \in Points,
             Execute([kind |-> "insert_point", link |-> l, point |-> p])
      PROVE  Covered
  BY <1>0, <1>4, InsertPointUndoes, CoveredBy
<1>5. ASSUME NEW l \in Existing("links"), NEW place \in Looks, NEW p \in OnLink(l, doc),
             Execute([kind |-> "move_point", link |-> l, point |-> p, place |-> place])
      PROVE  Covered
  <2>1. p \in DOMAIN LinkStateOr(doc, l).route
    BY DEF OnLink
  <2> QED
    BY <1>0, <1>5, <2>1, MovePointUndoes, CoveredBy
<1>6. ASSUME NEW points \in SUBSET {ref \in Links \X Points : ref[2] \in OnLink(ref[1], doc)},
             Execute([kind |-> "remove_points", points |-> points])
      PROVE  Covered
  <2>1. points \in SUBSET (Links \X Points)
    OBVIOUS
  <2> QED
    BY <1>6, <2>1, RemovePointsUndoes, CoveredBy
<1> QED
  BY <1>1, <1>2, <1>3, <1>4, <1>5, <1>6 DEF RouteCommands

LEMMA GroupCommandsCovered ==
    ASSUME doc \in Docs, Good(doc), NEW i \in DOMAIN trail, trail[i] = doc,
           GroupCommands \/ GroupLookCommands
    PROVE  Covered
<1>0. /\ \A g \in Existing("groups") : g \in Groups /\ doc.groups[g] # None
      /\ Existing("nodes") \subseteq Nodes /\ NextOf("groups") \subseteq Groups
  BY ExistingIs, FreshIs
<1>1. ASSUME NEW g \in NextOf("groups"), NEW members \in SUBSET Existing("nodes"),
             Execute([kind |-> "add_group", group |-> g,
                      instance |-> [members |-> members, look |-> 0, locked |-> FALSE]])
      PROVE  Covered
  <2>1. g \in Groups
    BY <1>0
  <2>2. [members |-> members, look |-> 0, locked |-> FALSE] \in GroupValues
    BY <1>0 DEF GroupValues, Looks
  <2> QED
    BY <1>1, <2>1, <2>2, AddGroupUndoes, CoveredBy
<1>2. ASSUME NEW g \in Existing("groups"), Execute([kind |-> "remove_group", group |-> g])
      PROVE  Covered
  BY <1>0, <1>2, RemoveGroupUndoes, CoveredBy
<1>3. ASSUME NEW g \in Existing("groups"), NEW members \in SUBSET Existing("nodes"),
             Execute([kind |-> "members", group |-> g, members |-> members])
      PROVE  Covered
  <2>1. members \in SUBSET Nodes
    BY <1>0
  <2> QED
    BY <1>0, <1>3, <2>1, MembersCommandUndoes, CoveredBy
<1>4. ASSUME NEW g \in Existing("groups"), NEW added \in SUBSET Existing("nodes"),
             NEW removed \in SUBSET Existing("nodes"),
             Execute([kind |-> "change_members", group |-> g, added |-> added,
                      removed |-> removed])
      PROVE  Covered
  <2>1. added \in SUBSET Nodes /\ removed \in SUBSET Nodes
    BY <1>0
  <2> QED
    BY <1>0, <1>4, <2>1, ChangeMembersUndoes, CoveredBy
<1>5. ASSUME NEW g \in Existing("groups"), NEW look \in Looks,
             Execute([kind |-> "group_look", group |-> g, look |-> look])
      PROVE  Covered
  BY <1>0, <1>5, GroupLookUndoes, CoveredBy
<1> QED
  BY <1>1, <1>2, <1>3, <1>4, <1>5 DEF GroupCommands, GroupLookCommands

LEMMA ProtectionCommandsCovered ==
    ASSUME doc \in Docs, Good(doc), ProtectionCommands
    PROVE  Covered
<1>1. ASSUME NEW flag \in BOOLEAN, Execute([kind |-> "graph", flag |-> flag])
      PROVE  Covered
  BY <1>1, GraphFlagUndoes, CoveredBy
<1>2. ASSUME NEW part \in {"nodes", "pins", "links"}, NEW flag \in BOOLEAN, NEW id \in Existing(part),
             Execute([kind |-> "read_only", part |-> part, id |-> id, flag |-> flag])
      PROVE  Covered
  <2>1. CASE part = "nodes"
    <3>1. id \in Nodes /\ doc.nodes[id] # None
      BY <2>1, ExistingIs
    <3> QED
      BY <1>2, <2>1, <3>1, SetNodeReadOnlyUndoes, CoveredBy
  <2>2. CASE part = "pins"
    <3>1. id \in Pins /\ doc.pins[id] # None
      BY <2>2, ExistingIs
    <3> QED
      BY <1>2, <2>2, <3>1, SetPinReadOnlyUndoes, CoveredBy
  <2>3. CASE part = "links"
    <3>1. id \in Links /\ doc.links[id] # None
      BY <2>3, ExistingIs
    <3> QED
      BY <1>2, <2>3, <3>1, SetLinkReadOnlyUndoes, CoveredBy
  <2> QED
    BY <2>1, <2>2, <2>3
<1>3. ASSUME NEW part \in {"node_states", "groups"}, NEW flag \in BOOLEAN, NEW id \in Existing(part),
             Execute([kind |-> "locked", part |-> part, id |-> id, flag |-> flag])
      PROVE  Covered
  <2>1. CASE part = "node_states"
    <3>1. id \in Nodes /\ doc.node_states[id] # None
      BY <2>1, ExistingIs
    <3> QED
      BY <1>3, <2>1, <3>1, NodeLockedUndoes, CoveredBy
  <2>2. CASE part = "groups"
    <3>1. id \in Groups /\ doc.groups[id] # None
      BY <2>2, ExistingIs
    <3> QED
      BY <1>3, <2>2, <3>1, GroupLockedCommandUndoes, CoveredBy
  <2> QED
    BY <2>1, <2>2
<1>4. ASSUME NEW l \in Existing("links"), NEW flag \in BOOLEAN,
             Execute([kind |-> "link_locked", link |-> l, flag |-> flag])
      PROVE  Covered
  <2>1. l \in Links /\ doc.links[l] # None
    BY ExistingIs
  <2> QED
    BY <1>4, <2>1, LinkLockedUndoes, CoveredBy
<1> QED
  BY <1>1, <1>2, <1>3, <1>4 DEF ProtectionCommands

-----------------------------------------------------------------------------
(* The history                                                             *)

Sequence(s) == \E S : s \in Seq(S)
\* An entry that leads from one document to the next one, sparing what is
\* protected, and back.
Leads(d, entry, e) ==
    /\ Applied(d, entry) = e /\ Reverted(e, entry) = d
    /\ entry.command.kind \notin Unguarded => Spared(d, e)

\* The documents of a history, every one valid, and what leads from each to
\* the next: the entries that were done, and then those that were undone.
Recorded(d, before, after, docs) ==
    /\ docs \in Seq(Docs) /\ Sequence(before) /\ Sequence(after)
    /\ Len(docs) = Len(before) + Len(after) + 1
    /\ d = docs[Len(before) + 1]
    /\ \A i \in 1..Len(docs) : Good(docs[i])
    /\ \A i \in 1..Len(before) : Leads(docs[i], before[i], docs[i + 1])
    /\ \A i \in 1..Len(after) :
          Leads(docs[Len(before) + i], after[i], docs[Len(before) + i + 1])

LEMMA SequenceIs ==
    ASSUME NEW s, Sequence(s)
    PROVE  Len(s) \in Nat /\ (s # <<>> => Len(s) >= 1) /\ Len(<<>>) = 0 /\ Sequence(<<>>)
<1>1. PICK S : s \in Seq(S)
  BY DEF Sequence
<1>2. Len(s) \in Nat /\ (s # <<>> => Len(s) >= 1)
  BY <1>1, LenProperties, EmptySeq
<1>3. Len(<<>>) = 0 /\ <<>> \in Seq(S)
  BY EmptySeq
<1> QED
  BY <1>2, <1>3 DEF Sequence

LEMMA AppendedIs ==
    ASSUME NEW s, Sequence(s), NEW x
    PROVE  /\ Sequence(Append(s, x)) /\ Len(Append(s, x)) = Len(s) + 1
           /\ \A i \in 1..Len(s) : Append(s, x)[i] = s[i]
           /\ Append(s, x)[Len(s) + 1] = x
           /\ Last(Append(s, x)) = x
<1>1. PICK S : s \in Seq(S)
  BY DEF Sequence
<1>2. s \in Seq(S \cup {x}) /\ x \in S \cup {x}
  <2>1. \A i \in 1..Len(s) : s[i] \in S \cup {x}
    BY <1>1, ElementOfSeq
  <2> QED
    BY <1>1, <2>1, SeqMonotonic
<1> DEFINE T == S \cup {x}
<1> HIDE DEF T
<1>3. s \in Seq(T) /\ x \in T
  BY <1>2 DEF T
<1>4. /\ Append(s, x) \in Seq(T) /\ Len(Append(s, x)) = Len(s) + 1
      /\ \A i \in 1..Len(s) : Append(s, x)[i] = s[i]
      /\ Append(s, x)[Len(s) + 1] = x
  BY <1>3, AppendProperties
<1> QED
  BY <1>4 DEF Sequence, Last

LEMMA FrontIs ==
    ASSUME NEW s, Sequence(s), s # <<>>
    PROVE  /\ Sequence(Front(s)) /\ Len(Front(s)) = Len(s) - 1
           /\ \A i \in 1..(Len(s) - 1) : Front(s)[i] = s[i]
           /\ Last(s) = s[Len(s)]
<1>1. PICK S : s \in Seq(S)
  BY DEF Sequence
<1>2. Len(s) \in Nat /\ Len(s) >= 1
  BY SequenceIs
<1>3. Front(s) \in Seq(S) /\ Len(Front(s)) = Len(s) - 1
      /\ \A i \in 1..(Len(s) - 1) : Front(s)[i] = s[i]
  <2>1. PICK n \in Nat : n = Len(s) - 1
    BY <1>2
  <2>2. Front(s) = SubSeq(s, 1, n)
    BY <2>1 DEF Front
  <2>3. \A i \in 1..n : s[i] \in S
    BY <1>1, <1>2, <2>1, ElementOfSeq
  <2>4. /\ SubSeq(s, 1, n) \in Seq(S)
        /\ Len(SubSeq(s, 1, n)) = IF 1 <= n THEN n - 1 + 1 ELSE 0
        /\ \A i \in 1..(n - 1 + 1) : SubSeq(s, 1, n)[i] = s[1 + i - 1]
    BY <2>3, SubSeqProperties
  <2>5. Len(SubSeq(s, 1, n)) = n
    BY <2>4
  <2>6. \A i \in 1..n : SubSeq(s, 1, n)[i] = s[i]
    BY <2>4
  <2> QED
    BY <2>1, <2>2, <2>4, <2>5, <2>6
<1> QED
  BY <1>3 DEF Last, Sequence

LEMMA PrependedIs ==
    ASSUME NEW s, Sequence(s), NEW x
    PROVE  /\ Sequence(<<x>> \o s) /\ Len(<<x>> \o s) = Len(s) + 1
           /\ (<<x>> \o s)[1] = x
           /\ \A i \in 1..Len(s) : (<<x>> \o s)[i + 1] = s[i]
<1>1. PICK S : s \in Seq(S)
  BY DEF Sequence
<1> DEFINE T == S \cup {x}
<1>2. s \in Seq(T) /\ <<x>> \in Seq(T) /\ Len(<<x>>) = 1 /\ <<x>>[1] = x
  <2>1. \A i \in 1..Len(s) : s[i] \in T
    BY <1>1, ElementOfSeq
  <2>2. s \in Seq(T)
    BY <1>1, <2>1, SeqMonotonic
  <2> QED
    BY <2>2
<1> HIDE DEF T
<1>3. Len(s) \in Nat
  BY SequenceIs
<1>4. /\ <<x>> \o s \in Seq(T) /\ Len(<<x>> \o s) = 1 + Len(s)
      /\ \A i \in 1..(1 + Len(s)) : (<<x>> \o s)[i] = IF i <= 1 THEN <<x>>[i] ELSE s[i - 1]
  BY <1>2, <1>3, ConcatProperties
<1>5. \A i \in 1..Len(s) : i + 1 \in 1..(1 + Len(s)) /\ ~(i + 1 <= 1) /\ i + 1 - 1 = i
  BY <1>3
<1> QED
  BY <1>2, <1>3, <1>4, <1>5 DEF Sequence

LEMMA TailIs ==
    ASSUME NEW s, Sequence(s), s # <<>>
    PROVE  /\ Sequence(Tail(s)) /\ Len(Tail(s)) = Len(s) - 1
           /\ Head(s) = s[1]
           /\ \A i \in 1..(Len(s) - 1) : Tail(s)[i] = s[i + 1]
<1>1. PICK S : s \in Seq(S)
  BY DEF Sequence
<1> QED
  BY <1>1, HeadTailProperties DEF Sequence

\* A session starts with a history of one document.
LEMMA InitRecorded ==
    ASSUME NEW d \in Docs, Good(d)
    PROVE  Recorded(d, <<>>, <<>>, <<d>>)
<1>1. <<d>> \in Seq(Docs) /\ Len(<<d>>) = 1 /\ <<d>>[1] = d
  OBVIOUS
<1>2. Len(<<>>) = 0
  BY EmptySeq
<1>3. Sequence(<<>>)
  BY EmptySeq DEF Sequence
<1>4. 1..0 = {} /\ 1..1 = {1}
  OBVIOUS
<1> QED
  BY <1>1, <1>2, <1>3, <1>4 DEF Recorded

\* The lengths of a history.
LEMMA RecordedIs ==
    ASSUME NEW d, NEW a, NEW u, NEW tr, Recorded(d, a, u, tr)
    PROVE  /\ Len(a) \in Nat /\ Len(u) \in Nat /\ Len(tr) = Len(a) + Len(u) + 1
           /\ d \in Docs /\ Good(d) /\ d = tr[Len(a) + 1]
           /\ Len(a) + 1 \in DOMAIN tr
<1>1. Len(a) \in Nat /\ Len(u) \in Nat
  BY SequenceIs DEF Recorded
<1>2. tr \in Seq(Docs) /\ Len(tr) = Len(a) + Len(u) + 1 /\ d = tr[Len(a) + 1]
  BY DEF Recorded
<1>3. Len(a) + 1 \in 1..Len(tr)
  BY <1>1, <1>2
<1>4. d \in Docs /\ Len(a) + 1 \in DOMAIN tr
  BY <1>2, <1>3, ElementOfSeq, LenProperties
<1>5. Good(d)
  BY <1>2, <1>3 DEF Recorded
<1> QED
  BY <1>1, <1>2, <1>4, <1>5

\* What is executed drops what was undone and comes last.
LEMMA ExecuteRecords ==
    ASSUME NEW d, NEW a, NEW u, NEW tr, Recorded(d, a, u, tr),
           NEW e \in Docs, Good(e), NEW x, Leads(d, x, e)
    PROVE  Recorded(e, Append(a, x), <<>>, Append(SubSeq(tr, 1, Len(a) + 1), e))
<1> DEFINE b == Append(a, x)
           kept == SubSeq(tr, 1, Len(a) + 1)
           docs == Append(kept, e)
<1>1. PICK n \in Nat : n = Len(a)
  BY RecordedIs
<1>2. /\ tr \in Seq(Docs) /\ Len(tr) \in Nat /\ n + 1 <= Len(tr) /\ tr[n + 1] = d
      /\ Sequence(a)
      /\ \A i \in 1..Len(tr) : Good(tr[i])
      /\ \A i \in 1..n : Leads(tr[i], a[i], tr[i + 1])
  BY <1>1, RecordedIs DEF Recorded
<1>3. /\ Sequence(b) /\ Len(b) = n + 1 /\ b[n + 1] = x
      /\ \A i \in 1..n : b[i] = a[i]
  BY <1>1, <1>2, AppendedIs
<1>4. /\ kept \in Seq(Docs) /\ Len(kept) = n + 1
      /\ \A i \in 1..(n + 1) : kept[i] = tr[i]
  <2>1. \A i \in 1..(n + 1) : tr[i] \in Docs
    BY <1>2, ElementOfSeq
  <2>2. /\ SubSeq(tr, 1, n + 1) \in Seq(Docs)
        /\ Len(SubSeq(tr, 1, n + 1)) = IF 1 <= n + 1 THEN n + 1 - 1 + 1 ELSE 0
        /\ \A i \in 1..(n + 1 - 1 + 1) : SubSeq(tr, 1, n + 1)[i] = tr[1 + i - 1]
    BY <2>1, SubSeqProperties
  <2>3. Len(SubSeq(tr, 1, n + 1)) = n + 1
    BY <2>2
  <2>4. \A i \in 1..(n + 1) : SubSeq(tr, 1, n + 1)[i] = tr[i]
    BY <2>2
  <2> QED
    BY <1>1, <2>2, <2>3, <2>4
<1> HIDE DEF b, kept
<1>5. /\ docs \in Seq(Docs) /\ Len(docs) = n + 2 /\ docs[n + 2] = e
      /\ \A i \in 1..(n + 1) : docs[i] = tr[i]
  <2>1. /\ Append(kept, e) \in Seq(Docs) /\ Len(Append(kept, e)) = Len(kept) + 1
        /\ \A i \in 1..Len(kept) : Append(kept, e)[i] = kept[i]
        /\ Append(kept, e)[Len(kept) + 1] = e
    BY <1>4, AppendProperties
  <2>2. Len(kept) + 1 = n + 2 /\ 1..Len(kept) = 1..(n + 1)
    BY <1>4
  <2> QED
    BY <1>4, <2>1, <2>2
<1> HIDE DEF docs
<1>6. \A i \in 1..Len(docs) : Good(docs[i])
  <2> TAKE i \in 1..Len(docs)
  <2>1. CASE i = n + 2
    BY <1>5, <2>1
  <2>2. CASE i \in 1..(n + 1)
    <3>1. i \in 1..Len(tr)
      BY <1>2, <2>2
    <3> QED
      BY <1>2, <1>5, <2>2, <3>1
  <2> QED
    BY <1>5, <2>1, <2>2
<1>7. \A i \in 1..Len(b) : Leads(docs[i], b[i], docs[i + 1])
  <2> TAKE i \in 1..Len(b)
  <2>1. CASE i = n + 1
    <3>1. docs[i] = d /\ b[i] = x /\ docs[i + 1] = e
      <4>1. n + 1 \in 1..(n + 1) /\ n + 1 + 1 = n + 2
        OBVIOUS
      <4> QED
        BY <1>2, <1>3, <1>5, <2>1, <4>1
    <3> QED
      BY <3>1
  <2>2. CASE i \in 1..n
    <3>1. i \in 1..(n + 1) /\ i + 1 \in 1..(n + 1)
      BY <2>2
    <3>2. docs[i] = tr[i] /\ b[i] = a[i] /\ docs[i + 1] = tr[i + 1]
      BY <1>3, <1>5, <2>2, <3>1
    <3> QED
      BY <1>2, <2>2, <3>2
  <2> QED
    BY <1>3, <2>1, <2>2
<1>8. Sequence(<<>>) /\ Len(<<>>) = 0
  BY <1>2, SequenceIs
<1>9. Recorded(e, b, <<>>, docs)
  <2>1. Len(docs) = Len(b) + Len(<<>>) + 1 /\ e = docs[Len(b) + 1] /\ 1..Len(<<>>) = {}
    <3>1. n + 2 = n + 1 + 0 + 1 /\ n + 1 + 1 = n + 2 /\ 1..0 = {}
      OBVIOUS
    <3> QED
      BY <1>3, <1>5, <1>8, <3>1
  <2> QED
    BY <1>3, <1>5, <1>6, <1>7, <1>8, <2>1 DEF Recorded
<1> QED
  BY <1>9 DEF b, kept, docs

\* The undone entry is the one that comes first of those to redo.
LEMMA UndoRecords ==
    ASSUME NEW d, NEW a, NEW u, NEW tr, Recorded(d, a, u, tr), a # <<>>
    PROVE  /\ Reverted(d, Last(a)) = tr[Len(a)]
           /\ Recorded(tr[Len(a)], Front(a), <<Last(a)>> \o u, tr)
<1> DEFINE b == Front(a)
           v == <<Last(a)>> \o u
<1>0. Sequence(a) /\ Sequence(u)
  BY DEF Recorded
<1>1. PICK n \in Nat, m \in Nat : n + 1 = Len(a) /\ m = Len(u)
  <2>1. Len(a) \in Nat /\ Len(a) >= 1 /\ Len(u) \in Nat
    BY <1>0, SequenceIs
  <2>2. Len(a) - 1 \in Nat /\ Len(a) - 1 + 1 = Len(a)
    BY <2>1
  <2> QED
    BY <2>1, <2>2
<1>2. /\ tr \in Seq(Docs) /\ Len(tr) = n + 1 + m + 1 /\ tr[n + 1 + 1] = d
      /\ \A i \in 1..Len(tr) : Good(tr[i])
      /\ \A i \in 1..(n + 1) : Leads(tr[i], a[i], tr[i + 1])
      /\ \A i \in 1..m : Leads(tr[n + 1 + i], u[i], tr[n + 1 + i + 1])
  BY <1>1 DEF Recorded
<1>3. /\ Sequence(b) /\ Len(b) = n /\ a[n + 1] = Last(a)
      /\ \A i \in 1..n : b[i] = a[i]
  <2>1. n + 1 - 1 = n
    OBVIOUS
  <2>2. Len(a) - 1 = n /\ a # <<>>
    BY <1>1, <2>1
  <2>3. /\ Sequence(b) /\ Len(b) = Len(a) - 1 /\ Last(a) = a[Len(a)]
        /\ \A i \in 1..(Len(a) - 1) : b[i] = a[i]
    BY <1>0, FrontIs
  <2> QED
    BY <1>1, <2>2, <2>3
<1>4. /\ Sequence(v) /\ Len(v) = m + 1 /\ v[1] = Last(a)
      /\ \A i \in 1..m : v[i + 1] = u[i]
  BY <1>0, <1>1, PrependedIs
<1> HIDE DEF b, v
<1>5. Leads(tr[n + 1], Last(a), d)
  <2>1. n + 1 \in 1..(n + 1)
    OBVIOUS
  <2> QED
    BY <1>2, <1>3, <2>1
<1>6. \A i \in 1..Len(b) : Leads(tr[i], b[i], tr[i + 1])
  <2> TAKE i \in 1..Len(b)
  <2>1. i \in 1..n /\ i \in 1..(n + 1)
    BY <1>3
  <2> QED
    BY <1>2, <1>3, <2>1
<1>7. \A i \in 1..Len(v) : Leads(tr[Len(b) + i], v[i], tr[Len(b) + i + 1])
  <2> TAKE i \in 1..Len(v)
  <2>1. CASE i = 1
    BY <1>2, <1>3, <1>4, <1>5, <2>1
  <2>2. CASE i # 1
    <3>1. PICK j \in 1..m : i = j + 1
      <4>1. i - 1 \in 1..m /\ i = i - 1 + 1
        BY <1>4, <2>2
      <4> QED
        BY <4>1
    <3>2. Len(b) + i = n + 1 + j /\ Len(b) + i + 1 = n + 1 + j + 1
      BY <1>3, <3>1
    <3> QED
      BY <1>2, <1>4, <3>1, <3>2
  <2> QED
    BY <2>1, <2>2
<1>8. Recorded(tr[n + 1], b, v, tr)
  <2>1. Len(tr) = Len(b) + Len(v) + 1
    BY <1>2, <1>3, <1>4
  <2> QED
    BY <1>2, <1>3, <1>4, <1>6, <1>7, <2>1 DEF Recorded
<1> QED
  BY <1>1, <1>5, <1>8 DEF b, v, Leads

\* The redone entry is the one that comes last of those to undo.
LEMMA RedoRecords ==
    ASSUME NEW d, NEW a, NEW u, NEW tr, Recorded(d, a, u, tr), u # <<>>
    PROVE  /\ Applied(d, Head(u)) = tr[Len(a) + 2]
           /\ Head(u).command.kind \notin Unguarded => Spared(d, tr[Len(a) + 2])
           /\ Recorded(tr[Len(a) + 2], Append(a, Head(u)), Tail(u), tr)
<1> DEFINE b == Append(a, Head(u))
           v == Tail(u)
<1>0. Sequence(a) /\ Sequence(u)
  BY DEF Recorded
<1>1. PICK n \in Nat, m \in Nat : n = Len(a) /\ m + 1 = Len(u)
  <2>1. Len(u) \in Nat /\ Len(u) >= 1 /\ Len(a) \in Nat
    BY <1>0, SequenceIs
  <2>2. Len(u) - 1 \in Nat /\ Len(u) - 1 + 1 = Len(u)
    BY <2>1
  <2> QED
    BY <2>1, <2>2
<1>2. /\ tr \in Seq(Docs) /\ Len(tr) = n + (m + 1) + 1 /\ tr[n + 1] = d
      /\ \A i \in 1..Len(tr) : Good(tr[i])
      /\ \A i \in 1..n : Leads(tr[i], a[i], tr[i + 1])
      /\ \A i \in 1..(m + 1) : Leads(tr[n + i], u[i], tr[n + i + 1])
  BY <1>1 DEF Recorded
<1>3. /\ Sequence(b) /\ Len(b) = n + 1 /\ b[n + 1] = Head(u)
      /\ \A i \in 1..n : b[i] = a[i]
  BY <1>0, <1>1, AppendedIs
<1>4. /\ Sequence(v) /\ Len(v) = m /\ Head(u) = u[1]
      /\ \A i \in 1..m : v[i] = u[i + 1]
  <2>1. m + 1 - 1 = m
    OBVIOUS
  <2> QED
    BY <1>0, <1>1, <2>1, TailIs
<1> HIDE DEF b, v
<1>5. Leads(d, Head(u), tr[n + 2])
  <2>1. 1 \in 1..(m + 1) /\ n + 1 + 1 = n + 2
    OBVIOUS
  <2> QED
    BY <1>2, <1>4, <2>1
<1>6. \A i \in 1..Len(b) : Leads(tr[i], b[i], tr[i + 1])
  <2> TAKE i \in 1..Len(b)
  <2>1. CASE i = n + 1
    BY <1>2, <1>3, <1>5, <2>1
  <2>2. CASE i \in 1..n
    BY <1>2, <1>3, <2>2
  <2> QED
    BY <1>3, <2>1, <2>2
<1>7. \A i \in 1..Len(v) : Leads(tr[Len(b) + i], v[i], tr[Len(b) + i + 1])
  <2> TAKE i \in 1..Len(v)
  <2>1. i \in 1..m /\ i + 1 \in 1..(m + 1)
    BY <1>4
  <2>2. Len(b) + i = n + (i + 1) /\ Len(b) + i + 1 = n + (i + 1) + 1
    BY <1>3, <2>1
  <2> QED
    BY <1>2, <1>4, <2>1, <2>2
<1>8. Recorded(tr[n + 2], b, v, tr)
  <2>1. Len(tr) = Len(b) + Len(v) + 1 /\ Len(b) + 1 = n + 2
    <3>1. n + (m + 1) + 1 = (n + 1) + m + 1 /\ n + 1 + 1 = n + 2
      OBVIOUS
    <3> QED
      BY <1>2, <1>3, <1>4, <3>1
  <2> QED
    BY <1>2, <1>3, <1>4, <1>6, <1>7, <2>1 DEF Recorded
<1> QED
  BY <1>1, <1>5, <1>8 DEF b, v, Leads

-----------------------------------------------------------------------------
(* Theorems                                                                *)

\* The inductive invariant: every document of the history is valid and ends
\* each node with a static pin, and every entry leads from its document to the
\* next one, sparing what is protected, and back.
Replayable == Recorded(doc, done, undone, trail)

LEMMA InitKept ==
    ASSUME ~Behind, Init
    PROVE  Replayable
<1>1. doc \in Imported /\ done = <<>> /\ undone = <<>> /\ trail = <<doc>>
  BY DEF Init
<1>2. Openable(doc) /\ StaticLast(doc)
  BY <1>1, ImportedAssumption
<1>3. doc \in Docs /\ Good(doc)
  BY <1>2 DEF Openable, Good
<1> QED
  BY <1>1, <1>3, InitRecorded DEF Replayable

\* What was executed is the last entry, and the document is what it gives.
LEMMA ExecuteIs ==
    ASSUME NEW c, Execute(c), Sequence(done)
    PROVE  /\ doc' = Applied(doc, Entry(doc, c)) /\ doc' \notin {None, doc}
           /\ done' = Append(done, Entry(doc, c)) /\ undone' = <<>>
           /\ trail' = Append(SubSeq(trail, 1, Len(done) + 1), doc')
           /\ Last(done').command = c
<1>1. /\ doc' = Applied(doc, Entry(doc, c)) /\ doc' \notin {None, doc}
      /\ done' = Append(done, Entry(doc, c)) /\ undone' = <<>>
      /\ trail' = Append(SubSeq(trail, 1, Len(done) + 1), doc')
  BY DEF Execute, Entry
<1>2. Last(done') = Entry(doc, c)
  BY <1>1, AppendedIs
<1> QED
  BY <1>1, <1>2, EntryIs

\* A step that executes a command.
Executes ==
    /\ Replayable'
    /\ Last(done').command.kind \notin Unguarded => Spared(doc, doc')

LEMMA CoveredExecutes ==
    ASSUME Replayable, Covered
    PROVE  Executes
<1>1. PICK c : Execute(c) /\ Undoes(doc, c)
  BY DEF Covered
<1>2. Sequence(done)
  BY DEF Replayable, Recorded
<1>3. /\ doc' = Applied(doc, Entry(doc, c)) /\ doc' \notin {None, doc}
      /\ done' = Append(done, Entry(doc, c)) /\ undone' = <<>>
      /\ trail' = Append(SubSeq(trail, 1, Len(done) + 1), doc')
      /\ Last(done').command = c
  BY <1>1, <1>2, ExecuteIs
<1> DEFINE e == Applied(doc, Entry(doc, c))
<1>4. /\ e \in Docs /\ Good(e) /\ Reverted(e, Entry(doc, c)) = doc
      /\ c.kind \notin Unguarded => Spared(doc, e)
  BY <1>1, <1>3 DEF Undoes
<1>5. Leads(doc, Entry(doc, c), e)
  <2>1. Entry(doc, c).command = c
    BY EntryIs
  <2> HIDE DEF e
  <2> QED
    BY <1>4, <2>1 DEF Leads, e
<1> HIDE DEF e
<1>6. Recorded(e, Append(done, Entry(doc, c)), <<>>, Append(SubSeq(trail, 1, Len(done) + 1), e))
  BY <1>4, <1>5, ExecuteRecords DEF Replayable
<1>7. doc' = e
  BY <1>3 DEF e
<1>8. Replayable'
  BY <1>3, <1>6, <1>7 DEF Replayable
<1>9. c.kind \notin Unguarded => Spared(doc, doc')
  BY <1>4, <1>7
<1> QED
  BY <1>3, <1>8, <1>9 DEF Executes

\* The commands of every feature.
LEMMA CommandsExecute ==
    ASSUME ~Behind, Replayable,
           \/ NodeCommands \/ PinCommands \/ LinkCommands
           \/ RouteCommands \/ GroupCommands \/ GroupLookCommands \/ ProtectionCommands
    PROVE  Executes
<1>1. doc \in Docs /\ Good(doc) /\ Len(done) + 1 \in DOMAIN trail /\ trail[Len(done) + 1] = doc
  BY RecordedIs DEF Replayable
<1>2. CASE NodeCommands
  BY <1>1, <1>2, NodeCommandsCovered, CoveredExecutes
<1>3. CASE PinCommands
  BY <1>1, <1>3, PinCommandsCovered, CoveredExecutes
<1>4. CASE LinkCommands
  BY <1>1, <1>4, LinkCommandsCovered, CoveredExecutes
<1>5. CASE RouteCommands
  BY <1>1, <1>5, RouteCommandsCovered, CoveredExecutes
<1>6. CASE GroupCommands \/ GroupLookCommands
  BY <1>1, <1>6, GroupCommandsCovered, CoveredExecutes
<1>7. CASE ProtectionCommands
  BY <1>1, <1>7, ProtectionCommandsCovered, CoveredExecutes
<1> QED
  BY <1>2, <1>3, <1>4, <1>5, <1>6, <1>7

LEMMA UndoKeeps ==
    ASSUME Replayable, Undo
    PROVE  Replayable' /\ Len(done') # Len(done) + 1
<1>1. done # <<>> /\ doc' = Reverted(doc, Last(done)) /\ done' = Front(done)
      /\ undone' = <<Last(done)>> \o undone /\ trail' = trail
  BY DEF Undo
<1>2. doc' = trail[Len(done)] /\ Recorded(trail[Len(done)], Front(done), <<Last(done)>> \o undone, trail)
  BY <1>1, UndoRecords DEF Replayable
<1>3. Len(done) \in Nat /\ Len(Front(done)) = Len(done) - 1
  BY <1>1, SequenceIs, FrontIs DEF Replayable, Recorded
<1>4. Replayable'
  BY <1>1, <1>2 DEF Replayable
<1> QED
  BY <1>1, <1>3, <1>4

LEMMA RedoKeeps ==
    ASSUME Replayable, Redo
    PROVE  /\ Replayable'
           /\ Last(done').command.kind \notin Unguarded => Spared(doc, doc')
<1>1. undone # <<>> /\ doc' = Applied(doc, Head(undone)) /\ done' = Append(done, Head(undone))
      /\ undone' = Tail(undone) /\ trail' = trail
  BY DEF Redo
<1>2. /\ doc' = trail[Len(done) + 2]
      /\ Head(undone).command.kind \notin Unguarded => Spared(doc, trail[Len(done) + 2])
      /\ Recorded(trail[Len(done) + 2], Append(done, Head(undone)), Tail(undone), trail)
  BY <1>1, RedoRecords DEF Replayable
<1>3. Last(done') = Head(undone)
  <2>1. Sequence(done)
    BY DEF Replayable, Recorded
  <2> QED
    BY <1>1, <2>1, AppendedIs
<1> QED
  BY <1>1, <1>2, <1>3 DEF Replayable

LEMMA NextKeeps ==
    ASSUME ~Behind, Replayable, [Next]_elementVars
    PROVE  Replayable'
<1>1. CASE Undo
  BY <1>1, UndoKeeps
<1>2. CASE Redo
  BY <1>2, RedoKeeps
<1>3. CASE UNCHANGED elementVars
  BY <1>3 DEF Replayable, elementVars
<1>4. CASE \/ NodeCommands \/ PinCommands \/ LinkCommands
           \/ RouteCommands \/ GroupCommands \/ GroupLookCommands \/ ProtectionCommands
  BY <1>4, CommandsExecute DEF Executes
<1> QED
  BY <1>1, <1>2, <1>3, <1>4 DEF Next

\* Where no dynamic pin comes after the static ones: the history is recorded
\* in every reachable state.
THEOREM HistoryKept == ~Behind => (Spec => []Replayable)
<1> SUFFICES ASSUME ~Behind PROVE Spec => []Replayable
  OBVIOUS
<1>1. Init => Replayable
  BY InitKept
<1>2. Replayable /\ [Next]_elementVars => Replayable'
  BY NextKeeps
<1> QED
  BY <1>1, <1>2, PTL DEF Spec

LEMMA KeptSound ==
    ASSUME Replayable
    PROVE  DocumentSound
<1>1. doc \in Docs /\ Good(doc) /\ Len(trail) = Len(done) + Len(undone) + 1
  BY RecordedIs DEF Replayable
<1>2. ValidGraph(doc) /\ ValidPresentation(doc)
  BY <1>1 DEF Good, Openable
<1> QED
  BY <1>1, <1>2 DEF DocumentSound, TypeOK

LEMMA KeptReplays ==
    ASSUME Replayable
    PROVE  HistoryReplays
<1>1. doc = trail[Len(done) + 1]
  BY RecordedIs DEF Replayable
<1>2. done # <<>> => Reverted(doc, Last(done)) = trail[Len(done)]
  BY UndoRecords DEF Replayable
<1>3. undone # <<>> => Applied(doc, Head(undone)) = trail[Len(done) + 2]
  BY RedoRecords DEF Replayable
<1> QED
  BY <1>1, <1>2, <1>3 DEF HistoryReplays

\* Where no dynamic pin comes after the static ones, whatever the commands
\* have done to the document, it is valid (Validate of graph.h and the
\* presentation checks of presentation.h).
THEOREM DocumentStaysSound == ~Behind => (Spec => []DocumentSound)
<1>1. Replayable => DocumentSound
  BY KeptSound
<1> QED
  BY <1>1, HistoryKept, PTL

\* There too, undo gives back the document before the command and redo the
\* one after it, although a command only keeps parts of the first.
THEOREM HistoryAlwaysReplays == ~Behind => (Spec => []HistoryReplays)
<1>1. Replayable => HistoryReplays
  BY KeptReplays
<1> QED
  BY <1>1, HistoryKept, PTL

\* What ProtectedStay says of a step.
LEMMA SparedStays ==
    ASSUME doc \in Docs, Spared(doc, doc')
    PROVE  /\ ~doc.read_only
           /\ \A n \in Existing("nodes") : doc.nodes[n].read_only =>
                 /\ doc'.nodes[n] = doc.nodes[n]
                 /\ \A p \in ToSet(doc.nodes[n].pins) : doc'.pins[p] = doc.pins[p]
           /\ \A p \in Existing("pins") :
                 /\ doc.pins[p].read_only => doc'.pins[p] = doc.pins[p]
                 /\ doc.pins[p].read_only \/ doc.nodes[p[1]].read_only =>
                       /\ IncidentLinks(doc', p) = IncidentLinks(doc, p)
                       /\ \A l \in IncidentLinks(doc, p) : doc'.links[l] = doc.links[l]
           /\ \A l \in Existing("links") :
                 doc.links[l].read_only => doc'.links[l] = doc.links[l]
           /\ \A n \in Existing("node_states") :
                 doc.node_states[n].locked => doc'.node_states[n] = doc.node_states[n]
           /\ \A l \in Existing("link_states") :
                 doc.link_states[l].locked => doc'.link_states[l] = doc.link_states[l]
           /\ \A g \in Existing("groups") :
                 doc.groups[g].locked => doc'.groups[g] = doc.groups[g]
<1>1. /\ \A n \in Existing("nodes") : n \in Nodes /\ doc.nodes[n] # None
      /\ \A p \in Existing("pins") : p \in Pins /\ doc.pins[p] # None
      /\ \A l \in Existing("links") : l \in Links /\ doc.links[l] # None
      /\ \A g \in Existing("groups") : g \in Groups /\ doc.groups[g] # None
      /\ \A n \in Existing("node_states") : n \in Nodes /\ doc.node_states[n] # None
      /\ \A l \in Existing("link_states") : l \in Links /\ doc.link_states[l] # None
  BY ExistingIs
<1> QED
  BY <1>1 DEF Spared

LEMMA NextSpares ==
    ASSUME ~Behind, Replayable, [Next]_elementVars, Len(done') = Len(done) + 1,
           Last(done').command.kind \notin Unguarded
    PROVE  Spared(doc, doc')
<1>1. Len(done) \in Nat
  BY RecordedIs DEF Replayable
<1>2. ~Undo
  BY UndoKeeps
<1>3. CASE Redo
  BY <1>3, RedoKeeps
<1>4. ~UNCHANGED elementVars
  BY <1>1 DEF elementVars
<1>5. CASE \/ NodeCommands \/ PinCommands \/ LinkCommands
           \/ RouteCommands \/ GroupCommands \/ GroupLookCommands \/ ProtectionCommands
  BY <1>5, CommandsExecute DEF Executes
<1> QED
  BY <1>2, <1>3, <1>4, <1>5 DEF Next

\* There too, no command that is executed or done again changes what is
\* protected.
THEOREM ProtectionStays == ~Behind => (Spec => ProtectedStay)
<1> SUFFICES ASSUME ~Behind PROVE Spec => ProtectedStay
  OBVIOUS
<1>1. ASSUME Replayable, [Next]_elementVars
      PROVE  [SparedByStep]_elementVars
  <2>1. CASE UNCHANGED elementVars
    BY <2>1
  <2>2. CASE ~(/\ Len(done') = Len(done) + 1
               /\ Last(done').command.kind \notin Unguarded)
    BY <2>2 DEF SparedByStep, Unguarded
  <2>3. CASE /\ Len(done') = Len(done) + 1
             /\ Last(done').command.kind \notin Unguarded
    <3>1. doc \in Docs
      BY <1>1, RecordedIs DEF Replayable
    <3>2. Spared(doc, doc')
      BY <1>1, <2>3, NextSpares
    <3> QED
      BY <3>1, <3>2, SparedStays DEF SparedByStep
  <2> QED
    BY <2>1, <2>2, <2>3
<1> QED
  BY <1>1, HistoryKept, PTL DEF Spec, ProtectedStay

=============================================================================
