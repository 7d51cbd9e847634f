CONSTANTS
  n1 = n1
  n2 = n2
  n3 = n3
  l1 = l1
  l2 = l2
  g1 = g1
  g2 = g2
  p1 = p1
  p2 = p2
  Nodes = {n1, n2, n3}
  Links = {l1, l2}
  Groups = {g1, g2}
  Points = {p1, p2}
  DynamicKeys = {"extra", "more"}
  Behind = TRUE
  Schemas = {"wide", "narrow", "text"}
  Imported <- Documents
  Features = {"pins"}
  MaxCommands = 2
  None = None
SPECIFICATION Spec
INVARIANTS
  HistoryReplays
CHECK_DEADLOCK FALSE
