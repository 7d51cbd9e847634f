CONSTANTS
    Graphs = {g1, g2}
    Nodes = {n1, n2}
    Channels = {}
    Roles = {"subgraph"}
    MaxMutations = 2
    MaxJoined = 0
    MaxShown = 0
    Liberties = {"prune"}
    None = None
SYMMETRY Symmetry
SPECIFICATION Spec
INVARIANTS InterfacesInSync
