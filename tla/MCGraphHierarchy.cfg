CONSTANTS
    Graphs = {g1, g2}
    Nodes = {n1, n2, n3}
    Channels = {c1}
    Roles = {"subgraph", "proxy_input", "proxy_output"}
    MaxMutations = 2
    MaxJoined = 1
    MaxShown = 1
    Liberties = {}
    None = None
SYMMETRY Symmetry
SPECIFICATION Spec
INVARIANTS
    TypeOK
    OwnersMatchLifetimes
    InterfacesInSync
    OnlyInvalidIsRefused
    ChannelsSound
