SPECIFICATION RouteSpec
CONSTANTS
    RoutePoints <- Ids
    Places = {0, 1}
    ChunkCapacity = 3
    StartSize = 4
    LastChunkId = 4
    Nil = Nil
CHECK_DEADLOCK FALSE
INVARIANTS
    StructureValid
