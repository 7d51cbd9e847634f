SPECIFICATION PartsSpec
CONSTANTS
    MaxElements = 3
    MaxDepth = 7
    max_assets = 2
    max_fonts = 3
    LastAssetId = 2
    LastFontId = 4
    MaxGeneration = 2
    Null = Null
    None = None
    NoRecord = NoRecord
    Assets = {a1, a2, a3}
    Interfaces = {i1, i2}
    AssetBodies = {b1}
    Subscribers = {sub}
    LastGeneration = 2
    Opened <- OpenedDocument
    LastId = 11
    Versions = {0, 1, 2}
    MaxEdits = 1
    Stacks = {s1}
    StackDocuments = {d1, d2}
    Catalogs = {r1, r2}
    StackContents = {c1, c2}
    node_s = node_s
    node_t = node_t
    val_x = val_x
    val_y = val_y
    val_z = val_z
    NodeTypes = {node_s, node_t}
    Keys <- ReadKeys
    Schemas <- ReadSchemas
    Relations <- ReadRelations
    Queries <- ReadQueries
    MaxStaged = 1
    MaxReads = 2
    NodeDependencyCapacity = 1
    LastRevision = 2
    LastRegistration = 1
    RoutePoints = {1, 2, 3, 4}
    Places = {0, 1}
    ChunkCapacity = 2
    StartSize = 3
    LastChunkId = 4
    Nil = Nil
    Nothing = Nothing
    AssetKeys = {k1, k2}
    Buffers = {f1, f2}
    Textures = {t1, t2, t3}
SYMMETRY Symmetry
CHECK_DEADLOCK FALSE
INVARIANTS
    TypeOK
    OwnedOnceOrDestroyed
    NoCleanupUnderneath
    CommittedWhenIdle
    RegistrySound
    SubscribersUpToDate
    RouteConsistent
    DifferenceExact
    CatalogSound
    CurrentMeansSameAnswers
    RevisionsIdentify
    Clipboard_PasteIsACopy
    Clipboard_UndoRemovesPaste
    Clipboard_PreparedIsPasted
    FontsFollowAssets
    TexturesOutliveTheirUsers
PROPERTIES
    IterationIsStable
    History_StepsKeepHistory
