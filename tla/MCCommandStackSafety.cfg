SPECIFICATION Spec
CONSTANTS
    Stacks = {s1, s2}
    Documents = {d1}
    Catalogs = {r1}
    Contents = {a, b, c}
    Limits = {0, 2}
    max_replacements = 1
    LastRevision = 3
    LastEpoch = 1
    Opened <- OpenedDocuments
    LastDeferredId = 1
    None = None
SYMMETRY Symmetry
INVARIANTS
    TypeOK
    HistoryFitsDocument
    CommandStaysLast
PROPERTIES
    NoLostUpdate
    ImplementsEditHistory
