SPECIFICATION Spec
CONSTANTS
    Stacks = {s1}
    Documents = {d1}
    Catalogs = {r1}
    Contents = {a, b}
    Limits = {1, 2}
    max_replacements = 0
    LastRevision = 3
    LastEpoch = 0
    Opened <- OpenedDocuments
    LastDeferredId = 1
    None = None
INVARIANTS
    UndoWithinLimit
