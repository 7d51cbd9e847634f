--------------------------- MODULE MCCommandStack ---------------------------
\* CommandStack on small instances.
EXTENDS CommandStack, TLC

Symmetry == Permutations(Stacks) \cup Permutations(Documents)
                \cup Permutations(Catalogs) \cup Permutations(Contents)

\* Documents as they are created, and documents that were edited by stacks
\* which are gone and have one revision left.
OpenedDocuments ==
    [content : Contents, revision : {0}, epoch : {LastEpoch}]
        \cup [content : Contents, revision : {LastRevision - 1}, epoch : {0}]
=============================================================================
