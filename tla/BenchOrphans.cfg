\* A case with shared ports before another.
CONSTANTS
    Selected <- Sharing
    Workers <- Two
    MultiKinds <- MCKinds
    Platforms = {"linux"}
    None = None
SPECIFICATION Spec
CHECK_DEADLOCK FALSE
INVARIANT OneTarget
