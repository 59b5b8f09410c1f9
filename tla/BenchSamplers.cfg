\* One case.
CONSTANTS
    Selected <- OneEach
    Workers <- One
    MultiKinds <- MCKinds
    Platforms = {"linux"}
    None = None
SPECIFICATION Spec
CHECK_DEADLOCK FALSE
INVARIANT TornDown
