\* Four processes; the root's id lies between the others, so that a child is read
\* before it or after it.
CONSTANTS
    N = 4
    Root = 2
    Unborn = Unborn
    Dead = Dead
    Modes = {"stop", "sample"}
SPECIFICATION FairSpec
CHECK_DEADLOCK FALSE
INVARIANTS
    OnlyTreeSignalled
    ChildrenFirst
    NoneEscapes
    SampleIsTheTree
PROPERTY Returns
