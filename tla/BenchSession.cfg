\* A framework that needs Linux for more than one worker selected twice, on another
\* platform, and two whose workers hold the pipes; each with one worker and with two.
CONSTANTS
    Selected <- Twice
    Workers <- OneAndTwo
    MultiKinds <- MCKinds
    Platforms = {"darwin"}
    None = None
SPECIFICATION FairSpec
CHECK_DEADLOCK FALSE
INVARIANTS
    PassedIfMeasured
    OneTarget
    ReportedOnce
PROPERTY SessionFinishes
