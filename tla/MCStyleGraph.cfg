CONSTANTS
    Ids <- MCIds
    OtherIds <- MCOtherIds
    MaxConfigs <- MCMaxConfigs

SPECIFICATION Spec
INVARIANT TypeOK
INVARIANT GraphMatchesStyleTable
INVARIANT RootsAreParentless
INVARIANT DotNodesCoverEdges
INVARIANT UnambiguousParentAgreesWithGraph
