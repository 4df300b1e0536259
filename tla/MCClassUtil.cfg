CONSTANTS
    Internal <- MCInternal
    OtherTypes <- MCOtherTypes
    ObjectType = "Object"
    Null = Null
    MaxCalls = 3
    Chars = {"a", "$", "7", "Lambda", "ExternalSyntheticLambda"}
    Digits = {"7"}
    MaxLength = 5
    ClassNames <- MCClassNames
    DefinedTypes <- MCDefinedTypes

SPECIFICATION Spec
INVARIANT HierarchyAgrees
INVARIANT MatchesNaming
PROPERTY HierarchyWalkTerminates
