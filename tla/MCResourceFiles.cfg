CONSTANTS
    fA = fA
    fB = fB
    fC = fC
    fD = fD
    fE = fE
    c1 = c1
    c2 = c2
    c3 = c3

SPECIFICATION Spec
INVARIANT NoLostMerge
INVARIANT KeepFromRawFiles
INVARIANT LayoutsRenamedOnce
INVARIANT AuthoritiesSplit
INVARIANT AllowedTypeObfuscated
PROPERTY ImplementsCollect
PROPERTY RenameReturns
