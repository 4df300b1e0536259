CONSTANTS
    Ids <- MCIds
    x = x
    y = y
    Vals <- MCVals

SPECIFICATION Spec
INVARIANT TypeOK
INVARIANT ResolvesToChainValue
PROPERTY Terminates
