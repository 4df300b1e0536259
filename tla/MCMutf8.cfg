CONSTANTS
    CodePoints <- MCCodePoints
    MaxLength <- MCMaxLength

SPECIFICATION Spec
INVARIANT TypeOK
INVARIANT NoZeroByte
INVARIANT RoundTrips
