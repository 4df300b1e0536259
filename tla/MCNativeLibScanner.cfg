CONSTANTS
    MIN_CLASSNAME_LENGTH <- MCMinLength
    MAX_CLASSNAME_LENGTH <- MCMaxLength
    Bytes <- MCBytes
    MaxInputLength <- MCMaxInputLength

SPECIFICATION Spec
INVARIANT TypeOK
INVARIANT NoBufferOverflow
INVARIANT ShortRunsFound
