CONSTANTS
    cA = cA
    cB = cB
    mA1 = mA1
    mA2 = mA2
    mB1 = mB1
    Classes = {cA, cB}
    Methods = {mA1, mA2, mB1}
    ClassOf <- MCClassOf
    ClassName <- MCClassName
    Show <- MCShow
    ConfigEntries <- MCConfigEntries
    Blocklist <- MCBlocklist
    CallerBlocklist <- MCCallerBlocklist
    IntradexAllowlist <- MCIntradexAllowlist
    MaxCalls = 2

SPECIFICATION Spec
INVARIANT NeverBothFlags
INVARIANT FlagsAsConfigured
