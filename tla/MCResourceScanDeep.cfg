CONSTANTS
    fTop = fTop
    fLayout = fLayout
    fLayoutV21 = fLayoutV21
    fAnim = fAnim
    fColorful = fColorful
    fEmpty = fEmpty
    fTxt = fTxt
    fDeep = fDeep
    s1 = s1
    s2 = s2
    r1 = r1
    r2 = r2
    n1 = n1
    Workers <- MCWorkers
    Files = {fTop, fLayout, fLayoutV21, fAnim, fColorful, fEmpty, fTxt, fDeep}
    Path <- MCPath
    IsXml <- MCDeepXml
    Strs = {s1, s2}
    Refs = {r1, r2}
    AttrNames = {n1}
    FileClasses <- MCFileClasses
    FileAttrs <- MCFileAttrs
    ResTable <- MCResTable

SPECIFICATION Spec
PROPERTY ImplementsCollect
