CONSTANTS
    ResDirs <- MCResDirs
    Files <- MCFiles
    XmlNames <- MCXmlNames
    RawDashNames <- MCRawDashNames
    KeepDocs <- MCKeepDocs

SPECIFICATION Spec
INVARIANT KeepNamesTrimmed
