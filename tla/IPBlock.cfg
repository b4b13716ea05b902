CONSTANTS
    a = a
    b = b
    c = c
    None = None
    Junk = Junk
    Addrs = {a, b, c}
    Header <- MCHeader
    Metadata <- MCMetadata
    Configs <- MCConfigs
SPECIFICATION Spec
INVARIANTS VerdictIsRight
CHECK_DEADLOCK FALSE
