SPECIFICATION MCSpec
CONSTANTS
    s1 = s1
    s2 = s2
    s3 = s3
    nobody = nobody
    r1 = r1
    r2 = r2
    Session <- MCSession
    NoSession <- nobody
    Reader <- MCReader
    Content <- MCContent
    Terminal <- MCTerminal
    LegacyFence = 2
    MaxGen = 3
SYMMETRY Symmetry
INVARIANTS
    TypeOK
    GenerationsUnique
    HolderIsNewest
    RowIndexed
PROPERTIES
    NoStaleWrite
    NoResurrection
    NoStaleDelete
    FenceNeverRegresses
    ImplementsRegister
