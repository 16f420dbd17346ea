SPECIFICATION Spec
CONSTANTS
    Slots = {1, 2}
    None = None
    Names <- MCNames
    Literals = {"l", "x"}
    Denied = {"x"}
    Ported = {"b", "n1", "n2"}
    Ours = "us"
    Forbidden = {"f"}
    Worlds <- MCWorlds
    Published <- MCPublished
    Notaries <- MCNotaries
    NotaryHas <- MCNotaryHas
    NotaryFirst = FALSE
    NotaryOnly = FALSE
    FirstOnJoin = TRUE
    BatchSize = 1
    Mxcs = {"m1", "m2", "r1", "r2", "r3", "r4", "r5", "r6"}
    ServerOf <- MCServerOf
    Dims = {"small", "odd", "huge"}
    Normalized <- MCNormalized
    Unparsable = {}
    NoMedia = {}
    Frozen = FALSE
    Prune = TRUE
    Urls = {"u1"}
    Works <- MCWorks
CHECK_DEADLOCK FALSE
INVARIANTS FilesAgree OnePreview  
PROPERTIES ContentKept
