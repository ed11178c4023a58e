CONSTANTS
    Base = 4
    MAX_COOKIE = 6
    MAX_DEPTH = 4
    BLOCK_SIZE = 7
    FixInt = 1
    FixNeg = 1
    FixStr = 2
    FixLen = 3
    MAX_NESTING = 3
    Whole = {16}
    Short = {1}
    HexBase = 2
    MaxHex = 3
    MaxHeaders = 2
    Beginnings <- HttpStart
    MaxMore = 4
    Chars = {"a", "b", "c"}
    MAXRULES = 3
    MAXBEHIND = 2
    MAXOFF = 1
    MaxFull = 2
    MAXSTRCAPS = 3
    Precision = 2
    JsonDepth = 2
    SparseSafe = 4
    BufferSize = 7
    MaxTokens = 5
    MaxPieces = 3
    MaxNumeral = 4
    PbGroup = 8
    PbWord = 2
    Dot = 14
    RefLimit = 65536
    PbKeys = {0, 1, 2, 4, 5, 9}
    PbValues = {1, 2}
    MinSize = 4
    Multiplier = 177
    MaxLoads = 4
    MaxWire = 4
    LuaValues = {v1, v2}
    NoValue = nil
    USHRT_MAX = 4
    MaxPatterns = 3
    MaxNodes = 4
    MaxPlain = 1
    Texts = {"a", "b", "c"}
    Addresses = {1, 2}
    pbN_calchash <- NameHashes
    CacheSlots = {1}
    SlotOf <- OnePlace
    PB_MIN_STRTABLE_SIZE = 1
    NoAddress = 0
    CountLimit = 65536
    MaxNameUses = 2
    FormatLevels = 3
    Configs = {1, 2}
    BufferPlaces = {3, 4, 5}
    NoBuffer = 0
    INT_MAX = 31
    LuaIntegers <- OptionValues
    TextLengths = {0, 6, 7, 20}
    DefaultDepth = 3
    DefaultPrecision = 2
    DefaultSafe = 4
    MaxCalls = 3
    Contents <- Messages
    Fixed32 = 1
    Positions <- Places
    MaxLevels = 4
SPECIFICATION CSpec
INVARIANTS
    
    
    
    
    
    HeadsAreStable
    PatternsMatch
CHECK_DEADLOCK FALSE
