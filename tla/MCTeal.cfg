SPECIFICATION FairSpec
CONSTANTS
    ByteBits = 2
    WordBytes = 1
    MAX_CONCAT_SIZE = 2
    Hash <- MCHash
    ProgramLen = 5
    Capacity = 4
    MaxRefs = 4
    MaxRuns = 2
    Slots = {0}
    Families <- MCFamilies
    Words = {0, 1, 3}
    BlockWords = {4}
    Texts <- MCTexts
    InitialArg <- MCZeroText
    ZeroText <- MCZeroText
    TxnGroup <- MCTxnGroup
    GlobalFields <- MCGlobalFields
    Ledger <- MCLedger
    ForeignAssets <- MCForeignAssets
    AssetID = 1
    AppID = 1
    ForeignApps <- MCForeignApps
    NumUint = 1
    NumByteSlice = 1
CHECK_DEADLOCK FALSE
INVARIANTS
    TypeOK
    
    
PROPERTIES
    RangeKept
    
    RunEnds
