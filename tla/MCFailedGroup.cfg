SPECIFICATION Spec
CONSTANTS
    alice = alice
    bob = bob
    escrow = escrow
    Absent = Absent
    NoAddress = NoAddress
    NoProgram = NoProgram
    Undefined = Undefined
    Address <- MCDirectAddress
    LsigAddress = {}
    Balances <- MCBalances
    Groups <- MCGroups
    Key = {"k"}
    Program <- MCProgram
    AssetId = {1}
    AppId = {1}
    AsaName = {"gold", "silver"}
    AsaDefs <- MCAsaDefs
    AppParams <- MCAppParams
    Rounds = {2}
    ALGORAND_ACCOUNT_MIN_BALANCE = 1
    ASSET_CREATION_FEE = 1
    APPLICATION_BASE_FEE = 1
    SSC_KEY_BYTE_SLICE = 0
    SSC_VALUE_UINT = 1
    SSC_VALUE_BYTES = 1
    MAX_ALGORAND_ACCOUNT_ASSETS = 2
    MAX_ALGORAND_ACCOUNT_APPS = 2
    MAX_OPT_IN_APPS = 2
    MAX_GROUP_SIZE = 3
    DEFAULT_VALID_ROUNDS = 2
    DebtBound = 1
    MinBalanceBound = 2
PROPERTY FailedGroupInvisible
