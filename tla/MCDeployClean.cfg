SPECIFICATION FairSpec
CONSTANTS
    Absent = Absent
    NoTask = NoTask
    NoScript = NoScript
    NoNumber = NoNumber
    Script = {1, 2, 3}
    Direct = {1, 2}
    Network = {"testnet", "mainnet"}
    Name = {"gold", "silver", "app", "app2", "sig"}
    Lsigs = {"sig"}
    Key = {"k"}
    Value = {"v", "w"}
    Body <- CleanBody
    Tasks <- CleanTasks
    Faults = {}
    MaxTx = 14
INVARIANT DeployedOnce
PROPERTIES
    OnlyOwnCheckpoint
    TaskEnds
CHECK_DEADLOCK FALSE
