SPECIFICATION Spec
CONSTANTS
    Absent = Absent
    NoTask = NoTask
    NoScript = NoScript
    NoNumber = NoNumber
    Script = {1, 2, 3}
    Direct = {1, 2}
    Network = {"testnet"}
    Name = {"gold", "silver", "app", "sig"}
    Lsigs = {"sig"}
    Key = {}
    Value = {}
    Body <- FaultsBody
    Tasks <- FaultsTasks
    Faults = {"error", "lost", "drop", "crash"}
    MaxTx = 5
INVARIANTS
    TypeOK
    FilesLoadable
    SeesPastOnly
PROPERTIES
    ImplementsRegistry
    
    OptInMeansRecorded
CHECK_DEADLOCK FALSE
