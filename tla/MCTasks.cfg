SPECIFICATION Spec
CONSTANTS
    NoName = NoName
    NoValue = NoValue
    NoValueMC = NoValue
    NoType = NoType
    NoAction = NoAction
    NoConfig = NoConfig
    NoLine = NoLine
    ParamName <- ParamNameMC
    BadCased = {"Bad"}
    AlgobParams <- AlgobParamsMC
    Word <- WordMC
    WordTypes <- WordTypesMC
    Numbers = {"12"}
    ParamOfCLA <- ParamOfCLAMC
    BadCasedCLA = {"--Bad"}
    ShortParams <- ShortParamsMC
    Action <- ActionMC
    Body <- BodyMC
    TaskName = {"help", "t", "u", "none"}
    Help = "help"
    SetupTasks = {"help"}
    Plugins <- PluginsMC
    Builtin <- BuiltinMC
    Commands <- CommandsMC
    MaxDepth = 6
INVARIANTS
    NothingDropped
    EveryParamReachable
    PluginsOnce
    GlobalsInnermost
    SuperRunsParent
