SPECIFICATION Spec
CONSTANTS
    Account = {"a", "b", "c"}
    Known = {"a", "b"}
    Logic = {"l1", "l2"}
    Mparams <- MparamsMC
    File <- FileMC
    NoFile = NoFile
    InitialFiles <- InitialFilesMC
    t1 = t1
    t2 = t2
    Task = {t1, t2}
    NoSig = NoSig
    NoMsig = NoMsig
    NoLsig = NoLsig
    MaxSteps = 3
SYMMETRY TaskSymmetry

    
PROPERTIES
    AppendAdds
    FilesKeepSignatures
CHECK_DEADLOCK FALSE
