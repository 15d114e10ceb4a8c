SPECIFICATION Spec
CONSTANTS
    p1 = p1
    p2 = p2
    Proc = {p1, p2}
    Path = {"a.teal", "sub/a.teal", "b.py", "c.lsig"}
    NameOf <- NameOfMC
    Ext <- ExtMC
    SortedNames <- SortedNamesMC
    Version = {"v1", "v2", "v3"}
    NoFile = "no file"
    Project <- ProjectMC
    Params = {"none", "tmpl"}
    NoParams = "none"
    Text = {"t1", "t2", "bad"}
    NoText = "no text"
    Logic <- LogicMC
    PyTeal <- PyTealMC
    ValidText = {"t1", "t2"}
    Hash <- HashMC
    Job <- JobMC
    MaxEdits = 1
    MaxJobs = 3
    MaxFaults = 1
SYMMETRY ProcSymmetry
INVARIANTS
    OwnProgram
    TaskRefreshes
    FailuresExplained
CHECK_DEADLOCK FALSE
