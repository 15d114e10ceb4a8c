------------------------------ MODULE MCCompile ------------------------------
(* An instance of CompileCache: a TEAL file, which a directory below may have *)
(* again, a PyTEAL file with two sets of parameters, and a .lsig file.        *)
EXTENDS CompileCache, TLC

NameOfMC == [q \in Path |-> IF q = "sub/a.teal" THEN "a.teal" ELSE q]
ExtMC == [n \in {"a.teal", "b.py", "c.lsig"} |->
    IF n = "a.teal" THEN "teal" ELSE IF n = "b.py" THEN "py" ELSE "lsig"]
\* v3 has the hash of v2 and the logic of v1.
LogicMC == [v \in Version |-> IF v = "v2" THEN "t2" ELSE "t1"]
PyTealMC == [w \in Version \X Params |->
    IF w[1] = "v2" THEN NoText ELSE IF w[1] = "v3" THEN "bad" ELSE IF w[2] = NoParams THEN "t1" ELSE "t2"]
HashMC == [x \in Version \cup Text |->
    CASE x \in {"v2", "v3"} -> "h2" [] x = "v1" -> "h1" [] x = "t1" -> "h3" [] x = "t2" -> "h4" [] OTHER -> "h5"]
ProjectMC == {[q \in Path |-> IF q = "sub/a.teal" THEN NoFile ELSE "v1"]}
SortedNamesMC == <<"a.teal", "b.py", "c.lsig">>
CallOf(n, ps) == [name |-> n, params |-> ps]
JobOf(calls) == [task |-> FALSE, force |-> FALSE, calls |-> calls]
\* The compile task; a contract with two programs; the logic of a signature.
JobMC ==
    {[task |-> TRUE, force |-> f, calls |-> << >>] : f \in BOOLEAN}
    \cup {JobOf(<<CallOf("a.teal", NoParams), CallOf("b.py", "tmpl")>>), JobOf(<<CallOf("c.lsig", NoParams)>>)}
ProcSymmetry == Permutations(Proc)
=============================================================================
