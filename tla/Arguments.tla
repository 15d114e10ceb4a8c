------------------------------ MODULE Arguments ------------------------------
(***************************************************************************)
(* The parser of the command line, packages/algob/src/internal/cli/          *)
(* arguments-parser.ts.  A command line is a sequence of texts.  What the     *)
(* conversions of a text are is given by tables: ParamOfCLA is               *)
(* cLAToParamName of the texts that begin with "--" (paramNameToCLA is its    *)
(* inverse), ShortParams the substitution of the texts like "-h".            *)
(*                                                                          *)
(* Both loops of the parser read one text at a time, and a parameter that is *)
(* no flag takes the text after it, whatever that is.  They are folds whose   *)
(* state has the parameter that waits for its value.                         *)
(***************************************************************************)
EXTENDS TaskDefinitions, SequencesExt

CONSTANTS
    ParamOfCLA,     \* text that begins with "--" -> name of a parameter
    BadCasedCLA,    \* texts that begin with "--" and have capitals
    ShortParams,    \* ALGOB_SHORT_PARAM_SUBSTITUTIONS: text -> text
    NoName          \* undefined

ASSUME CLAAssumption ==
    /\ DOMAIN ParamOfCLA \cup BadCasedCLA \cup DOMAIN ShortParams \subseteq Word
    /\ \A w \in DOMAIN ShortParams : ShortParams[w] \in DOMAIN ParamOfCLA

HasCLAParamNameFormat(w) == w \in DOMAIN ParamOfCLA \cup BadCasedCLA
IsCLAParamName(w, params) == w \in DOMAIN ParamOfCLA /\ ParamOfCLA[w] \in DOMAIN params
CLAOf(n) == CHOOSE w \in DOMAIN ParamOfCLA : ParamOfCLA[w] = n

With(args, n, v) == [m \in DOMAIN args \cup {n} |-> IF m = n THEN v ELSE args[m]]

\* The state of a loop: ok is FALSE once it threw.
Parsing == [ok |-> TRUE, waits |-> NoName, args |-> << >>, task |-> NoName, rest |-> << >>]
Failed(st) == [st EXCEPT !.ok = FALSE]

\* _parseArgumentAt, the text that names the parameter n.
NameParam(st, n, params) ==
    IF n \in DOMAIN st.args THEN Failed(st)
    ELSE IF params[n].isFlag THEN [st EXCEPT !.args = With(@, n, FlagSet)]
    ELSE [st EXCEPT !.waits = n]
\* _parseArgumentAt, the text after it.
TakeValue(st, w, params) ==
    IF ~Parses(params[st.waits].type, w) THEN Failed(st)
    ELSE [st EXCEPT !.args = With(@, st.waits, ParseValue(params[st.waits].type, w)), !.waits = NoName]

Substitute(w) == IF w \in DOMAIN ShortParams THEN ShortParams[w] ELSE w

\* parseRuntimeArgs: algob's own parameters are taken out of the whole line.
RuntimeStep(st, raw) ==
    LET w == Substitute(raw)
    IN  IF ~st.ok THEN st
        ELSE IF st.waits # NoName THEN TakeValue(st, raw, AlgobParams)
        ELSE IF w \in BadCasedCLA THEN Failed(st)
        ELSE IF IsCLAParamName(w, AlgobParams) THEN NameParam(st, ParamOfCLA[w], AlgobParams)
        ELSE IF st.task # NoName THEN [st EXCEPT !.rest = Append(@, w)]
        ELSE IF HasCLAParamNameFormat(w) THEN Failed(st)
        ELSE [st EXCEPT !.task = w]
ParseRuntimeArgs(raw) ==
    LET st == FoldLeft(RuntimeStep, Parsing, raw)
    IN  [st EXCEPT !.ok = st.ok /\ st.waits = NoName]

\* _parseTaskParamArguments: the named parameters; rest are the positional texts.
ParseTaskParams(def, raw) ==
    LET TaskStep(st, w) ==
            IF ~st.ok THEN st
            ELSE IF st.waits # NoName THEN TakeValue(st, w, def.params)
            ELSE IF ~HasCLAParamNameFormat(w) THEN [st EXCEPT !.rest = Append(@, w)]
            ELSE IF ~IsCLAParamName(w, def.params) THEN Failed(st)
            ELSE NameParam(st, ParamOfCLA[w], def.params)
        st == FoldLeft(TaskStep, Parsing, raw)
    IN  [st EXCEPT !.ok = st.ok /\ st.waits = NoName
                          /\ \A n \in DOMAIN def.params : n \in DOMAIN st.args \/ def.params[n].isOptional]

\* Fault: positional texts that no parameter takes are dropped.
PositionalsParseLoosely(positional, raw) ==
    \A i \in DOMAIN positional :
        IF i > Len(raw) THEN positional[i].isOptional
        ELSE IF positional[i].isVariadic THEN \A j \in i..Len(raw) : Parses(positional[i].type, raw[j])
        ELSE Parses(positional[i].type, raw[i])
\* _parsePositionalParamArgs throws nothing.
PositionalsParse(positional, raw) ==
    /\ \A i \in DOMAIN positional :
           IF i > Len(raw) THEN positional[i].isOptional
           ELSE IF positional[i].isVariadic THEN \A j \in i..Len(raw) : Parses(positional[i].type, raw[j])
           ELSE Parses(positional[i].type, raw[i])
    /\ Len(raw) > Len(positional) => positional # << >> /\ positional[Len(positional)].isVariadic

PositionalValue(positional, raw, i) ==
    IF i > Len(raw) THEN positional[i].default
    ELSE IF positional[i].isVariadic
    THEN [j \in 1..(Len(raw) - i + 1) |-> ParseValue(positional[i].type, raw[i + j - 1])]
    ELSE ParseValue(positional[i].type, raw[i])

\* parseTaskArguments
ParseTaskArguments(def, raw) ==
    LET named == ParseTaskParams(def, raw)
        names == {def.positional[i].name : i \in DOMAIN def.positional}
        at(n) == CHOOSE i \in DOMAIN def.positional : def.positional[i].name = n
    IN  IF ~named.ok \/ ~PositionalsParse(def.positional, named.rest) THEN [ok |-> FALSE, args |-> << >>]
        ELSE [ok |-> TRUE,
              args |-> [n \in DOMAIN def.params \cup names |->
                           IF n \in names THEN PositionalValue(def.positional, named.rest, at(n))
                           ELSE IF n \in DOMAIN named.args THEN named.args[n] ELSE def.params[n].default]]

=============================================================================
