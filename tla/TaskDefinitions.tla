--------------------------- MODULE TaskDefinitions ---------------------------
(***************************************************************************)
(* The definition of a task, packages/algob/src/internal/core/tasks/         *)
(* task-definitions.ts: a SimpleTaskDefinition with its parameters, and the  *)
(* chain of OverriddenTaskDefinitions that `task(name)` puts on top of it.   *)
(* All definitions of a chain share the parameters of the simple one, so a   *)
(* chain is one record: the parameters, and the actions from the bottom up.  *)
(* Descriptions and isInternal only change what the help prints.             *)
(***************************************************************************)
EXTENDS Integers, Sequences, FiniteSets

CONSTANTS
    ParamName,      \* names of parameters
    BadCased,       \* those that are not in camelCase
    AlgobParams,    \* ALGOB_PARAM_DEFINITIONS: name -> parameter
    Word,           \* the texts on a command line
    WordTypes,      \* the types whose parse accepts a text
    Numbers,        \* the texts that denote numbers: "int" and "float" parse them
    Action,         \* the functions given to setAction
    NoAction,       \* the action of a task that never got one
    NoType, NoValue \* undefined

Type == {"string", "boolean", "int", "float", "inputFile", "json"}

ASSUME WordAssumption ==
    /\ WordTypes \in [Word -> SUBSET Type]
    /\ Numbers \subseteq Word
    /\ \A w \in Word : /\ "string" \in WordTypes[w]
                       /\ "int" \in WordTypes[w] => "float" \in WordTypes[w]
                       /\ "float" \in WordTypes[w] => w \in Numbers
ASSUME NamesAssumption == BadCased \subseteq ParamName /\ DOMAIN AlgobParams \subseteq ParamName
ASSUME UndefinedAssumption == NoAction \notin Action /\ NoType \notin Type

-----------------------------------------------------------------------------
(* params/argument-types.ts: a value is the text that it was read from, and  *)
(* the JavaScript type that parse made of it.                                *)

Kind(type, w) ==
    CASE type \in {"string", "inputFile"} -> "string"
      [] type = "boolean" -> "boolean"
      [] type \in {"int", "float"} -> "number"
      [] OTHER -> IF w \in Numbers THEN "number"
                  ELSE IF "boolean" \in WordTypes[w] THEN "boolean" ELSE "object"

Parses(type, w) == type \in WordTypes[w]
ParseValue(type, w) == [kind |-> Kind(type, w), word |-> w]

\* type.validate, of one value.
Validates(type, v) ==
    CASE type = "string"    -> v.kind = "string"
      [] type = "boolean"   -> v.kind = "boolean"
      [] type = "int"       -> v.kind = "number" /\ Parses("int", v.word)
      [] type = "float"     -> v.kind = "number"
      [] type = "inputFile" -> v.kind = "string" /\ Parses("inputFile", v.word)
      [] OTHER              -> TRUE

FlagSet == [kind |-> "boolean", word |-> "true"]
FlagUnset == [kind |-> "boolean", word |-> "false"]

-----------------------------------------------------------------------------
(* Parameters.  A call of addParam, addPositionalParam,                      *)
(* addVariadicPositionalParam or addFlag is a record; optional says what was *)
(* passed as isOptional ("yes" also for addOptionalParam and its like).      *)

IsAdd(c) ==
    /\ c.kind \in {"param", "positional", "variadic", "flag"}
    /\ c.name \in ParamName
    /\ c.type \in Type \cup {NoType}
    /\ c.optional \in {"unset", "yes", "no"}

IsOptional(c) == c.optional = "yes" \/ (c.optional = "unset" /\ c.default # NoValue)
IsPositional(c) == c.kind \in {"positional", "variadic"}

MakeParam(c) ==
    IF c.kind = "flag"
    THEN [name |-> c.name, type |-> "boolean", default |-> FlagUnset,
          isOptional |-> TRUE, isFlag |-> TRUE, isVariadic |-> FALSE]
    ELSE [name |-> c.name, type |-> IF c.type = NoType THEN "string" ELSE c.type,
          default |-> IF c.kind = "variadic" /\ c.default # NoValue THEN <<c.default>> ELSE c.default,
          isOptional |-> IsOptional(c), isFlag |-> FALSE, isVariadic |-> c.kind = "variadic"]

\* params are the named ones, positional the others in order, layers the actions
\* of the chain; layers[1] is that of the simple definition.
EmptyDefinition(action) == [params |-> << >>, positional |-> << >>, layers |-> <<action>>]

HasParamDefined(def, n) ==
    n \in DOMAIN def.params \/ \E i \in DOMAIN def.positional : def.positional[i].name = n

\* The default of a parameter without a type must be a string.
DefaultFitsType(c) == c.kind # "flag" /\ c.type = NoType /\ c.default # NoValue => c.default.kind = "string"
ValidParamNameCasing(c) == c.name \notin BadCased
NameNotUsed(def, c) == ~HasParamDefined(def, c.name) /\ c.name \notin DOMAIN AlgobParams
NotAfterVariadic(def, c) ==
    IsPositional(c) => \A i \in DOMAIN def.positional : ~def.positional[i].isVariadic
NoMandatoryAfterOptional(def, c) ==
    (IsPositional(c) /\ ~IsOptional(c)) => \A i \in DOMAIN def.positional : ~def.positional[i].isOptional
NoDefaultForMandatory(c) == c.kind # "flag" /\ c.default # NoValue => IsOptional(c)

\* An override adds flags, and parameters that are said to be optional.
OverrideMayAdd(def, c) ==
    Len(def.layers) > 1 => c.kind = "flag" \/ (c.kind = "param" /\ c.optional = "yes")

\* Fault: a mandatory positional parameter after an optional one.
MayAddMandatoryLast(def, c) ==
    /\ OverrideMayAdd(def, c) /\ DefaultFitsType(c) /\ ValidParamNameCasing(c) /\ NameNotUsed(def, c)
    /\ NotAfterVariadic(def, c) /\ NoDefaultForMandatory(c)
\* Whether adding the parameter throws nothing.
MayAdd(def, c) ==
    /\ OverrideMayAdd(def, c)
    /\ DefaultFitsType(c)
    /\ ValidParamNameCasing(c)
    /\ NameNotUsed(def, c)
    /\ NotAfterVariadic(def, c)
    /\ NoMandatoryAfterOptional(def, c)
    /\ NoDefaultForMandatory(c)

AddParam(def, c) ==
    IF IsPositional(c)
    THEN [def EXCEPT !.positional = Append(@, MakeParam(c))]
    ELSE [def EXCEPT !.params = [n \in DOMAIN @ \cup {c.name} |->
                                    IF n = c.name THEN MakeParam(c) ELSE @[n]]]

\* task(name, action) of a name that has a definition: TasksDSL._addTask.
Override(def, action) == [def EXCEPT !.layers = Append(@, action)]
SetAction(def, action) == [def EXCEPT !.layers[Len(def.layers)] = action]

\* The getter action: that of the highest layer, from this one down, that has one.
ActionOf(def, layer) ==
    LET set == {l \in 1..layer : def.layers[l] # NoAction}
    IN  IF set = {} THEN NoAction
        ELSE def.layers[CHOOSE l \in set : \A m \in set : m <= l]

NamesOf(def) == DOMAIN def.params \cup {def.positional[i].name : i \in DOMAIN def.positional}
ParamOf(def, n) ==
    IF n \in DOMAIN def.params THEN def.params[n]
    ELSE def.positional[CHOOSE i \in DOMAIN def.positional : def.positional[i].name = n]

\* Environment._resolveValidTaskArguments: the value of every parameter, when
\* CanResolve; arguments that no parameter names are kept by the code and left out here.
Resolve(def, args) ==
    [n \in NamesOf(def) |->
        IF n \in DOMAIN args /\ args[n] # NoValue THEN args[n] ELSE ParamOf(def, n).default]

\* _resolveArgument and _checkTypeValidation: what is there must validate.
ValidArgument(p, v) ==
    IF v = NoValue THEN p.isOptional
    ELSE IF p.isVariadic THEN \A i \in DOMAIN v : Validates(p.type, v[i])
    ELSE Validates(p.type, v)
CanResolve(def, args) ==
    \A n \in NamesOf(def) : ValidArgument(ParamOf(def, n), IF n \in DOMAIN args THEN args[n] ELSE NoValue)

=============================================================================
