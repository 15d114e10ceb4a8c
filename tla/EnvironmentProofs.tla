-------------------------- MODULE EnvironmentProofs --------------------------
(***************************************************************************)
(* What holds of the runtime environment for every config, every plugin and  *)
(* every command: each plugin is set up once, a run has a definition of its   *)
(* task, tasks that run one at a time leave the globals to the innermost run, *)
(* and the definition of a task can be told what its parameters are from the  *)
(* order of the texts alone.                                                  *)
(*                                                                            *)
(* Plugins.  While no plugin was set up twice, the files on the stack each    *)
(* use the next, and what was required is loaded or on the stack (Quiet).     *)
(* A plugin is set up twice only when it is used while it is on the stack.    *)
(* Then everything above it on the stack is in a cycle with it; and if that   *)
(* cycle has functions only, nothing in it is ever done (Doomed): whichever   *)
(* is highest on the stack has to use one of the others first.  So no task    *)
(* runs.                                                                      *)
(*                                                                            *)
(* Runs.  A run is open, or has settled; an open run that is not the last     *)
(* awaits the run that comes next among the open ones, which found the        *)
(* globals as this one had set them and gives them back when it leaves.       *)
(***************************************************************************)
EXTENDS EnvironmentProperties, FiniteSetTheorems, TLAPS

-----------------------------------------------------------------------------
(* Sequences, as files and runs are *)

LEMMA SequenceDomain ==
    ASSUME NEW s, IsSequence(s)
    PROVE  Len(s) \in Nat /\ DOMAIN s = 1..Len(s)
BY DEF IsSequence

LEMMA SequenceOf ==
    ASSUME NEW S, NEW s \in Seq(S)
    PROVE  IsSequence(s)
BY DEF IsSequence

LEMMA ConcatSequences ==
    ASSUME NEW s, NEW t, IsSequence(s), IsSequence(t)
    PROVE  /\ IsSequence(s \o t) /\ Len(s \o t) = Len(s) + Len(t)
           /\ \A k \in 1..Len(s) : (s \o t)[k] = s[k]
           /\ \A k \in 1..Len(t) : (s \o t)[Len(s) + k] = t[k]
<1> DEFINE S == {s[k] : k \in DOMAIN s} \cup {t[k] : k \in DOMAIN t}
<1>1. s \in Seq(S) /\ t \in Seq(S)
  BY DEF IsSequence
<1> HIDE DEF S
<1>2. s \o t \in Seq(S)
  BY <1>1
<1>3. IsSequence(s \o t)
  BY <1>2, SequenceOf
<1> QED
  BY <1>1, <1>3

LEMMA UpdatedSequence ==
    ASSUME NEW s, IsSequence(s), NEW k \in DOMAIN s, NEW v
    PROVE  /\ IsSequence([s EXCEPT ![k] = v]) /\ Len([s EXCEPT ![k] = v]) = Len(s)
           /\ DOMAIN [s EXCEPT ![k] = v] = DOMAIN s
<1> DEFINE S == {s[j] : j \in DOMAIN s} \cup {v}
<1>1. s \in Seq(S)
  BY DEF IsSequence
<1>2. v \in S
  OBVIOUS
<1> HIDE DEF S
<1>3. [s EXCEPT ![k] = v] \in Seq(S) /\ Len([s EXCEPT ![k] = v]) = Len(s)
  BY <1>1, <1>2
<1> QED
  BY <1>3, SequenceOf

LEMMA TabulatedSequence ==
    ASSUME NEW n \in Nat, NEW f, f = [k \in 1..n |-> f[k]]
    PROVE  IsSequence(f) /\ Len(f) = n
<1> DEFINE S == {f[k] : k \in 1..n}
<1>1. f \in [1..n -> S]
  OBVIOUS
<1> HIDE DEF S
<1>2. f \in Seq(S) /\ Len(f) = n
  BY <1>1
<1> QED
  BY <1>2, SequenceOf

-----------------------------------------------------------------------------
(* Files that are being loaded *)

Rest(b) == {SubSeq(b, k, Len(b)) : k \in 1..(Len(b) + 1)}
\* What is chained to a definition does not come first.
Unchained(b) == b = << >> \/ b[1].op \notin {"add", "action"}
\* A part of a file.
IsRest(b) ==
    /\ IsSequence(b)
    /\ \A k \in DOMAIN b :
           /\ IsStatement(b[k])
           /\ k > 1 /\ b[k].op \in {"add", "action"} => b[k - 1].op \in {"task", "add", "action"}

LEMMA BodyIsRest ==
    ASSUME NEW b, IsBody(b)
    PROVE  IsRest(b) /\ Unchained(b) /\ b \in Rest(b) /\ << >> \in Rest(b)
<1>1. Len(b) \in Nat /\ DOMAIN b = 1..Len(b)
  BY SequenceDomain DEF IsBody
<1>2. IsRest(b) /\ Unchained(b)
  BY <1>1 DEF IsBody, IsRest, Unchained
<1> DEFINE S == {b[j] : j \in DOMAIN b}
<1>3. b \in Seq(S)
  BY DEF IsBody, IsSequence
<1> HIDE DEF S
<1>4. b = SubSeq(b, 1, Len(b)) /\ << >> = SubSeq(b, Len(b) + 1, Len(b))
  BY <1>3
<1> QED
  BY <1>1, <1>2, <1>4 DEF Rest

LEMMA TailIsRest ==
    ASSUME NEW b, IsRest(b), b # << >>
    PROVE  /\ IsRest(Tail(b)) /\ IsStatement(Head(b)) /\ Head(b) = b[1]
           /\ Tail(b) # << >> /\ Tail(b)[1].op \in {"add", "action"} => Head(b).op \in {"task", "add", "action"}
           /\ Len(Tail(b)) = Len(b) - 1
           /\ \A k \in 1..(Len(b) - 1) : Tail(b)[k] = b[k + 1]
<1> DEFINE S == {b[j] : j \in DOMAIN b}
<1>1. b \in Seq(S)
  BY DEF IsRest, IsSequence
<1> HIDE DEF S
<1>2. /\ Tail(b) \in Seq(S) /\ Len(Tail(b)) = Len(b) - 1 /\ Len(b) \in Nat \ {0}
      /\ \A k \in 1..(Len(b) - 1) : Tail(b)[k] = b[k + 1]
  BY <1>1
<1>3. DOMAIN b = 1..Len(b) /\ DOMAIN Tail(b) = 1..(Len(b) - 1) /\ Head(b) = b[1]
  BY <1>1, <1>2
<1>4. IsSequence(Tail(b))
  BY <1>2, SequenceOf
<1>5. IsStatement(Head(b))
  BY <1>2, <1>3 DEF IsRest
<1>6. ASSUME NEW k \in DOMAIN Tail(b)
      PROVE  /\ IsStatement(Tail(b)[k])
             /\ k > 1 /\ Tail(b)[k].op \in {"add", "action"} => Tail(b)[k - 1].op \in {"task", "add", "action"}
  <2>1. k \in Nat \ {0} /\ k + 1 \in DOMAIN b /\ Tail(b)[k] = b[k + 1] /\ k + 1 > 1
    BY <1>2, <1>3
  <2>2. CASE k > 1
    <3>1. k - 1 \in 1..(Len(b) - 1) /\ (k - 1) + 1 = k /\ (k + 1) - 1 = k
      BY <1>2, <1>3, <2>1, <2>2
    <3>2. Tail(b)[k - 1] = b[k]
      BY <1>2, <3>1
    <3> QED
      BY <2>1, <3>1, <3>2 DEF IsRest
  <2>3. CASE ~(k > 1)
    BY <2>1, <2>3 DEF IsRest
  <2> QED
    BY <2>2, <2>3
<1>7. Tail(b) # << >> => 2 \in DOMAIN b /\ Tail(b)[1] = b[2]
  BY <1>2, <1>3
<1>8. b[2].op \in {"add", "action"} /\ 2 \in DOMAIN b => Head(b).op \in {"task", "add", "action"}
  <2>1. 2 > 1 /\ 2 - 1 = 1
    OBVIOUS
  <2> QED
    BY <1>3, <2>1 DEF IsRest
<1> QED
  BY <1>2, <1>3, <1>4, <1>5, <1>6, <1>7, <1>8 DEF IsRest

LEMMA TailInRest ==
    ASSUME NEW b, IsSequence(b), NEW r \in Rest(b), r # << >>
    PROVE  /\ Tail(r) \in Rest(b)
           /\ Head(r) \in {b[k] : k \in DOMAIN b}
<1> DEFINE S == {b[j] : j \in DOMAIN b}
<1>1. b \in Seq(S)
  BY DEF IsSequence
<1> HIDE DEF S
<1>2. PICK k \in 1..(Len(b) + 1) : r = SubSeq(b, k, Len(b))
  BY DEF Rest
<1>3. k \in 1..Len(b) /\ k + 1 \in 1..(Len(b) + 1) /\ Len(b) \in Nat /\ DOMAIN b = 1..Len(b)
  BY <1>1, <1>2
<1>4. Tail(r) = SubSeq(b, k + 1, Len(b)) /\ Head(r) = b[k]
  BY <1>1, <1>2, <1>3
<1> QED
  BY <1>3, <1>4 DEF Rest

LEMMA RestIsRest ==
    ASSUME NEW b, IsRest(b), NEW r \in Rest(b)
    PROVE  IsRest(r)
<1> DEFINE S == {b[j] : j \in DOMAIN b}
<1>1. b \in Seq(S)
  BY DEF IsRest, IsSequence
<1> HIDE DEF S
<1>2. PICK k \in 1..(Len(b) + 1) : r = SubSeq(b, k, Len(b))
  BY DEF Rest
<1>3. /\ r \in Seq(S) /\ Len(b) \in Nat /\ DOMAIN b = 1..Len(b)
      /\ Len(r) = Len(b) - k + 1 /\ DOMAIN r = 1..(Len(b) - k + 1)
      /\ \A j \in 1..(Len(b) - k + 1) : r[j] = b[k + j - 1]
  BY <1>1, <1>2
<1>4. IsSequence(r)
  BY <1>3, SequenceOf
<1>5. ASSUME NEW j \in DOMAIN r
      PROVE  /\ IsStatement(r[j])
             /\ j > 1 /\ r[j].op \in {"add", "action"} => r[j - 1].op \in {"task", "add", "action"}
  <2>1. j \in Nat \ {0} /\ k + j - 1 \in DOMAIN b /\ r[j] = b[k + j - 1]
    BY <1>3
  <2>2. CASE j > 1
    <3>1. j - 1 \in 1..(Len(b) - k + 1) /\ k + (j - 1) - 1 = (k + j - 1) - 1 /\ k + j - 1 > 1
      BY <1>3, <2>1, <2>2
    <3>2. r[j - 1] = b[(k + j - 1) - 1]
      BY <1>3, <3>1
    <3> QED
      BY <2>1, <3>1, <3>2 DEF IsRest
  <2>3. CASE ~(j > 1)
    BY <2>1, <2>3 DEF IsRest
  <2> QED
    BY <2>2, <2>3
<1> QED
  BY <1>4, <1>5 DEF IsRest

LEMMA AppendedSequence ==
    ASSUME NEW s, IsSequence(s), NEW v
    PROVE  /\ IsSequence(Append(s, v)) /\ Len(Append(s, v)) = Len(s) + 1
           /\ \A k \in 1..Len(s) : Append(s, v)[k] = s[k]
           /\ Append(s, v)[Len(s) + 1] = v
<1> DEFINE S == {s[j] : j \in DOMAIN s} \cup {v}
<1>1. s \in Seq(S)
  BY DEF IsSequence
<1>2. v \in S
  OBVIOUS
<1> HIDE DEF S
<1>3. Append(s, v) \in Seq(S) /\ Len(Append(s, v)) = Len(s) + 1
  BY <1>1, <1>2
<1>4. (\A k \in 1..Len(s) : Append(s, v)[k] = s[k]) /\ Append(s, v)[Len(s) + 1] = v
  BY <1>1, <1>2
<1>5. IsSequence(Append(s, v))
  BY <1>3, SequenceOf
<1> QED
  BY <1>3, <1>4, <1>5

LEMMA ShortenedSequence ==
    ASSUME NEW s, IsSequence(s), s # << >>
    PROVE  /\ IsSequence(SubSeq(s, 1, Len(s) - 1)) /\ Len(SubSeq(s, 1, Len(s) - 1)) = Len(s) - 1
           /\ \A k \in 1..(Len(s) - 1) : SubSeq(s, 1, Len(s) - 1)[k] = s[k]
           /\ Len(s) \in 1..Len(s)
<1> DEFINE S == {s[j] : j \in DOMAIN s}
<1>1. s \in Seq(S)
  BY DEF IsSequence
<1> HIDE DEF S
<1>2. Len(s) \in Nat \ {0}
  BY <1>1
<1>3. SubSeq(s, 1, Len(s) - 1) \in Seq(S) /\ Len(SubSeq(s, 1, Len(s) - 1)) = Len(s) - 1
  <2>1. 1 \in 1..(Len(s) + 1) /\ Len(s) - 1 \in 0..Len(s)
    BY <1>2
  <2>2. SubSeq(s, 1, Len(s) - 1) \in Seq(S)
    BY <1>1, <2>1
  <2>3. CASE Len(s) = 1
    BY <1>1, <2>3
  <2>4. CASE Len(s) > 1
    <3>1. 1 \in 1..Len(s) /\ Len(s) - 1 \in 1..Len(s)
      BY <1>2, <2>4
    <3> QED
      BY <1>1, <1>2, <2>2, <2>4, <3>1
  <2> QED
    BY <1>2, <2>3, <2>4
<1>4. \A k \in 1..(Len(s) - 1) : SubSeq(s, 1, Len(s) - 1)[k] = s[k]
  BY <1>1, <1>2
<1>5. IsSequence(SubSeq(s, 1, Len(s) - 1))
  BY <1>3, SequenceOf
<1> QED
  BY <1>2, <1>3, <1>4, <1>5

\* A file that is being loaded, at one of its statements.
IsEntry(e) ==
    /\ e = [body |-> e.body, plugin |-> e.plugin]
    /\ IsRest(e.body)
    /\ e.plugin # NoName => e.plugin \in DOMAIN Plugins /\ e.body \in Rest(Plugins[e.plugin].body)
StackTyped ==
    /\ IsSequence(stack)
    /\ \A k \in DOMAIN stack : IsEntry(stack[k]) /\ (k < Len(stack) => Unchained(stack[k].body))

IsDefinition(d) ==
    /\ d = [params |-> d.params, positional |-> d.positional, layers |-> d.layers]
    /\ d.layers \in Seq(Action \cup {NoAction}) /\ d.layers # << >>
TasksTyped ==
    /\ DOMAIN tasks \subseteq TaskName
    /\ \A n \in DOMAIN tasks : IsDefinition(tasks[n])
\* A call that is chained has a definition that it is chained to.
DeclaredTyped ==
    stack # << >> /\ Top.body # << >> /\ Head(Top.body).op \in {"add", "action"} => declared \in DOMAIN tasks
PhaseTyped ==
    /\ phase \in {"idle", "loading", "running"}
    /\ phase # "loading" => stack = << >>
    /\ phase # "running" => frames = << >> /\ globals = NoGlobals
    /\ setups \in [DOMAIN Plugins -> Nat]
LoadTyped == StackTyped /\ TasksTyped /\ DeclaredTyped /\ PhaseTyped

-----------------------------------------------------------------------------
(* The stack when a statement is done, when a plugin is used and when a file is done *)

Depth == Len(stack)
LEMMA TopTyped ==
    ASSUME StackTyped, stack # << >>
    PROVE  /\ Depth \in Nat \ {0} /\ DOMAIN stack = 1..Depth /\ Depth \in DOMAIN stack
           /\ IsEntry(Top) /\ Top = stack[Depth]
<1>1. Depth \in Nat /\ DOMAIN stack = 1..Depth
  BY SequenceDomain DEF StackTyped, Depth
<1>2. Depth \in 1..Depth
  BY ShortenedSequence DEF StackTyped, Depth
<1> QED
  BY <1>1, <1>2 DEF StackTyped, Top, Depth

LEMMA ConsumedTyped ==
    ASSUME StackTyped, stack # << >>, Top.body # << >>
    PROVE  /\ IsSequence(Consumed) /\ Len(Consumed) = Depth /\ DOMAIN Consumed = 1..Depth
           /\ \A k \in 1..Depth : /\ k # Depth => Consumed[k] = stack[k]
                                  /\ Consumed[k].plugin = stack[k].plugin
                                  /\ IsEntry(Consumed[k])
           /\ Consumed[Depth] = [body |-> Tail(Top.body), plugin |-> Top.plugin]
           /\ IsStatement(Head(Top.body))
           /\ Head(Top.body).op \notin {"task", "add", "action"} => Unchained(Tail(Top.body))
           /\ Top.plugin # NoName =>
                  Head(Top.body) \in {Plugins[Top.plugin].body[k] : k \in DOMAIN Plugins[Top.plugin].body}
<1>1. /\ Depth \in Nat \ {0} /\ DOMAIN stack = 1..Depth /\ Depth \in DOMAIN stack
      /\ IsEntry(Top) /\ Top = stack[Depth] /\ IsSequence(stack)
  BY TopTyped DEF StackTyped
<1>2. Consumed = [stack EXCEPT ![Depth] = [body |-> Tail(Top.body), plugin |-> Top.plugin]]
  <2>1. [Top EXCEPT !.body = Tail(@)] = [body |-> Tail(Top.body), plugin |-> Top.plugin]
    BY <1>1 DEF IsEntry
  <2> QED
    BY <1>1, <2>1 DEF Consumed, Depth
<1>3. IsSequence(Consumed) /\ Len(Consumed) = Depth /\ DOMAIN Consumed = 1..Depth
  <2>1. PICK v : v = [body |-> Tail(Top.body), plugin |-> Top.plugin]
    OBVIOUS
  <2>2. Consumed = [stack EXCEPT ![Depth] = v]
    BY ONLY <2>1, <1>2
  <2>3. IsSequence(stack) /\ Depth \in DOMAIN stack /\ DOMAIN stack = 1..Depth
    BY ONLY <1>1
  <2>4. /\ IsSequence([stack EXCEPT ![Depth] = v])
        /\ Len([stack EXCEPT ![Depth] = v]) = Len(stack)
        /\ DOMAIN [stack EXCEPT ![Depth] = v] = DOMAIN stack
    BY ONLY <2>3, UpdatedSequence
  <2>5. Len(stack) = Depth
    BY DEF Depth
  <2> QED
    BY ONLY <2>2, <2>3, <2>4, <2>5
<1>4. /\ IsRest(Tail(Top.body)) /\ IsStatement(Head(Top.body))
      /\ Head(Top.body).op \notin {"task", "add", "action"} => Unchained(Tail(Top.body))
  BY <1>1, TailIsRest DEF IsEntry, Unchained
<1>5. ASSUME Top.plugin # NoName
      PROVE  /\ Top.plugin \in DOMAIN Plugins /\ Tail(Top.body) \in Rest(Plugins[Top.plugin].body)
             /\ Head(Top.body) \in {Plugins[Top.plugin].body[k] : k \in DOMAIN Plugins[Top.plugin].body}
  <2>1. Top.plugin \in DOMAIN Plugins /\ Top.body \in Rest(Plugins[Top.plugin].body)
    BY <1>1, <1>5 DEF IsEntry
  <2>2. IsSequence(Plugins[Top.plugin].body)
    BY <2>1, ConfigAssumption DEF IsBody
  <2> QED
    BY <2>1, <2>2, TailInRest
<1>6. IsEntry([body |-> Tail(Top.body), plugin |-> Top.plugin])
  BY <1>4, <1>5 DEF IsEntry
<1>7. \A k \in 1..Depth : /\ k # Depth => Consumed[k] = stack[k]
                          /\ Consumed[k].plugin = stack[k].plugin
                          /\ IsEntry(Consumed[k])
  BY <1>1, <1>2, <1>6 DEF StackTyped
<1> QED
  BY <1>1, <1>2, <1>3, <1>4, <1>5, <1>7

\* How each action leaves the stack.
Popped == SubSeq(stack, 1, Len(stack) - 1)
LEMMA PoppedTyped ==
    ASSUME StackTyped, stack # << >>
    PROVE  /\ IsSequence(Popped) /\ Len(Popped) = Depth - 1 /\ DOMAIN Popped = 1..(Depth - 1)
           /\ \A k \in 1..(Depth - 1) : Popped[k] = stack[k]
<1>1. /\ IsSequence(Popped) /\ Len(Popped) = Depth - 1
      /\ \A k \in 1..(Depth - 1) : Popped[k] = stack[k]
  BY ShortenedSequence DEF StackTyped, Popped, Depth
<1> QED
  BY <1>1, SequenceDomain

Pushed(e) == Append(Consumed, e)
LEMMA PushedTyped ==
    ASSUME StackTyped, stack # << >>, Top.body # << >>, NEW e
    PROVE  /\ IsSequence(Pushed(e)) /\ Len(Pushed(e)) = Depth + 1 /\ DOMAIN Pushed(e) = 1..(Depth + 1)
           /\ \A k \in 1..Depth : Pushed(e)[k] = Consumed[k]
           /\ Pushed(e)[Depth + 1] = e
<1>1. /\ IsSequence(Pushed(e)) /\ Len(Pushed(e)) = Depth + 1
      /\ \A k \in 1..Depth : Pushed(e)[k] = Consumed[k]
      /\ Pushed(e)[Depth + 1] = e
  BY ConsumedTyped, AppendedSequence DEF Pushed
<1> QED
  BY <1>1, SequenceDomain

-----------------------------------------------------------------------------
(* Definitions *)

LEMMA Defined ==
    ASSUME NEW def, IsDefinition(def), NEW a \in Action \cup {NoAction}, NEW c
    PROVE  /\ IsDefinition(EmptyDefinition(a)) /\ IsDefinition(Override(def, a))
           /\ IsDefinition(SetAction(def, a)) /\ IsDefinition(AddParam(def, c))
<1>1. /\ Override(def, a) = [params |-> def.params, positional |-> def.positional,
                             layers |-> Append(def.layers, a)]
      /\ SetAction(def, a) = [params |-> def.params, positional |-> def.positional,
                              layers |-> [def.layers EXCEPT ![Len(def.layers)] = a]]
  <2>1. def = [params |-> def.params, positional |-> def.positional, layers |-> def.layers]
    BY DEF IsDefinition
  <2>2. PICK p, q, l : def = [params |-> p, positional |-> q, layers |-> l]
    BY <2>1
  <2>3. [[params |-> p, positional |-> q, layers |-> l] EXCEPT !.layers = Append(@, a)]
            = [params |-> p, positional |-> q, layers |-> Append(l, a)]
    OBVIOUS
  <2>4. SetAction(def, a) = [def EXCEPT !.layers = [def.layers EXCEPT ![Len(def.layers)] = a]]
    BY DEF SetAction
  <2>5. ASSUME NEW m
        PROVE  [[params |-> p, positional |-> q, layers |-> l] EXCEPT !.layers = m]
                   = [params |-> p, positional |-> q, layers |-> m]
    OBVIOUS
  <2>6. def.params = p /\ def.positional = q /\ def.layers = l
    BY <2>2
  <2> QED
    BY <2>2, <2>3, <2>4, <2>5, <2>6 DEF Override
<1>2. /\ Append(def.layers, a) \in Seq(Action \cup {NoAction}) /\ Append(def.layers, a) # << >>
      /\ [def.layers EXCEPT ![Len(def.layers)] = a] \in Seq(Action \cup {NoAction})
      /\ [def.layers EXCEPT ![Len(def.layers)] = a] # << >>
  BY DEF IsDefinition
<1>3. IsDefinition(Override(def, a)) /\ IsDefinition(SetAction(def, a))
  BY <1>1, <1>2 DEF IsDefinition
<1>4. IsDefinition(AddParam(def, c))
  BY DEF IsDefinition, AddParam
<1>5. IsDefinition(EmptyDefinition(a))
  BY DEF IsDefinition, EmptyDefinition
<1> QED
  BY <1>3, <1>4, <1>5

LEMMA WithTyped ==
    ASSUME TasksTyped, NEW n \in TaskName, NEW def, IsDefinition(def), tasks' = With(tasks, n, def)
    PROVE  TasksTyped' /\ n \in DOMAIN tasks'
BY DEF With, TasksTyped

-----------------------------------------------------------------------------
LEMMA EmptyStack ==
    ASSUME NEW s, s = << >>
    PROVE  IsSequence(s) /\ Len(s) = 0 /\ DOMAIN s = {}
BY DEF IsSequence

LEMMA EndsTyped ==
    ASSUME NEW outcome, Ends(outcome)
    PROVE  LoadTyped'
<1>1. /\ stack' = << >> /\ tasks' = << >> /\ phase' = "idle" /\ frames' = << >> /\ globals' = NoGlobals
      /\ setups' = [p \in DOMAIN Plugins |-> 0]
  BY DEF Ends
<1>2. StackTyped' /\ DeclaredTyped'
  BY <1>1, EmptyStack DEF StackTyped, DeclaredTyped
<1> QED
  BY <1>1, <1>2 DEF LoadTyped, TasksTyped, PhaseTyped

LEMMA StartTyped ==
    ASSUME LoadTyped, NEW c \in Commands, Start(c.config, c.line)
    PROVE  LoadTyped'
<1> DEFINE base == [body |-> c.config.body, plugin |-> NoName]
           top  == [body |-> Builtin, plugin |-> NoName]
<1>1. CASE UNCHANGED <<phase, stack, setups, tasks, declared, frames, globals>>
  BY <1>1 DEF LoadTyped, StackTyped, TasksTyped, DeclaredTyped, PhaseTyped, Top
<1>2. CASE /\ phase' = "loading" /\ stack' = <<base, top>>
           /\ UNCHANGED <<setups, tasks, declared, frames, globals>>
  <2>1. /\ IsRest(c.config.body) /\ Unchained(c.config.body)
        /\ IsRest(Builtin) /\ Unchained(Builtin)
    BY ConfigAssumption, BodyIsRest DEF IsCommand
  <2>2. IsEntry(base) /\ IsEntry(top) /\ Unchained(base.body) /\ Unchained(top.body)
    BY <2>1 DEF IsEntry
  <2> HIDE DEF base, top
  <2>3. /\ Len(stack') = 2 /\ DOMAIN stack' = 1..2 /\ stack'[1] = base /\ stack'[2] = top
        /\ stack' \in Seq({base, top})
    BY <1>2
  <2>4. StackTyped'
    BY <2>2, <2>3, SequenceOf DEF StackTyped
  <2>5. Top' = top
    BY <2>3 DEF Top
  <2>6. DeclaredTyped'
    <3>1. Unchained(Top'.body) /\ IsRest(Top'.body)
      BY <2>1, <2>2, <2>5 DEF top
    <3> QED
      BY <3>1, TailIsRest DEF DeclaredTyped, Unchained
  <2> QED
    BY <1>2, <2>4, <2>6 DEF LoadTyped, TasksTyped, PhaseTyped, Start
<1> QED
  BY <1>1, <1>2 DEF Start, loading

LEMMA DefineTyped ==
    ASSUME LoadTyped, Define
    PROVE  LoadTyped'
<1> DEFINE s == Head(Top.body)
<1>1. /\ StackTyped /\ stack # << >> /\ Top.body # << >> /\ TasksTyped /\ DeclaredTyped /\ PhaseTyped
      /\ UseDefinitions(s) /\ stack' = Consumed
      /\ UNCHANGED <<phase, setups, frames, globals>>
  BY DEF LoadTyped, Define
<1>2. /\ Depth \in Nat \ {0} /\ DOMAIN stack = 1..Depth /\ IsRest(Top.body) /\ Top = stack[Depth]
      /\ IsSequence(stack') /\ Len(stack') = Depth /\ DOMAIN stack' = 1..Depth
      /\ \A k \in 1..Depth : (k # Depth => stack'[k] = stack[k]) /\ IsEntry(stack'[k])
      /\ stack'[Depth].body = Tail(Top.body)
      /\ IsStatement(s)
  BY <1>1, TopTyped, ConsumedTyped DEF IsEntry
<1>3. StackTyped'
  BY <1>1, <1>2 DEF StackTyped, Depth
<1> HIDE DEF s
<1>4. TasksTyped' /\ declared' \in DOMAIN tasks'
  <2>1. CASE s.op = "task" /\ declared' = s.name
             /\ tasks' = With(tasks, s.name, IF s.name \in DOMAIN tasks THEN Override(tasks[s.name], s.action)
                                             ELSE EmptyDefinition(s.action))
    <3>1. s.name \in TaskName /\ s.action \in Action \cup {NoAction}
      BY <1>2, <2>1 DEF IsStatement
    <3>2. CASE s.name \in DOMAIN tasks
      <4>1. IsDefinition(Override(tasks[s.name], s.action))
        BY <1>1, <3>1, <3>2, Defined DEF TasksTyped
      <4> QED
        BY <1>1, <2>1, <3>1, <3>2, <4>1, WithTyped
    <3>3. CASE s.name \notin DOMAIN tasks
      <4>1. IsDefinition(EmptyDefinition(s.action))
        BY <3>1 DEF IsDefinition, EmptyDefinition
      <4> QED
        BY <1>1, <2>1, <3>1, <3>3, <4>1, WithTyped
    <3> QED
      BY <3>2, <3>3
  <2>2. ASSUME s.op \in {"add", "action"}
        PROVE  declared \in DOMAIN tasks /\ declared \in TaskName /\ IsDefinition(tasks[declared])
    BY <1>1, <2>2 DEF DeclaredTyped, TasksTyped, s
  <2>3. CASE s.op = "add" /\ tasks' = With(tasks, declared, AddParam(tasks[declared], s.call))
             /\ declared' = declared
    <3>1. IsDefinition(AddParam(tasks[declared], s.call))
      BY <2>2, <2>3, Defined
    <3> QED
      BY <1>1, <2>2, <2>3, <3>1, WithTyped
  <2>4. CASE s.op = "action" /\ tasks' = With(tasks, declared, SetAction(tasks[declared], s.action))
             /\ declared' = declared
    <3>1. s.action \in Action \cup {NoAction}
      BY <1>2, <2>4 DEF IsStatement
    <3>2. IsDefinition(SetAction(tasks[declared], s.action))
      BY <2>2, <2>4, <3>1, Defined
    <3> QED
      BY <1>1, <2>2, <2>4, <3>2, WithTyped
  <2> QED
    BY <1>1, <2>1, <2>3, <2>4 DEF UseDefinitions
<1>5. DeclaredTyped'
  BY <1>4 DEF DeclaredTyped
<1> QED
  BY <1>1, <1>2, <1>3, <1>4, <1>5, EmptyStack DEF LoadTyped, PhaseTyped

LEMMA UsePluginTyped ==
    ASSUME LoadTyped, UsePlugin
    PROVE  LoadTyped'
<1> DEFINE p == Head(Top.body).plugin
           e == [body |-> IF SetsUp(p) THEN Plugins[p].body ELSE << >>, plugin |-> p]
<1>1. /\ StackTyped /\ stack # << >> /\ Top.body # << >> /\ TasksTyped /\ PhaseTyped
      /\ Head(Top.body).op = "plugin"
      /\ UNCHANGED <<phase, tasks, declared, frames, globals>>
  BY DEF LoadTyped, UsePlugin
<1>2. /\ Depth \in Nat \ {0} /\ DOMAIN stack = 1..Depth /\ Top = stack[Depth]
      /\ IsSequence(Consumed) /\ Len(Consumed) = Depth /\ DOMAIN Consumed = 1..Depth
      /\ \A k \in 1..Depth : (k # Depth => Consumed[k] = stack[k]) /\ IsEntry(Consumed[k])
      /\ Consumed[Depth].body = Tail(Top.body) /\ Unchained(Tail(Top.body)) /\ IsRest(Tail(Top.body))
      /\ IsStatement(Head(Top.body))
      /\ phase = "loading"
  <2>1. /\ Depth \in Nat \ {0} /\ DOMAIN stack = 1..Depth /\ Top = stack[Depth]
        /\ phase = "loading"
    BY <1>1, TopTyped DEF PhaseTyped
  <2>2. /\ IsSequence(Consumed) /\ Len(Consumed) = Depth /\ DOMAIN Consumed = 1..Depth
        /\ \A k \in 1..Depth : (k # Depth => Consumed[k] = stack[k]) /\ IsEntry(Consumed[k])
    BY <1>1, ConsumedTyped
  <2>3. /\ Consumed[Depth] = [body |-> Tail(Top.body), plugin |-> Top.plugin]
        /\ IsStatement(Head(Top.body)) /\ Unchained(Tail(Top.body))
    BY <1>1, ConsumedTyped
  <2>4. IsEntry(Consumed[Depth])
    BY <2>1, <2>2
  <2>5. IsRest(Tail(Top.body))
    BY <2>3, <2>4 DEF IsEntry
  <2> QED
    BY <2>1, <2>2, <2>3, <2>5
<1>3. p \in DOMAIN Plugins
  BY <1>1, <1>2 DEF IsStatement
<1>4. ASSUME NEW b, IsRest(b), Unchained(b)
      PROVE  b # << >> => Head(b).op \notin {"add", "action"}
  BY <1>4, TailIsRest DEF Unchained
<1>5. CASE stack' = Consumed /\ setups' = setups
  <2>1. StackTyped'
    BY <1>1, <1>2, <1>5 DEF StackTyped, Depth
  <2>2. DeclaredTyped'
    BY <1>2, <1>4, <1>5 DEF DeclaredTyped, Top
  <2> QED
    BY <1>1, <1>2, <1>5, <2>1, <2>2 DEF LoadTyped, TasksTyped, PhaseTyped
<1>6. CASE stack' = Pushed(e) /\ setups' = [setups EXCEPT ![p] = IF SetsUp(p) THEN @ + 1 ELSE @]
  <2>1. IsEntry(e) /\ Unchained(e.body) /\ IsRest(e.body)
    <3>1. /\ IsRest(Plugins[p].body) /\ Unchained(Plugins[p].body)
          /\ Plugins[p].body \in Rest(Plugins[p].body) /\ << >> \in Rest(Plugins[p].body)
      BY <1>3, ConfigAssumption, BodyIsRest
    <3>2. IsRest(<< >>) /\ Unchained(<< >>)
      BY EmptyStack DEF IsRest, Unchained
    <3> QED
      BY <1>3, <3>1, <3>2 DEF IsEntry
  <2> HIDE DEF e
  <2>2. /\ IsSequence(stack') /\ Len(stack') = Depth + 1 /\ DOMAIN stack' = 1..(Depth + 1)
        /\ \A k \in 1..Depth : stack'[k] = Consumed[k]
        /\ stack'[Depth + 1] = e
    BY <1>1, <1>6, PushedTyped
  <2>3. ASSUME NEW k \in 1..Depth
        PROVE  IsEntry(stack'[k]) /\ Unchained(stack'[k].body)
    <3>1. stack'[k] = Consumed[k] /\ IsEntry(Consumed[k]) /\ k \in DOMAIN stack
      BY <1>2, <2>2
    <3>2. k # Depth => k < Depth /\ Consumed[k] = stack[k]
      BY <1>2
    <3>3. k # Depth => Unchained(stack[k].body)
      BY <1>1, <3>1, <3>2 DEF StackTyped, Depth
    <3> QED
      BY <1>2, <3>1, <3>2, <3>3
  <2>4. StackTyped'
    BY <1>2, <2>1, <2>2, <2>3 DEF StackTyped
  <2>5. DeclaredTyped'
    <3>1. Top' = e
      BY <2>2 DEF Top
    <3> QED
      BY <1>4, <2>1, <3>1 DEF DeclaredTyped
  <2>6. setups' \in [DOMAIN Plugins -> Nat]
    BY <1>1, <1>3, <1>6 DEF PhaseTyped
  <2> QED
    BY <1>1, <1>2, <1>6, <2>4, <2>5, <2>6 DEF LoadTyped, TasksTyped, PhaseTyped
<1> HIDE DEF p, e
<1> QED
  BY <1>5, <1>6 DEF UsePlugin, Pushed, p, e

LEMMA FileLoadedTyped ==
    ASSUME LoadTyped, FileLoaded
    PROVE  LoadTyped'
<1>1. /\ StackTyped /\ stack # << >> /\ stack' = Popped /\ TasksTyped /\ PhaseTyped
      /\ UNCHANGED <<phase, setups, tasks, declared, frames, globals>>
  BY DEF LoadTyped, FileLoaded, Popped
<1>2. /\ Depth \in Nat \ {0} /\ DOMAIN stack = 1..Depth /\ phase = "loading"
      /\ IsSequence(stack') /\ Len(stack') = Depth - 1 /\ DOMAIN stack' = 1..(Depth - 1)
      /\ \A k \in 1..(Depth - 1) : stack'[k] = stack[k]
  BY <1>1, TopTyped, PoppedTyped DEF PhaseTyped
<1>3. \A k \in 1..(Depth - 1) : IsEntry(stack'[k]) /\ Unchained(stack'[k].body)
  BY <1>1, <1>2 DEF StackTyped, Depth
<1>4. StackTyped'
  BY <1>2, <1>3 DEF StackTyped
<1>5. DeclaredTyped'
  <2>1. ASSUME stack' # << >>
        PROVE  IsRest(Top'.body) /\ Unchained(Top'.body)
    <3>1. Depth - 1 \in 1..(Depth - 1) /\ Top' = stack'[Depth - 1]
      BY <1>2, <2>1, ShortenedSequence DEF Top
    <3> QED
      BY <1>3, <3>1 DEF IsEntry
  <2> QED
    BY <2>1, TailIsRest DEF DeclaredTyped, Unchained
<1> QED
  BY <1>1, <1>2, <1>4, <1>5 DEF LoadTyped, TasksTyped, PhaseTyped

\* The steps that neither load nor end the process leave what was loaded alone.
LEMMA RunStepUnchanged ==
    ASSUME LoadTyped, RunCommand \/ Exit \/ \E f \in DOMAIN frames : Call(f) \/ Settle(f) \/ Return(f)
    PROVE  \/ \E outcome : Ends(outcome)
           \/ UNCHANGED loading /\ stack = << >> /\ phase' = "running"
<1>1. CASE RunCommand
  BY <1>1 DEF RunCommand
<1>2. CASE Exit
  BY <1>2 DEF Exit
<1>3. ASSUME NEW f \in DOMAIN frames, Call(f) \/ Settle(f) \/ Return(f)
      PROVE  UNCHANGED loading /\ phase' = phase /\ phase = "running" /\ stack = << >>
  <2>1. phase = "running" /\ stack = << >>
    BY <1>3, EmptyStack DEF LoadTyped, PhaseTyped
  <2> QED
    BY <1>3, <2>1 DEF Call, Settle, Return, Leave, Proceed
<1> QED
  BY <1>1, <1>2, <1>3

LEMMA LoadTypedStep ==
    ASSUME LoadTyped, [Next]_vars
    PROVE  LoadTyped'
<1>1. CASE \E c \in Commands : Start(c.config, c.line)
  BY <1>1, StartTyped
<1>2. CASE Define
  BY <1>2, DefineTyped
<1>3. CASE UsePlugin
  BY <1>3, UsePluginTyped
<1>4. CASE FileLoaded
  BY <1>4, FileLoadedTyped
<1>5. CASE LoadFails
  BY <1>5, EndsTyped DEF LoadFails
<1>6. CASE RunCommand \/ Exit \/ \E f \in DOMAIN frames : Call(f) \/ Settle(f) \/ Return(f)
  <2>1. CASE \E outcome : Ends(outcome)
    BY <2>1, EndsTyped
  <2>2. CASE UNCHANGED loading /\ stack = << >> /\ phase' = "running"
    <3>1. UNCHANGED <<stack, setups, tasks, declared>> /\ phase' = "running"
      BY <2>2 DEF loading
    <3> QED
      BY <2>2, <3>1 DEF LoadTyped, StackTyped, TasksTyped, DeclaredTyped, PhaseTyped, Top
  <2> QED
    BY <1>6, <2>1, <2>2, RunStepUnchanged
<1>7. CASE UNCHANGED vars
  BY <1>7 DEF LoadTyped, StackTyped, TasksTyped, DeclaredTyped, PhaseTyped, Top, vars, loading
<1> QED
  BY <1>1, <1>2, <1>3, <1>4, <1>5, <1>6, <1>7 DEF Next, Progress, Load

\* Whatever is loaded, the tasks have definitions with an action each, each chained call has
\* the definition that it is chained to, and nothing is left to load when a task runs
\* (core/tasks/dsl.ts, core/plugins.ts).
THEOREM LoadTypeCorrect == Spec => []LoadTyped
<1>1. Init => LoadTyped
  <2> SUFFICES ASSUME Init PROVE LoadTyped
    OBVIOUS
  <2>1. /\ stack = << >> /\ tasks = << >> /\ phase = "idle" /\ frames = << >> /\ globals = NoGlobals
        /\ setups = [p \in DOMAIN Plugins |-> 0]
    BY DEF Init
  <2>2. StackTyped /\ DeclaredTyped
    BY <2>1, EmptyStack DEF StackTyped, DeclaredTyped
  <2> QED
    BY <2>1, <2>2 DEF LoadTyped, TasksTyped, PhaseTyped
<1>2. LoadTyped /\ [Next]_vars => LoadTyped'
  BY LoadTypedStep
<1> QED
  BY <1>1, <1>2, PTL DEF Spec

-----------------------------------------------------------------------------
(* Plugins that use each other *)

LEMMA ReachesItself ==
    ASSUME NEW p
    PROVE  Reaches(p, p)
BY DEF Reaches

LEMMA ReachesUsed ==
    ASSUME NEW p \in DOMAIN Plugins, NEW q \in DOMAIN Plugins, NEW r \in Uses(q), Reaches(p, q)
    PROVE  Reaches(p, r)
BY DEF Reaches

LEMMA ReachesTransitive ==
    ASSUME NEW p, NEW q, NEW r, Reaches(p, q), Reaches(q, r)
    PROVE  Reaches(p, r)
BY DEF Reaches

\* A plugin that exports a function and is in no cycle with a plain module.
Lone(p) == p \in DOMAIN Plugins /\ Plugins[p].isFunction /\ ~Mixed(p)

LEMMA LoneCycle ==
    ASSUME NEW p, Lone(p), NEW q \in DOMAIN Plugins, Reaches(p, q), Reaches(q, p)
    PROVE  Lone(q)
<1>1. p \in DOMAIN Plugins /\ Plugins[p].isFunction = TRUE /\ ~Mixed(p)
      /\ Plugins[q].isFunction \in BOOLEAN
  BY ConfigAssumption DEF Lone
<1>2. Plugins[q].isFunction
  BY <1>1 DEF Mixed
<1>3. ASSUME NEW r \in DOMAIN Plugins, Plugins[r].isFunction # Plugins[q].isFunction,
             Reaches(q, r), Reaches(r, q)
      PROVE  FALSE
  <2>1. Reaches(p, r) /\ Reaches(r, p)
    BY <1>3, ReachesTransitive
  <2>2. Plugins[r].isFunction # Plugins[p].isFunction
    BY <1>1, <1>2, <1>3, ConfigAssumption
  <2> QED
    BY <1>1, <2>1, <2>2 DEF Mixed
<1> QED
  BY <1>2, <1>3 DEF Lone, Mixed

\* The files on the stack: the config and the built-in tasks at the bottom, then plugins
\* that each use the next.
Chained ==
    \A i, j \in DOMAIN stack : i < j =>
        /\ stack[j].plugin = NoName => stack[i].plugin = NoName
        /\ stack[i].plugin # NoName =>
               /\ Reaches(stack[i].plugin, stack[j].plugin)
               /\ j = i + 1 => stack[j].plugin \in Uses(stack[i].plugin)
\* Require runs the file of a plain module once.
RequiredOnce ==
    \A p \in DOMAIN Plugins : ~Plugins[p].isFunction =>
        setups[p] <= 1 /\ (p \notin required => setups[p] = 0)
OnStack(p) == {k \in DOMAIN stack : stack[k].plugin = p}
\* No plugin was set up twice: one that was required is loaded or being loaded.
Quiet ==
    \A p \in DOMAIN Plugins : Lone(p) =>
        /\ setups[p] <= 1
        /\ p \notin required => setups[p] = 0 /\ OnStack(p) = {}
        /\ p \in required => p \in loaded \/ OnStack(p) # {}
        /\ OnStack(p) # {} => p \notin loaded /\ \A i, j \in OnStack(p) : i = j
HasUse(b, C) == \E k \in DOMAIN b : b[k].op = "plugin" /\ b[k].plugin \in C
\* Plugins that use each other for ever: none of them gets loaded, since the one that is
\* highest on the stack has to use one of them before it is done.
Circular(C) ==
    /\ C \cap loaded = {}
    /\ \A c \in C : Plugins[c].isFunction /\ HasUse(Plugins[c].body, C)
    /\ \E t \in DOMAIN stack :
           /\ stack[t].plugin \in C /\ HasUse(stack[t].body, C)
           /\ \A u \in DOMAIN stack : u > t => stack[u].plugin \notin C
Doomed == \E C \in SUBSET DOMAIN Plugins : Circular(C)
PluginsInv == Chained /\ RequiredOnce /\ (Quiet \/ Doomed)

LEMMA PluginsInvOnce ==
    ASSUME LoadTyped, PluginsInv
    PROVE  PluginsOnce
<1> SUFFICES ASSUME phase = "running", NEW p \in DOMAIN Plugins, ~Mixed(p)
             PROVE  setups[p] <= 1
  BY DEF PluginsOnce
<1>1. DOMAIN stack = {}
  BY EmptyStack DEF LoadTyped, PhaseTyped
<1>2. ~Doomed
  BY <1>1 DEF Doomed, Circular
<1>3. CASE Plugins[p].isFunction
  BY <1>2, <1>3 DEF PluginsInv, Quiet, Lone
<1>4. CASE ~Plugins[p].isFunction
  BY <1>4 DEF PluginsInv, RequiredOnce
<1> QED
  BY <1>3, <1>4

LEMMA HasUseLater ==
    ASSUME NEW b, IsRest(b), NEW C, HasUse(b, C), b # << >>,
           ~(Head(b).op = "plugin" /\ Head(b).plugin \in C)
    PROVE  HasUse(Tail(b), C)
<1>1. /\ Head(b) = b[1] /\ Len(Tail(b)) = Len(b) - 1 /\ IsRest(Tail(b))
      /\ \A k \in 1..(Len(b) - 1) : Tail(b)[k] = b[k + 1]
  BY TailIsRest
<1>2. Len(b) \in Nat /\ DOMAIN b = 1..Len(b) /\ DOMAIN Tail(b) = 1..(Len(b) - 1)
  BY <1>1, SequenceDomain DEF IsRest
<1>3. PICK k \in DOMAIN b : b[k].op = "plugin" /\ b[k].plugin \in C
  BY DEF HasUse
<1>4. k # 1
  BY <1>1, <1>3
<1>5. k - 1 \in 1..(Len(b) - 1) /\ (k - 1) + 1 = k
  BY <1>2, <1>4
<1>6. Tail(b)[k - 1] = b[k]
  BY <1>1, <1>5
<1> QED
  BY <1>2, <1>3, <1>5, <1>6 DEF HasUse

\* A statement that is done leaves the plugins that are being loaded as they are.
LEMMA ConsumedInv ==
    ASSUME LoadTyped, PluginsInv, stack # << >>, Top.body # << >>, stack' = Consumed,
           UNCHANGED <<required, loaded, setups>>,
           Head(Top.body).op = "plugin" => Head(Top.body).plugin \in loaded
    PROVE  PluginsInv'
<1>1. /\ DOMAIN stack = 1..Depth /\ DOMAIN stack' = 1..Depth /\ IsEntry(Top) /\ Top = stack[Depth]
      /\ \A k \in 1..Depth : (k # Depth => stack'[k] = stack[k]) /\ stack'[k].plugin = stack[k].plugin
      /\ stack'[Depth].body = Tail(Top.body)
  BY TopTyped, ConsumedTyped DEF LoadTyped
<1>2. Chained'
  BY <1>1 DEF PluginsInv, Chained
<1>3. RequiredOnce'
  BY DEF PluginsInv, RequiredOnce
<1>4. ASSUME NEW p
      PROVE  OnStack(p)' = OnStack(p)
  BY <1>1 DEF OnStack
<1>5. Quiet => Quiet'
  BY <1>4 DEF Quiet
<1>6. ASSUME NEW C \in SUBSET DOMAIN Plugins, Circular(C)
      PROVE  Circular(C)'
  <2>1. PICK t \in DOMAIN stack : /\ stack[t].plugin \in C /\ HasUse(stack[t].body, C)
                                  /\ \A u \in DOMAIN stack : u > t => stack[u].plugin \notin C
    BY <1>6 DEF Circular
  <2>2. CASE t # Depth
    BY <1>1, <1>6, <2>1, <2>2 DEF Circular, HasUse
  <2>3. CASE t = Depth
    <3>1. ~(Head(Top.body).op = "plugin" /\ Head(Top.body).plugin \in C)
      BY <1>6 DEF Circular
    <3>2. HasUse(Tail(Top.body), C)
      BY <1>1, <2>1, <2>3, <3>1, HasUseLater DEF IsEntry
    <3> QED
      BY <1>1, <1>6, <2>1, <2>3, <3>2 DEF Circular
  <2> QED
    BY <2>2, <2>3
<1>7. Doomed => Doomed'
  BY <1>6 DEF Doomed
<1> QED
  BY <1>2, <1>3, <1>5, <1>7 DEF PluginsInv

LEMMA NothingLoadedInv ==
    ASSUME NEW outcome, Ends(outcome)
    PROVE  PluginsInv'
<1>1. /\ DOMAIN stack' = {} /\ required' = {} /\ setups' = [p \in DOMAIN Plugins |-> 0]
  BY EmptyStack DEF Ends
<1> QED
  BY <1>1 DEF PluginsInv, Chained, RequiredOnce, Quiet, OnStack

LEMMA StartInv ==
    ASSUME LoadTyped, PluginsInv, NEW c \in Commands, Start(c.config, c.line)
    PROVE  PluginsInv'
<1> DEFINE base == [body |-> c.config.body, plugin |-> NoName]
           top  == [body |-> Builtin, plugin |-> NoName]
<1>1. UNCHANGED <<required, loaded, setups>> /\ (stack' = stack \/ stack' = <<base, top>>)
  BY DEF Start, loading
<1>2. CASE stack' = stack
  BY <1>1, <1>2 DEF PluginsInv, Chained, RequiredOnce, Quiet, OnStack, Doomed, Circular
<1>3. CASE stack' = <<base, top>>
  <2>1. DOMAIN stack = {}
    BY EmptyStack DEF Start, LoadTyped, PhaseTyped
  <2>2. Quiet
    BY <2>1 DEF PluginsInv, Doomed, Circular
  <2>3. DOMAIN stack' = 1..2 /\ \A k \in 1..2 : stack'[k].plugin = NoName
    BY <1>3
  <2>4. ASSUME NEW p \in DOMAIN Plugins
        PROVE  OnStack(p) = {} /\ OnStack(p)' = {}
    BY <2>1, <2>3, ConfigAssumption DEF OnStack
  <2>5. Quiet'
    BY <1>1, <2>2, <2>4 DEF Quiet, Lone
  <2>6. Chained'
    BY <2>3 DEF Chained
  <2> QED
    BY <1>1, <2>5, <2>6 DEF PluginsInv, RequiredOnce
<1> QED
  BY <1>1, <1>2, <1>3

\* A file that is done.
LEMMA FileLoadedInv ==
    ASSUME LoadTyped, PluginsInv, FileLoaded
    PROVE  PluginsInv'
<1>1. /\ Depth \in Nat \ {0} /\ DOMAIN stack = 1..Depth /\ DOMAIN stack' = 1..(Depth - 1)
      /\ Top = stack[Depth] /\ IsEntry(Top) /\ Top.body = << >>
      /\ \A k \in 1..(Depth - 1) : stack'[k] = stack[k]
      /\ UNCHANGED <<required, setups>>
  BY TopTyped, PoppedTyped DEF LoadTyped, FileLoaded, Popped
<1>2. loaded' = IF Top.plugin = NoName THEN loaded ELSE loaded \cup {Top.plugin}
  BY DEF FileLoaded
<1>3. Chained'
  BY <1>1 DEF PluginsInv, Chained
<1>4. RequiredOnce'
  BY <1>1 DEF PluginsInv, RequiredOnce
<1>5. ASSUME NEW p \in DOMAIN Plugins
      PROVE  OnStack(p)' = OnStack(p) \ {Depth} /\ (Depth \in OnStack(p) <=> p = Top.plugin)
  BY <1>1 DEF OnStack
<1>6. ASSUME Quiet
      PROVE  Quiet'
  <2> SUFFICES ASSUME NEW p \in DOMAIN Plugins, Lone(p)
               PROVE  /\ setups[p] <= 1
                      /\ p \notin required => setups[p] = 0 /\ OnStack(p)' = {}
                      /\ p \in required => p \in loaded' \/ OnStack(p)' # {}
                      /\ OnStack(p)' # {} => p \notin loaded' /\ \A i, j \in OnStack(p)' : i = j
    BY <1>1 DEF Quiet, Lone
  <2>1. /\ setups[p] <= 1
        /\ p \notin required => setups[p] = 0 /\ OnStack(p) = {}
        /\ p \in required => p \in loaded \/ OnStack(p) # {}
        /\ OnStack(p) # {} => p \notin loaded /\ \A i, j \in OnStack(p) : i = j
    BY <1>6 DEF Quiet
  <2>2. NoName # p
    BY ConfigAssumption
  <2>3. CASE p = Top.plugin
    BY <1>2, <1>5, <2>1, <2>2, <2>3
  <2>4. CASE p # Top.plugin
    BY <1>2, <1>5, <2>1, <2>4
  <2> QED
    BY <2>3, <2>4
<1>7. ASSUME NEW C \in SUBSET DOMAIN Plugins, Circular(C)
      PROVE  Circular(C)'
  <2>1. PICK t \in DOMAIN stack : /\ stack[t].plugin \in C /\ HasUse(stack[t].body, C)
                                  /\ \A u \in DOMAIN stack : u > t => stack[u].plugin \notin C
    BY <1>7 DEF Circular
  <2>2. t # Depth
    BY <1>1, <2>1, EmptyStack DEF HasUse
  <2>3. Top.plugin \notin C
    <3>1. Depth > t /\ Depth \in DOMAIN stack
      BY <1>1, <2>2
    <3> QED
      BY <1>1, <2>1, <3>1
  <2>4. C \cap loaded' = {}
    BY <1>2, <1>7, <2>3 DEF Circular
  <2>5. t \in DOMAIN stack' /\ stack'[t] = stack[t] /\ \A u \in DOMAIN stack' : stack'[u] = stack[u]
    BY <1>1, <2>2
  <2>6. \A u \in DOMAIN stack' : u \in DOMAIN stack
    BY <1>1
  <2> QED
    BY <1>7, <2>1, <2>4, <2>5, <2>6 DEF Circular
<1>8. Doomed => Doomed'
  BY <1>7 DEF Doomed
<1> QED
  BY <1>3, <1>4, <1>6, <1>8 DEF PluginsInv

\* The file of the plugin p goes on the stack.
Using(p) ==
    /\ p \in DOMAIN Plugins /\ p \notin loaded
    /\ stack # << >> /\ Top.body # << >> /\ Head(Top.body).op = "plugin" /\ Head(Top.body).plugin = p
    /\ stack' = Pushed([body |-> IF SetsUp(p) THEN Plugins[p].body ELSE << >>, plugin |-> p])
    /\ required' = required \cup {p} /\ loaded' = loaded
    /\ setups' = [setups EXCEPT ![p] = IF SetsUp(p) THEN @ + 1 ELSE @]

LEMMA UsingStack ==
    ASSUME LoadTyped, NEW p, Using(p)
    PROVE  /\ Depth \in Nat \ {0} /\ DOMAIN stack = 1..Depth /\ DOMAIN stack' = 1..(Depth + 1)
           /\ Top = stack[Depth] /\ IsEntry(Top)
           /\ \A k \in 1..Depth : /\ k # Depth => stack'[k] = stack[k]
                                  /\ stack'[k].plugin = stack[k].plugin
                                  /\ IsEntry(stack[k])
           /\ stack'[Depth].body = Tail(Top.body)
           /\ stack'[Depth + 1].plugin = p
           /\ SetsUp(p) => stack'[Depth + 1].body = Plugins[p].body
           /\ Top.plugin # NoName => p \in Uses(Top.plugin)
<1>1. /\ StackTyped /\ stack # << >> /\ Top.body # << >> /\ p \in DOMAIN Plugins
      /\ Head(Top.body).op = "plugin" /\ Head(Top.body).plugin = p
      /\ stack' = Pushed([body |-> IF SetsUp(p) THEN Plugins[p].body ELSE << >>, plugin |-> p])
  BY DEF Using, LoadTyped
<1>2. /\ Depth \in Nat \ {0} /\ DOMAIN stack = 1..Depth /\ Top = stack[Depth] /\ IsEntry(Top)
      /\ \A k \in 1..Depth : IsEntry(stack[k])
  BY <1>1, TopTyped DEF StackTyped
<1>3. /\ \A k \in 1..Depth : /\ k # Depth => Consumed[k] = stack[k]
                             /\ Consumed[k].plugin = stack[k].plugin
      /\ Consumed[Depth].body = Tail(Top.body)
      /\ Top.plugin # NoName =>
             Head(Top.body) \in {Plugins[Top.plugin].body[k] : k \in DOMAIN Plugins[Top.plugin].body}
  <2>1. /\ \A k \in 1..Depth : /\ k # Depth => Consumed[k] = stack[k]
                               /\ Consumed[k].plugin = stack[k].plugin
        /\ Consumed[Depth] = [body |-> Tail(Top.body), plugin |-> Top.plugin]
    BY <1>1, ConsumedTyped
  <2>2. Top.plugin # NoName =>
            Head(Top.body) \in {Plugins[Top.plugin].body[k] : k \in DOMAIN Plugins[Top.plugin].body}
    BY <1>1, ConsumedTyped
  <2> QED
    BY <2>1, <2>2
<1>4. /\ DOMAIN stack' = 1..(Depth + 1) /\ \A k \in 1..Depth : stack'[k] = Consumed[k]
      /\ stack'[Depth + 1] = [body |-> IF SetsUp(p) THEN Plugins[p].body ELSE << >>, plugin |-> p]
  BY <1>1, PushedTyped
<1>5. Top.plugin # NoName => p \in Uses(Top.plugin)
  BY <1>1, <1>3 DEF Uses
<1>6. Depth \in 1..Depth
  BY <1>2
<1> QED
  BY <1>2, <1>3, <1>4, <1>5, <1>6

\* What is on the stack above a plugin, and what that uses, can be reached from it.
LEMMA AboveReached ==
    ASSUME LoadTyped, Chained, NEW p, Using(p), NEW k \in 1..Depth, stack[k].plugin # NoName
    PROVE  /\ stack[k].plugin \in DOMAIN Plugins /\ Reaches(stack[k].plugin, p)
           /\ \A j \in k..Depth : stack[j].plugin # NoName /\ Reaches(stack[k].plugin, stack[j].plugin)
           /\ Top.plugin # NoName
<1>1. /\ Depth \in Nat \ {0} /\ DOMAIN stack = 1..Depth /\ Top = stack[Depth]
      /\ \A j \in 1..Depth : IsEntry(stack[j])
      /\ Top.plugin # NoName => p \in Uses(Top.plugin)
  BY UsingStack
<1>2. \A j \in k..Depth : stack[j].plugin # NoName /\ Reaches(stack[k].plugin, stack[j].plugin)
  BY <1>1, ReachesItself DEF Chained
<1>3. Depth \in k..Depth /\ Depth \in 1..Depth
  BY <1>1
<1>4. Top.plugin # NoName /\ Reaches(stack[k].plugin, Top.plugin)
  BY <1>1, <1>2, <1>3
<1>5. stack[k].plugin \in DOMAIN Plugins /\ Top.plugin \in DOMAIN Plugins
  BY <1>1, <1>3, <1>4 DEF IsEntry
<1>6. Reaches(stack[k].plugin, p)
  BY <1>1, <1>4, <1>5, ReachesUsed
<1> QED
  BY <1>2, <1>4, <1>5, <1>6

LEMMA UsingChained ==
    ASSUME LoadTyped, Chained, NEW p, Using(p)
    PROVE  Chained'
<1>1. /\ Depth \in Nat \ {0} /\ DOMAIN stack = 1..Depth /\ DOMAIN stack' = 1..(Depth + 1)
      /\ Top = stack[Depth]
      /\ \A k \in 1..Depth : stack'[k].plugin = stack[k].plugin
      /\ stack'[Depth + 1].plugin = p
      /\ Top.plugin # NoName => p \in Uses(Top.plugin)
      /\ p # NoName
  BY UsingStack, ConfigAssumption DEF Using
<1> SUFFICES ASSUME NEW i \in DOMAIN stack', NEW j \in DOMAIN stack', i < j
             PROVE  /\ stack'[j].plugin = NoName => stack'[i].plugin = NoName
                    /\ stack'[i].plugin # NoName =>
                           /\ Reaches(stack'[i].plugin, stack'[j].plugin)
                           /\ j = i + 1 => stack'[j].plugin \in Uses(stack'[i].plugin)
  BY DEF Chained
<1>2. CASE j # Depth + 1
  <2>1. i \in DOMAIN stack /\ j \in DOMAIN stack
    BY <1>1, <1>2
  <2>2. stack'[i].plugin = stack[i].plugin /\ stack'[j].plugin = stack[j].plugin
    BY <1>1, <2>1
  <2> QED
    BY <2>1, <2>2 DEF Chained
<1>3. CASE j = Depth + 1
  <2>1. i \in 1..Depth /\ stack'[i].plugin = stack[i].plugin
    BY <1>1, <1>3
  <2>2. stack[i].plugin # NoName => Reaches(stack[i].plugin, p) /\ Top.plugin # NoName
    BY <2>1, AboveReached
  <2>3. j = i + 1 => stack[i] = Top
    BY <1>1, <1>3, <2>1
  <2> QED
    BY <1>1, <1>3, <2>1, <2>2, <2>3
<1> QED
  BY <1>2, <1>3

LEMMA UsingRequired ==
    ASSUME LoadTyped, RequiredOnce, NEW p, Using(p)
    PROVE  RequiredOnce'
<1>1. /\ p \in DOMAIN Plugins /\ setups \in [DOMAIN Plugins -> Nat]
      /\ setups' = [setups EXCEPT ![p] = IF SetsUp(p) THEN @ + 1 ELSE @]
      /\ required' = required \cup {p}
  BY DEF Using, LoadTyped, PhaseTyped
<1> SUFFICES ASSUME NEW q \in DOMAIN Plugins, ~Plugins[q].isFunction
             PROVE  setups'[q] <= 1 /\ (q \notin required' => setups'[q] = 0)
  BY DEF RequiredOnce
<1>2. setups[q] \in Nat /\ setups[q] <= 1 /\ (q \notin required => setups[q] = 0)
  BY <1>1 DEF RequiredOnce
<1> QED
  BY <1>1, <1>2 DEF SetsUp

LEMMA UsingDoomed ==
    ASSUME LoadTyped, NEW p, Using(p), NEW C \in SUBSET DOMAIN Plugins, Circular(C)
    PROVE  Circular(C)'
<1>1. /\ Depth \in Nat \ {0} /\ DOMAIN stack = 1..Depth /\ DOMAIN stack' = 1..(Depth + 1)
      /\ Top = stack[Depth] /\ IsEntry(Top)
      /\ \A k \in 1..Depth : /\ k # Depth => stack'[k] = stack[k]
                             /\ stack'[k].plugin = stack[k].plugin
      /\ stack'[Depth].body = Tail(Top.body)
      /\ stack'[Depth + 1].plugin = p
      /\ SetsUp(p) => stack'[Depth + 1].body = Plugins[p].body
  BY UsingStack
<1>2. loaded' = loaded /\ Head(Top.body).plugin = p /\ Top.body # << >>
  BY DEF Using
<1>3. PICK t \in DOMAIN stack : /\ stack[t].plugin \in C /\ HasUse(stack[t].body, C)
                                /\ \A u \in DOMAIN stack : u > t => stack[u].plugin \notin C
  BY DEF Circular
<1>4. CASE p \in C
  <2>1. SetsUp(p) /\ HasUse(Plugins[p].body, C)
    BY <1>4 DEF Circular, SetsUp
  <2>2. Depth + 1 \in DOMAIN stack' /\ \A u \in DOMAIN stack' : ~(u > Depth + 1)
    BY <1>1
  <2> QED
    BY <1>1, <1>2, <1>4, <2>1, <2>2 DEF Circular
<1>5. CASE p \notin C
  <2>1. t \in DOMAIN stack' /\ stack'[t].plugin \in C
    BY <1>1, <1>3
  <2>2. HasUse(stack'[t].body, C)
    <3>1. CASE t = Depth
      BY <1>1, <1>2, <1>3, <1>5, <3>1, HasUseLater DEF IsEntry
    <3>2. CASE t # Depth
      BY <1>1, <1>3, <3>2
    <3> QED
      BY <3>1, <3>2
  <2>3. \A u \in DOMAIN stack' : u > t => stack'[u].plugin \notin C
    BY <1>1, <1>3, <1>5
  <2> QED
    BY <1>2, <2>1, <2>2, <2>3 DEF Circular
<1> QED
  BY <1>4, <1>5

\* A plugin that is used while it is being loaded is in a cycle with all that is above it.
LEMMA UsingAgain ==
    ASSUME LoadTyped, Chained, Quiet, NEW p, Using(p), Lone(p), NEW i \in OnStack(p)
    PROVE  Doomed'
<1>0. PICK C : C = {stack[j].plugin : j \in i..Depth}
  OBVIOUS
<1>1. /\ Depth \in Nat \ {0} /\ DOMAIN stack = 1..Depth /\ DOMAIN stack' = 1..(Depth + 1)
      /\ Top = stack[Depth]
      /\ stack'[Depth + 1].plugin = p
      /\ SetsUp(p) => stack'[Depth + 1].body = Plugins[p].body
      /\ Top.plugin # NoName => p \in Uses(Top.plugin)
  BY UsingStack
<1>2. i \in 1..Depth /\ stack[i].plugin = p /\ p \in DOMAIN Plugins /\ p # NoName /\ loaded' = loaded
  BY <1>1, ConfigAssumption DEF OnStack, Using
<1>3. ASSUME NEW j \in i..Depth
      PROVE  /\ stack[j].plugin \in DOMAIN Plugins /\ Lone(stack[j].plugin)
             /\ stack[j].plugin \notin loaded
             /\ HasUse(Plugins[stack[j].plugin].body, C)
  <2>1. j \in 1..Depth /\ j \in DOMAIN stack
    BY <1>1, <1>2
  <2>2. stack[j].plugin # NoName /\ Reaches(p, stack[j].plugin)
    BY <1>2, AboveReached
  <2>3. stack[j].plugin \in DOMAIN Plugins /\ Reaches(stack[j].plugin, p)
    BY <2>1, <2>2, AboveReached
  <2>4. Lone(stack[j].plugin)
    BY <2>2, <2>3, LoneCycle
  <2>5. stack[j].plugin \notin loaded
    BY <2>1, <2>3, <2>4 DEF Quiet, OnStack
  <2>6. \E q \in C : q \in Uses(stack[j].plugin)
    <3>1. CASE j = Depth
      <4>1. stack[i].plugin \in C
        BY <1>0, <1>1, <1>2
      <4> QED
        BY <1>1, <1>2, <2>2, <3>1, <4>1
    <3>2. CASE j # Depth
      <4>1. j + 1 \in i..Depth /\ j + 1 \in DOMAIN stack /\ j < j + 1
        BY <1>1, <1>2, <3>2
      <4>2. stack[j + 1].plugin \in Uses(stack[j].plugin)
        BY <2>1, <2>2, <4>1 DEF Chained
      <4> QED
        BY <1>0, <4>1, <4>2
    <3> QED
      BY <3>1, <3>2
  <2> QED
    BY <2>3, <2>4, <2>5, <2>6 DEF Uses, HasUse
<1>4. p \in C
  BY <1>0, <1>1, <1>2
<1>5. ASSUME NEW c \in C
      PROVE  c \in DOMAIN Plugins /\ Lone(c) /\ c \notin loaded /\ HasUse(Plugins[c].body, C)
  BY <1>0, <1>3
<1>6. Plugins[p].isFunction /\ stack'[Depth + 1].body = Plugins[p].body
  BY <1>1, <1>4, <1>5 DEF Lone, SetsUp
<1>7. Depth + 1 \in DOMAIN stack' /\ \A u \in DOMAIN stack' : ~(u > Depth + 1)
  BY <1>1
<1>8. Circular(C)'
  <2>1. C \cap loaded' = {} /\ \A c \in C : Plugins[c].isFunction /\ HasUse(Plugins[c].body, C)
    BY <1>2, <1>5 DEF Lone
  <2>2. stack'[Depth + 1].plugin \in C /\ HasUse(stack'[Depth + 1].body, C)
    BY <1>1, <1>4, <1>5, <1>6
  <2> QED
    BY <1>7, <2>1, <2>2 DEF Circular
<1>9. C \in SUBSET DOMAIN Plugins
  BY <1>5
<1> QED
  BY <1>8, <1>9 DEF Doomed

LEMMA UsingQuiet ==
    ASSUME LoadTyped, Quiet, NEW p, Using(p), Lone(p) => OnStack(p) = {}
    PROVE  Quiet'
<1>1. /\ Depth \in Nat \ {0} /\ DOMAIN stack = 1..Depth /\ DOMAIN stack' = 1..(Depth + 1)
      /\ \A k \in 1..Depth : stack'[k].plugin = stack[k].plugin
      /\ stack'[Depth + 1].plugin = p
  BY UsingStack
<1>2. /\ p \in DOMAIN Plugins /\ p \notin loaded /\ loaded' = loaded /\ required' = required \cup {p}
      /\ setups \in [DOMAIN Plugins -> Nat]
      /\ setups' = [setups EXCEPT ![p] = IF SetsUp(p) THEN @ + 1 ELSE @]
  BY DEF Using, LoadTyped, PhaseTyped
<1> SUFFICES ASSUME NEW q \in DOMAIN Plugins, Lone(q)
             PROVE  /\ setups'[q] <= 1
                    /\ q \notin required' => setups'[q] = 0 /\ OnStack(q)' = {}
                    /\ q \in required' => q \in loaded' \/ OnStack(q)' # {}
                    /\ OnStack(q)' # {} => q \notin loaded' /\ \A i, j \in OnStack(q)' : i = j
  BY DEF Quiet, Lone
<1>3. /\ setups[q] <= 1
      /\ q \notin required => setups[q] = 0 /\ OnStack(q) = {}
      /\ q \in required => q \in loaded \/ OnStack(q) # {}
      /\ OnStack(q) # {} => q \notin loaded /\ \A i, j \in OnStack(q) : i = j
  BY DEF Quiet
<1>4. CASE q # p
  <2>1. OnStack(q)' = OnStack(q)
    BY <1>1, <1>4 DEF OnStack
  <2>2. setups'[q] = setups[q]
    BY <1>2, <1>4
  <2> QED
    BY <1>2, <1>3, <1>4, <2>1, <2>2
<1>5. CASE q = p
  <2>1. OnStack(q) = {} /\ q \notin required
    BY <1>2, <1>3, <1>5
  <2>2. OnStack(q)' = {Depth + 1}
    BY <1>1, <1>5, <2>1 DEF OnStack
  <2>3. setups'[q] \in {0, 1}
    BY <1>2, <1>3, <1>5, <2>1
  <2> QED
    BY <1>2, <1>5, <2>2, <2>3
<1> QED
  BY <1>4, <1>5

LEMMA UsePluginInv ==
    ASSUME LoadTyped, PluginsInv, UsePlugin
    PROVE  PluginsInv'
<1> DEFINE p == Head(Top.body).plugin
<1>1. stack # << >> /\ Top.body # << >> /\ Head(Top.body).op = "plugin" /\ loaded' = loaded
  BY DEF UsePlugin
<1>2. p \in DOMAIN Plugins
  BY <1>1, ConsumedTyped DEF LoadTyped, IsStatement
<1>3. CASE p \in loaded
  <2>1. stack' = Consumed /\ UNCHANGED <<required, setups>>
    BY <1>3 DEF UsePlugin
  <2> QED
    BY <1>1, <1>3, <2>1, ConsumedInv
<1>4. CASE p \notin loaded
  <2>1. Using(p)
    BY <1>1, <1>2, <1>4 DEF UsePlugin, Using, Pushed
  <2> HIDE DEF p
  <2>2. Chained' /\ RequiredOnce'
    BY <2>1, UsingChained, UsingRequired DEF PluginsInv
  <2>3. Quiet' \/ Doomed'
    <3>1. CASE Doomed
      BY <2>1, <3>1, UsingDoomed DEF Doomed
    <3>2. CASE Quiet /\ Lone(p) /\ OnStack(p) # {}
      BY <2>1, <3>2, UsingAgain DEF PluginsInv
    <3>3. CASE Quiet /\ ~(Lone(p) /\ OnStack(p) # {})
      BY <2>1, <3>3, UsingQuiet
    <3> QED
      BY <3>1, <3>2, <3>3 DEF PluginsInv
  <2> QED
    BY <2>2, <2>3 DEF PluginsInv
<1> QED
  BY <1>3, <1>4

LEMMA PluginsInvStep ==
    ASSUME LoadTyped, PluginsInv, [Next]_vars
    PROVE  PluginsInv'
<1>1. CASE \E c \in Commands : Start(c.config, c.line)
  BY <1>1, StartInv
<1>2. CASE Define
  <2>1. /\ stack # << >> /\ Top.body # << >> /\ stack' = Consumed
        /\ Head(Top.body).op # "plugin" /\ UNCHANGED <<required, loaded, setups>>
    BY <1>2 DEF Define, UseDefinitions
  <2> QED
    BY <2>1, ConsumedInv
<1>3. CASE UsePlugin
  BY <1>3, UsePluginInv
<1>4. CASE FileLoaded
  BY <1>4, FileLoadedInv
<1>5. CASE LoadFails
  BY <1>5, NothingLoadedInv DEF LoadFails
<1>6. CASE UNCHANGED loading
  <2>1. UNCHANGED <<stack, required, loaded, setups>>
    BY <1>6 DEF loading
  <2> QED
    BY <2>1 DEF PluginsInv, Chained, RequiredOnce, Quiet, OnStack, Doomed, Circular
<1>7. CASE RunCommand \/ Exit \/ \E f \in DOMAIN frames : Call(f) \/ Settle(f) \/ Return(f)
  BY <1>6, <1>7, RunStepUnchanged, NothingLoadedInv
<1>8. CASE UNCHANGED vars
  BY <1>6, <1>8 DEF vars
<1> QED
  BY <1>1, <1>2, <1>3, <1>4, <1>5, <1>7, <1>8 DEF Next, Progress, Load

\* However the config and its plugins use each other, a task runs in an environment where
\* each plugin was set up at most once, but for the cycles of a function with a plain
\* module: plugins that set each other up again never let the process run a task
\* (plugins.ts:74-94, 124-136).
THEOREM PluginsSetUpOnce == Spec => []PluginsOnce
<1>1. Init => PluginsInv
  <2> SUFFICES ASSUME Init PROVE PluginsInv
    OBVIOUS
  <2>1. DOMAIN stack = {} /\ required = {} /\ setups = [p \in DOMAIN Plugins |-> 0]
    BY EmptyStack DEF Init
  <2> QED
    BY <2>1 DEF PluginsInv, Chained, RequiredOnce, Quiet, OnStack
<1>2. LoadTyped /\ PluginsInv /\ [Next]_vars => PluginsInv'
  BY PluginsInvStep
<1>3. LoadTyped /\ PluginsInv => PluginsOnce
  BY PluginsInvOnce
<1> QED
  BY <1>1, <1>2, <1>3, LoadTypeCorrect, PTL DEF Spec

-----------------------------------------------------------------------------
(* The runs of tasks *)

\* The least element of a set of natural numbers, and the greatest of a bounded one.
Less == {pair \in Nat \X Nat : pair[1] < pair[2]}
LEMMA LeastNatural ==
    ASSUME NEW S \in SUBSET Nat, S # {}
    PROVE  \E n \in S : \A m \in S : n <= m
<1>1. IsWellFoundedOn(Less, Nat)
  BY NatLessThanWellFounded DEF OpToRel, Less
<1>2. PICK n \in S : \A m \in S : <<m, n>> \notin Less
  BY <1>1, WFMin
<1>3. ASSUME NEW m \in S PROVE n <= m
  <2>1. <<m, n>> \in Nat \X Nat
    OBVIOUS
  <2>2. ~(<<m, n>>[1] < <<m, n>>[2])
    BY <1>2, <2>1 DEF Less
  <2> QED
    BY <2>2
<1> QED
  BY <1>3

LEMMA GreatestNatural ==
    ASSUME NEW top \in Nat, NEW S \in SUBSET (0..top), S # {}
    PROVE  \E n \in S : \A m \in S : m <= n
<1> DEFINE T == {top - m : m \in S}
<1>1. T \in SUBSET Nat /\ T # {}
  <2>1. PICK s \in S : TRUE
    OBVIOUS
  <2>2. \A m \in S : top - m \in Nat
    OBVIOUS
  <2>3. top - s \in T
    BY <2>1
  <2> QED
    BY <2>2, <2>3
<1>2. PICK t \in T : \A u \in T : t <= u
  BY <1>1, LeastNatural
<1>3. PICK n \in S : t = top - n
  OBVIOUS
<1>4. ASSUME NEW m \in S PROVE m <= n
  <2>1. top - n <= top - m
    BY <1>2, <1>3
  <2> QED
    BY <2>1
<1> QED
  BY <1>4

LEMMA ActionTyped ==
    ASSUME NEW def, IsDefinition(def), NEW layer \in 1..Len(def.layers)
    PROVE  ActionOf(def, layer) \in Action \cup {NoAction}
<1> DEFINE set == {l \in 1..layer : def.layers[l] # NoAction}
<1>1. /\ def.layers \in Seq(Action \cup {NoAction}) /\ Len(def.layers) \in Nat
      /\ DOMAIN def.layers = 1..Len(def.layers) /\ layer \in Nat
  BY DEF IsDefinition
<1>2. CASE set = {}
  BY <1>2 DEF ActionOf
<1>3. CASE set # {}
  <2>1. set \in SUBSET (0..layer)
    BY <1>1
  <2>2. \E l \in set : \A m \in set : m <= l
    BY <1>1, <1>3, <2>1, GreatestNatural
  <2>3. (CHOOSE l \in set : \A m \in set : m <= l) \in set
    BY <2>2
  <2>4. set \subseteq DOMAIN def.layers
    BY <1>1
  <2> HIDE DEF set
  <2>5. def.layers[CHOOSE l \in set : \A m \in set : m <= l] \in Action \cup {NoAction}
    BY <1>1, <2>3, <2>4
  <2> QED
    BY <1>3, <2>5 DEF ActionOf, set
<1> QED
  BY <1>2, <1>3

\* A run, its task and the definition of it that it runs.
IsRun(r) ==
    r = [task |-> r.task, layer |-> r.layer, args |-> r.args, parent |-> r.parent, by |-> r.by,
         pc |-> r.pc, children |-> r.children, saved |-> r.saved, status |-> r.status]
IsDefinedRun(r) ==
    IF r.task = NoName THEN r.status = "threw"
    ELSE r.task \in DOMAIN tasks /\ r.layer \in 1..Len(tasks[r.task].layers)
\* The runSuper in the globals is that of a run that was started.
IsSuper(g, runs) == g.super = 0 \/ (g.super \in DOMAIN runs /\ runs[g.super].task # NoName)
IsRunAt(runs, f) ==
    /\ IsRun(runs[f]) /\ IsDefinedRun(runs[f])
    /\ runs[f].parent \in Nat /\ runs[f].parent < f /\ (f # 1 => runs[f].parent # 0)
    /\ runs[f].pc \in Nat \ {0}
    /\ runs[f].status \in {"open", "returned", "threw"}
    /\ IsSequence(runs[f].children)
    /\ \A k \in DOMAIN runs[f].children : runs[f].children[k] \in DOMAIN runs /\ runs[f].children[k] > f
    /\ IsSuper(runs[f].saved, runs)
RunsTyped ==
    /\ IsSequence(frames)
    /\ \A f \in DOMAIN frames : IsRunAt(frames, f)
    /\ IsSuper(globals, frames)

LEMMA CallsTyped ==
    ASSUME LoadTyped, RunsTyped, NEW f \in DOMAIN frames, frames[f].task # NoName
    PROVE  /\ IsSequence(CallsOf(f))
           /\ \A k \in DOMAIN CallsOf(f) : CallsOf(f)[k].op = "run" => IsSequence(CallsOf(f)[k].runs)
<1>1. /\ frames[f].task \in DOMAIN tasks /\ frames[f].layer \in 1..Len(tasks[frames[f].task].layers)
      /\ IsDefinition(tasks[frames[f].task])
  BY DEF RunsTyped, IsRunAt, IsDefinedRun, LoadTyped, TasksTyped
<1>2. ActionAt(f) \in Action \cup {NoAction}
  BY <1>1, ActionTyped DEF ActionAt
<1>3. CASE ActionAt(f) = NoAction
  <2>1. CallsOf(f) = <<[op |-> "throw", caught |-> FALSE]>>
    BY <1>3 DEF CallsOf
  <2>2. CallsOf(f) \in Seq({[op |-> "throw", caught |-> FALSE]})
    BY <2>1
  <2>3. IsSequence(CallsOf(f))
    BY <2>2, SequenceOf
  <2>4. \A k \in DOMAIN CallsOf(f) : CallsOf(f)[k].op # "run"
    BY <2>1
  <2> QED
    BY <2>3, <2>4
<1>4. CASE ActionAt(f) # NoAction
  BY <1>2, <1>4, BodyAssumption DEF CallsOf, IsCall
<1> QED
  BY <1>3, <1>4

-----------------------------------------------------------------------------
\* What a call runs.
IsTarget(t) ==
    /\ t.ok \in BOOLEAN
    /\ t.ok => t.task # NoName /\ t.task \in DOMAIN tasks /\ t.layer \in 1..Len(tasks[t.task].layers)

LEMMA RunOfTyped ==
    ASSUME LoadTyped, NEW target
    PROVE  IsTarget(RunOf(target))
<1>1. CASE target.task \notin DOMAIN tasks
  BY <1>1 DEF RunOf, IsTarget
<1>2. CASE target.task \in DOMAIN tasks
  <2> DEFINE def == tasks[target.task]
  <2>1. target.task # NoName
    BY <1>2, HelpAssumption DEF LoadTyped, TasksTyped
  <2>2. Len(def.layers) \in 1..Len(def.layers)
    <3>1. def.layers \in Seq(Action \cup {NoAction}) /\ def.layers # << >>
      BY <1>2 DEF LoadTyped, TasksTyped, IsDefinition
    <3> HIDE DEF def
    <3> QED
      BY <3>1
  <2>3. CASE ~CanResolve(def, target.args)
    BY <1>2, <2>3 DEF RunOf, IsTarget
  <2>4. CASE CanResolve(def, target.args)
    <3>1. RunOf(target) = [ok |-> TRUE, task |-> target.task, layer |-> Len(def.layers),
                           args |-> Resolve(def, target.args)]
      BY <1>2, <2>4 DEF RunOf
    <3> QED
      BY <1>2, <2>1, <2>2, <3>1 DEF IsTarget
  <2> QED
    BY <2>3, <2>4
<1> QED
  BY <1>1, <1>2

LEMMA SuperOfTyped ==
    ASSUME LoadTyped, RunsTyped, NEW f \in DOMAIN frames, frames[f].task # NoName, NEW args
    PROVE  /\ IsTarget(SuperOf(f, args))
           /\ SuperOf(f, args).ok => /\ SuperOf(f, args).task = frames[f].task
                                     /\ SuperOf(f, args).layer = frames[f].layer - 1
<1>1. /\ frames[f].task \in DOMAIN tasks /\ frames[f].layer \in 1..Len(tasks[frames[f].task].layers)
      /\ IsDefinition(tasks[frames[f].task])
  BY DEF RunsTyped, IsRunAt, IsDefinedRun, LoadTyped, TasksTyped
<1>2. CASE frames[f].layer = 1
  BY <1>2 DEF SuperOf, IsTarget
<1>3. CASE frames[f].layer # 1
  <2>1. SuperOf(f, args) = [ok |-> TRUE, task |-> frames[f].task, layer |-> frames[f].layer - 1,
                            args |-> IF args = NoValue THEN frames[f].args ELSE args]
    BY <1>3 DEF SuperOf
  <2>2. Len(tasks[frames[f].task].layers) \in Nat
    BY <1>1 DEF IsDefinition
  <2>3. frames[f].layer - 1 \in 1..Len(tasks[frames[f].task].layers)
    BY <1>1, <1>3, <2>2
  <2> QED
    BY <1>1, <2>1, <2>3 DEF IsTarget
<1> QED
  BY <1>2, <1>3

-----------------------------------------------------------------------------
(* Launch, piece by piece *)

Opened(targets, k) == {j \in 1..k : targets[j].ok}
\* The globals after the first k runs started.
After(targets, k) ==
    IF Opened(targets, k) = {} THEN globals
    ELSE [env |-> TRUE,
          super |-> Len(frames) + (CHOOSE j \in Opened(targets, k) : \A i \in Opened(targets, k) : i <= j)]
Started(parent, targets, by, k) ==
    IF targets[k].ok THEN Frame(targets[k], parent, by, After(targets, k - 1)) ELSE Rejected(parent, by)
Awaiting(parent, targets) ==
    IF parent = 0 THEN frames
    ELSE [frames EXCEPT ![parent].children = [k \in DOMAIN targets |-> Len(frames) + k]]

LEMMA LaunchPieces ==
    ASSUME NEW parent, NEW targets, NEW by
    PROVE  Launch(parent, targets, by) =
               [frames |-> Awaiting(parent, targets) \o [k \in DOMAIN targets |-> Started(parent, targets, by, k)],
                globals |-> After(targets, Len(targets))]
BY DEF Launch, Awaiting, Started, After, Opened

LEMMA AfterLast ==
    ASSUME NEW targets, NEW k \in Nat, Opened(targets, k) # {}
    PROVE  \E j \in 1..k : targets[j].ok /\ After(targets, k) = [env |-> TRUE, super |-> Len(frames) + j]
<1> DEFINE S == Opened(targets, k)
           j == CHOOSE j \in S : \A i \in S : i <= j
<1>1. S \in SUBSET (0..k) /\ S # {}
  BY DEF Opened
<1> HIDE DEF S
<1>2. j \in S
  BY <1>1, GreatestNatural
<1>3. After(targets, k) = [env |-> TRUE, super |-> Len(frames) + j]
  BY <1>1 DEF After, S
<1> HIDE DEF j
<1> QED
  BY <1>2, <1>3 DEF Opened, S

\* What starting the runs of targets makes of the frames.
Launched(parent, targets, by, runs) ==
    /\ IsSequence(runs) /\ Len(runs) = Len(frames) + Len(targets)
    /\ DOMAIN runs = 1..(Len(frames) + Len(targets))
    /\ \A f \in DOMAIN frames :
           runs[f] = IF f = parent
                     THEN [frames[f] EXCEPT !.children = [k \in DOMAIN targets |-> Len(frames) + k]]
                     ELSE frames[f]
    /\ \A k \in 1..Len(targets) : runs[Len(frames) + k] = Started(parent, targets, by, k)

LEMMA LaunchedRuns ==
    ASSUME IsSequence(frames), NEW parent, parent \in DOMAIN frames \cup {0},
           NEW targets, IsSequence(targets), NEW by
    PROVE  /\ Launched(parent, targets, by, Launch(parent, targets, by).frames)
           /\ Launch(parent, targets, by).globals = After(targets, Len(targets))
<1> DEFINE new == [k \in DOMAIN targets |-> Started(parent, targets, by, k)]
           old == Awaiting(parent, targets)
<1>1. /\ Len(frames) \in Nat /\ DOMAIN frames = 1..Len(frames)
      /\ Len(targets) \in Nat /\ DOMAIN targets = 1..Len(targets)
  BY SequenceDomain
<1>2. IsSequence(new) /\ Len(new) = Len(targets)
  <2>1. new = [k \in 1..Len(targets) |-> new[k]]
    BY <1>1
  <2> HIDE DEF new
  <2> QED
    BY <1>1, <2>1, TabulatedSequence
<1>3. IsSequence(old) /\ Len(old) = Len(frames)
  <2>1. CASE parent = 0
    BY <2>1 DEF Awaiting
  <2>2. CASE parent # 0
    <3>1. old = [frames EXCEPT ![parent] =
                    [frames[parent] EXCEPT !.children = [k \in DOMAIN targets |-> Len(frames) + k]]]
      BY <2>2 DEF Awaiting
    <3> DEFINE v == [frames[parent] EXCEPT !.children = [k \in DOMAIN targets |-> Len(frames) + k]]
    <3>2. old = [frames EXCEPT ![parent] = v] /\ parent \in DOMAIN frames
      BY <2>2, <3>1
    <3> HIDE DEF v, old
    <3> QED
      BY <3>2, UpdatedSequence
  <2> QED
    BY <2>1, <2>2
<1>4. \A f \in DOMAIN frames :
          old[f] = IF f = parent
                   THEN [frames[f] EXCEPT !.children = [k \in DOMAIN targets |-> Len(frames) + k]]
                   ELSE frames[f]
  BY <1>1 DEF Awaiting
<1>5. \A k \in 1..Len(targets) : new[k] = Started(parent, targets, by, k)
  BY <1>1
<1>6. /\ Launch(parent, targets, by).frames = old \o new
      /\ Launch(parent, targets, by).globals = After(targets, Len(targets))
  BY LaunchPieces
<1> HIDE DEF old, new
<1>7. /\ IsSequence(old \o new) /\ Len(old \o new) = Len(frames) + Len(targets)
      /\ \A k \in 1..Len(frames) : (old \o new)[k] = old[k]
      /\ \A k \in 1..Len(targets) : (old \o new)[Len(frames) + k] = new[k]
  BY <1>2, <1>3, ConcatSequences
<1>8. DOMAIN (old \o new) = 1..(Len(frames) + Len(targets))
  BY <1>7, SequenceDomain
<1> QED
  BY <1>1, <1>4, <1>5, <1>6, <1>7, <1>8 DEF Launched

-----------------------------------------------------------------------------
\* The tasks do not change while runs are started.
LEMMA LaunchedTyped ==
    ASSUME LoadTyped, RunsTyped, tasks' = tasks, NEW parent, NEW targets, NEW by,
           parent \in DOMAIN frames \/ (parent = 0 /\ frames = << >> /\ Len(targets) = 1),
           IsSequence(targets), \A k \in DOMAIN targets : IsTarget(targets[k]),
           frames' = Launch(parent, targets, by).frames, globals' = Launch(parent, targets, by).globals
    PROVE  RunsTyped'
<1>1. /\ IsSequence(frames) /\ Len(frames) \in Nat /\ DOMAIN frames = 1..Len(frames)
      /\ Len(targets) \in Nat /\ DOMAIN targets = 1..Len(targets)
      /\ \A f \in DOMAIN frames : IsRunAt(frames, f)
      /\ IsSuper(globals, frames)
  BY SequenceDomain DEF RunsTyped
<1>2. /\ Launched(parent, targets, by, frames') /\ globals' = After(targets, Len(targets))
      /\ parent \in DOMAIN frames \cup {0}
  BY <1>1, LaunchedRuns
<1>3. /\ IsSequence(frames') /\ DOMAIN frames' = 1..(Len(frames) + Len(targets))
      /\ \A f \in DOMAIN frames :
             frames'[f] = IF f = parent
                          THEN [frames[f] EXCEPT !.children = [k \in DOMAIN targets |-> Len(frames) + k]]
                          ELSE frames[f]
      /\ \A k \in 1..Len(targets) : frames'[Len(frames) + k] = Started(parent, targets, by, k)
  BY <1>2 DEF Launched
<1>4. \A f \in DOMAIN frames : f \in DOMAIN frames' /\ frames'[f].task = frames[f].task
  <2> SUFFICES ASSUME NEW f \in DOMAIN frames PROVE f \in DOMAIN frames' /\ frames'[f].task = frames[f].task
    OBVIOUS
  <2>1. f \in DOMAIN frames'
    BY <1>1, <1>3
  <2>2. IsRun(frames[f])
    BY <1>1 DEF IsRunAt
  <2>3. CASE f = parent
    <3>1. frames'[f] = [frames[f] EXCEPT !.children = [k \in DOMAIN targets |-> Len(frames) + k]]
      BY <1>3, <2>3
    <3> QED
      BY <2>1, <2>2, <3>1 DEF IsRun
  <2>4. CASE f # parent
    BY <1>3, <2>1, <2>4
  <2> QED
    BY <2>3, <2>4
<1>5. ASSUME NEW g, IsSuper(g, frames)
      PROVE  IsSuper(g, frames')
  BY <1>4, <1>5 DEF IsSuper
<1>6. ASSUME NEW k \in Nat, k <= Len(targets)
      PROVE  IsSuper(After(targets, k), frames')
  <2>1. CASE Opened(targets, k) = {}
    BY <1>1, <1>5, <2>1 DEF After
  <2>2. CASE Opened(targets, k) # {}
    <3>1. PICK j \in 1..k : targets[j].ok /\ After(targets, k) = [env |-> TRUE, super |-> Len(frames) + j]
      BY <1>6, <2>2, AfterLast
    <3>2. j \in DOMAIN targets /\ Len(frames) + j \in DOMAIN frames'
          /\ frames'[Len(frames) + j] = Started(parent, targets, by, j)
      BY <1>1, <1>3, <1>6
    <3>3. frames'[Len(frames) + j].task = targets[j].task
      BY <3>1, <3>2 DEF Started, Frame
    <3> QED
      BY <3>1, <3>2, <3>3 DEF IsSuper, IsTarget
  <2> QED
    BY <2>1, <2>2
<1>7. IsSuper(globals', frames')
  BY <1>1, <1>2, <1>6
<1>8. ASSUME NEW f \in DOMAIN frames
      PROVE  IsRunAt(frames', f)
  <2>1. IsRunAt(frames, f) /\ IsSuper(frames[f].saved, frames')
    BY <1>1, <1>5 DEF IsRunAt
  <2>2. CASE f # parent
    BY <1>3, <1>4, <2>1, <2>2 DEF IsRunAt, IsDefinedRun
  <2>3. CASE f = parent
    <3> DEFINE kids == [k \in DOMAIN targets |-> Len(frames) + k]
    <3>1. frames'[f] = [frames[f] EXCEPT !.children = kids]
      BY <1>3, <2>3
    <3>2. IsSequence(kids) /\ DOMAIN kids = 1..Len(targets)
      <4>1. kids = [k \in 1..Len(targets) |-> kids[k]]
        BY <1>1
      <4> HIDE DEF kids
      <4> QED
        BY <1>1, <4>1, TabulatedSequence
    <3>3. \A k \in DOMAIN kids : kids[k] \in DOMAIN frames' /\ kids[k] > f
      BY <1>1, <1>3
    <3> HIDE DEF kids
    <3>4. frames'[f] = [task |-> frames[f].task, layer |-> frames[f].layer, args |-> frames[f].args,
                        parent |-> frames[f].parent, by |-> frames[f].by, pc |-> frames[f].pc,
                        children |-> kids, saved |-> frames[f].saved, status |-> frames[f].status]
      BY <2>1, <3>1 DEF IsRunAt, IsRun
    <3>5. IsDefinedRun(frames'[f])
      BY <2>1, <3>4 DEF IsDefinedRun, IsRunAt
    <3> QED
      BY <2>1, <3>2, <3>3, <3>4, <3>5 DEF IsRunAt, IsRun
  <2> QED
    BY <2>2, <2>3
<1>9. ASSUME NEW k \in 1..Len(targets)
      PROVE  IsRunAt(frames', Len(frames) + k)
  <2> DEFINE n == Len(frames) + k
  <2>1. frames'[n] = Started(parent, targets, by, k) /\ IsTarget(targets[k])
    BY <1>1, <1>3
  <2>2. parent \in Nat /\ parent < n /\ (n # 1 => parent # 0)
    BY <1>1, EmptyStack
  <2>3. IsSequence(<< >>) /\ DOMAIN << >> = {}
    BY EmptyStack
  <2>4. CASE targets[k].ok
    <3>1. frames'[n] = [task |-> targets[k].task, layer |-> targets[k].layer, args |-> targets[k].args,
                        parent |-> parent, by |-> by, pc |-> 1, children |-> << >>,
                        saved |-> After(targets, k - 1), status |-> "open"]
      BY <2>1, <2>4 DEF Started, Frame
    <3>2. IsSuper(After(targets, k - 1), frames')
      <4>1. k - 1 \in Nat /\ k - 1 <= Len(targets)
        BY <1>1
      <4> QED
        BY <1>6, <4>1
    <3>3. targets[k].task # NoName /\ targets[k].task \in DOMAIN tasks
          /\ targets[k].layer \in 1..Len(tasks[targets[k].task].layers)
      BY <2>1, <2>4 DEF IsTarget
    <3>4. IsRun(frames'[n]) /\ IsDefinedRun(frames'[n])
      BY <3>1, <3>3 DEF IsRun, IsDefinedRun
    <3> HIDE DEF n
    <3>5. IsRunAt(frames', n)
      BY <2>2, <2>3, <3>1, <3>2, <3>4 DEF IsRunAt
    <3> QED
      BY <3>5 DEF n
  <2>5. CASE ~targets[k].ok
    <3>1. frames'[n] = [task |-> NoName, layer |-> 0, args |-> << >>, parent |-> parent, by |-> by, pc |-> 1,
                        children |-> << >>, saved |-> globals, status |-> "threw"]
      BY <2>1, <2>5 DEF Started, Rejected
    <3>2. IsSuper(globals, frames')
      BY <1>1, <1>5
    <3>3. IsRun(frames'[n]) /\ IsDefinedRun(frames'[n])
      BY <3>1 DEF IsRun, IsDefinedRun
    <3> HIDE DEF n
    <3>4. IsRunAt(frames', n)
      BY <2>2, <2>3, <3>1, <3>2, <3>3 DEF IsRunAt
    <3> QED
      BY <3>4 DEF n
  <2> QED
    BY <2>4, <2>5
<1>10. ASSUME NEW f \in DOMAIN frames'
       PROVE  IsRunAt(frames', f)
  <2>1. CASE f \in DOMAIN frames
    BY <1>8, <2>1
  <2>2. CASE f \notin DOMAIN frames
    <3>1. f - Len(frames) \in 1..Len(targets) /\ Len(frames) + (f - Len(frames)) = f
      BY <1>1, <1>3, <2>2
    <3> QED
      BY <1>9, <3>1
  <2> QED
    BY <2>1, <2>2
<1>11. \A f \in DOMAIN frames' : IsRunAt(frames, f)'
  BY <1>10 DEF IsRunAt, IsDefinedRun
<1> QED
  BY <1>3, <1>7, <1>11 DEF RunsTyped

\* A run that goes on, or ends.
Continued(f, r) ==
    /\ IsRun(r) /\ r.task = frames[f].task /\ r.layer = frames[f].layer /\ r.parent = frames[f].parent
    /\ r.by = frames[f].by /\ r.saved = frames[f].saved /\ r.children = << >>
    /\ r.pc \in Nat \ {0} /\ r.status \in {"open", "returned", "threw"}

LEMMA ContinuedTyped ==
    ASSUME RunsTyped, tasks' = tasks, NEW f, IsOpen(f), NEW r, Continued(f, r),
           frames' = [frames EXCEPT ![f] = r], IsSuper(globals', frames)
    PROVE  RunsTyped'
<1>1. /\ IsSequence(frames) /\ f \in DOMAIN frames /\ \A g \in DOMAIN frames : IsRunAt(frames, g)
  BY DEF RunsTyped, IsOpen
<1>2. /\ IsSequence(frames') /\ DOMAIN frames' = DOMAIN frames
      /\ \A g \in DOMAIN frames : frames'[g] = IF g = f THEN r ELSE frames[g]
  BY <1>1, UpdatedSequence
<1>3. /\ frames[f].task # NoName /\ IsDefinedRun(r)
  BY <1>1 DEF IsOpen, IsRunAt, IsDefinedRun, Continued
<1>4. ASSUME NEW g, IsSuper(g, frames)
      PROVE  IsSuper(g, frames')
  BY <1>2, <1>4 DEF IsSuper, Continued
<1>5. IsSequence(<< >>) /\ DOMAIN << >> = {}
  BY EmptyStack
<1>6. IsRunAt(frames', f)
  BY <1>1, <1>2, <1>3, <1>4, <1>5 DEF IsRunAt, Continued
<1>7. \A g \in DOMAIN frames : g # f => IsRunAt(frames', g)
  BY <1>1, <1>2, <1>4 DEF IsRunAt
<1>8. \A g \in DOMAIN frames' : IsRunAt(frames, g)'
  <2>1. \A g \in DOMAIN frames' : IsRunAt(frames', g)
    BY <1>2, <1>6, <1>7
  <2> QED
    BY <2>1 DEF IsRunAt, IsDefinedRun
<1>9. IsSuper(globals, frames)'
  BY <1>4
<1> QED
  BY <1>2, <1>8, <1>9 DEF RunsTyped

RunWith(t, l, a, p, b, n, c, v, s) ==
    [task |-> t, layer |-> l, args |-> a, parent |-> p, by |-> b, pc |-> n, children |-> c, saved |-> v,
     status |-> s]

LEMMA RunFields ==
    ASSUME NEW r, IsRun(r), NEW status, NEW pc
    PROVE  /\ [r EXCEPT !.status = status, !.children = << >>] =
                  [task |-> r.task, layer |-> r.layer, args |-> r.args, parent |-> r.parent, by |-> r.by,
                   pc |-> r.pc, children |-> << >>, saved |-> r.saved, status |-> status]
           /\ [r EXCEPT !.pc = pc, !.children = << >>] =
                  [task |-> r.task, layer |-> r.layer, args |-> r.args, parent |-> r.parent, by |-> r.by,
                   pc |-> pc, children |-> << >>, saved |-> r.saved, status |-> r.status]
<1>1. PICK t, l, a, p, b, n, c, v, s : r = RunWith(t, l, a, p, b, n, c, v, s)
  BY DEF IsRun, RunWith
<1>2. /\ r.task = t /\ r.layer = l /\ r.args = a /\ r.parent = p /\ r.by = b /\ r.pc = n
      /\ r.saved = v /\ r.status = s
  BY <1>1 DEF RunWith
<1>3. /\ [r EXCEPT !.status = status, !.children = << >>] = [[r EXCEPT !.status = status] EXCEPT !.children = << >>]
      /\ [r EXCEPT !.pc = pc, !.children = << >>] = [[r EXCEPT !.pc = pc] EXCEPT !.children = << >>]
  OBVIOUS
<1>4. [r EXCEPT !.status = status, !.children = << >>] = RunWith(t, l, a, p, b, n, << >>, v, status)
  <2>1. PICK q : q = [r EXCEPT !.status = status]
    OBVIOUS
  <2>2. q = RunWith(t, l, a, p, b, n, c, v, status)
    BY <1>1, <2>1 DEF RunWith
  <2>3. [q EXCEPT !.children = << >>] = RunWith(t, l, a, p, b, n, << >>, v, status)
    BY <2>2 DEF RunWith
  <2> QED
    BY <1>3, <2>1, <2>3
<1>5. [r EXCEPT !.pc = pc, !.children = << >>] = RunWith(t, l, a, p, b, pc, << >>, v, s)
  <2>1. PICK q : q = [r EXCEPT !.pc = pc]
    OBVIOUS
  <2>2. q = RunWith(t, l, a, p, b, pc, c, v, s)
    BY <1>1, <2>1 DEF RunWith
  <2>3. [q EXCEPT !.children = << >>] = RunWith(t, l, a, p, b, pc, << >>, v, s)
    BY <2>2 DEF RunWith
  <2> QED
    BY <1>3, <2>1, <2>3
<1> QED
  BY <1>2, <1>4, <1>5 DEF RunWith

LEMMA LeavePieces ==
    ASSUME RunsTyped, NEW f, IsOpen(f), NEW status \in {"returned", "threw"}, Leave(f, status)
    PROVE  \E r : /\ Continued(f, r) /\ r.status = status
                  /\ frames' = [frames EXCEPT ![f] = r] /\ globals' = frames[f].saved
<1> DEFINE r == [task |-> frames[f].task, layer |-> frames[f].layer, args |-> frames[f].args,
                 parent |-> frames[f].parent, by |-> frames[f].by, pc |-> frames[f].pc,
                 children |-> << >>, saved |-> frames[f].saved, status |-> status]
<1>1. f \in DOMAIN frames /\ IsRun(frames[f]) /\ frames[f].pc \in Nat \ {0}
  BY DEF RunsTyped, IsRunAt, IsOpen
<1>2. [frames[f] EXCEPT !.status = status, !.children = << >>] = r
  BY <1>1, RunFields
<1>3. frames' = [frames EXCEPT ![f] = [frames[f] EXCEPT !.status = status, !.children = << >>]]
  BY <1>1 DEF Leave
<1>4. Continued(f, r) /\ r.status = status
  BY <1>1 DEF Continued, IsRun
<1> HIDE DEF r
<1> QED
  BY <1>2, <1>3, <1>4 DEF Leave

LEMMA ProceedPieces ==
    ASSUME RunsTyped, NEW f, IsOpen(f), Proceed(f)
    PROVE  \E r : /\ Continued(f, r) /\ r.status = "open"
                  /\ frames' = [frames EXCEPT ![f] = r] /\ globals' = globals
<1> DEFINE r == [task |-> frames[f].task, layer |-> frames[f].layer, args |-> frames[f].args,
                 parent |-> frames[f].parent, by |-> frames[f].by, pc |-> frames[f].pc + 1,
                 children |-> << >>, saved |-> frames[f].saved, status |-> frames[f].status]
<1>1. f \in DOMAIN frames /\ IsRun(frames[f]) /\ frames[f].pc \in Nat \ {0} /\ frames[f].status = "open"
  BY DEF RunsTyped, IsRunAt, IsOpen
<1>2. [frames[f] EXCEPT !.pc = frames[f].pc + 1, !.children = << >>] = r
  BY <1>1, RunFields
<1>3. frames' = [frames EXCEPT ![f] = [frames[f] EXCEPT !.pc = frames[f].pc + 1, !.children = << >>]]
  BY <1>1 DEF Proceed
<1>4. Continued(f, r) /\ r.status = "open"
  BY <1>1 DEF Continued, IsRun
<1> HIDE DEF r
<1> QED
  BY <1>2, <1>3, <1>4 DEF Proceed

-----------------------------------------------------------------------------
\* What the call c of the frame f runs.
Targets(f, c) ==
    CASE c.op = "run" -> [k \in DOMAIN c.runs |-> RunOf(c.runs[k])]
      [] c.op = "super" -> <<SuperOf(f, c.args)>>
      [] c.op = "globalSuper" /\ globals.super # 0 -> <<SuperOf(globals.super, c.args)>>
      [] OTHER -> <<[ok |-> FALSE]>>
ByOf(c) == IF c.op = "run" THEN "run" ELSE "super"
CallOf(f) == CallsOf(f)[frames[f].pc]

LEMMA CallPieces ==
    ASSUME NEW f, Call(f)
    PROVE  /\ IsOpen(f) /\ frames[f].children = << >> /\ UNCHANGED loading /\ phase' = phase
           /\ \/ CallOf(f).op = "throw" /\ Leave(f, "threw")
              \/ /\ CallOf(f).op # "throw"
                 /\ frames' = Launch(f, Targets(f, CallOf(f)), ByOf(CallOf(f))).frames
                 /\ globals' = Launch(f, Targets(f, CallOf(f)), ByOf(CallOf(f))).globals
<1>1. IsOpen(f) /\ frames[f].children = << >>
  BY DEF Call, Idle
<1>2. CASE CallOf(f).op = "throw"
  BY <1>1, <1>2 DEF Call, CallOf, Leave
<1>3. CASE CallOf(f).op # "throw"
  BY <1>1, <1>3 DEF Call, CallOf, Targets, ByOf
<1> QED
  BY <1>1, <1>2, <1>3

\* One target.
LEMMA OneTarget ==
    ASSUME NEW t
    PROVE  IsSequence(<<t>>) /\ Len(<<t>>) = 1 /\ DOMAIN <<t>> = 1..1 /\ <<t>>[1] = t
<1>1. <<t>> \in Seq({t})
  OBVIOUS
<1>2. IsSequence(<<t>>)
  BY <1>1, SequenceOf
<1> QED
  BY <1>2

LEMMA TargetsTyped ==
    ASSUME LoadTyped, RunsTyped, NEW f, IsOpen(f), frames[f].pc <= Len(CallsOf(f))
    PROVE  /\ IsSequence(Targets(f, CallOf(f)))
           /\ \A k \in DOMAIN Targets(f, CallOf(f)) : IsTarget(Targets(f, CallOf(f))[k])
<1> DEFINE c == CallOf(f)
<1>1. f \in DOMAIN frames /\ frames[f].task # NoName /\ frames[f].pc \in Nat \ {0}
      /\ IsSuper(globals, frames)
  BY DEF RunsTyped, IsRunAt, IsDefinedRun, IsOpen
<1>2. c.op = "run" => IsSequence(c.runs)
  <2>1. Len(CallsOf(f)) \in Nat /\ DOMAIN CallsOf(f) = 1..Len(CallsOf(f))
    BY <1>1, CallsTyped, SequenceDomain
  <2>2. frames[f].pc \in DOMAIN CallsOf(f)
    BY <1>1, <2>1
  <2> QED
    BY <1>1, <2>2, CallsTyped DEF CallOf
<1> HIDE DEF c
<1>3. CASE c.op = "run"
  <2> DEFINE ts == [k \in DOMAIN c.runs |-> RunOf(c.runs[k])]
  <2>1. Targets(f, c) = ts
    BY <1>3 DEF Targets
  <2>2. Len(c.runs) \in Nat /\ DOMAIN c.runs = 1..Len(c.runs)
    BY <1>2, <1>3, SequenceDomain
  <2>3. \A k \in DOMAIN ts : IsTarget(ts[k])
    BY RunOfTyped
  <2>4. ts = [k \in 1..Len(c.runs) |-> ts[k]]
    BY <2>2
  <2> HIDE DEF ts
  <2>5. IsSequence(ts)
    BY <2>2, <2>4, TabulatedSequence
  <2> QED
    BY <2>1, <2>3, <2>5 DEF c
<1>4. CASE c.op = "super"
  <2>1. Targets(f, c) = <<SuperOf(f, c.args)>> /\ IsTarget(SuperOf(f, c.args))
    BY <1>1, <1>4, SuperOfTyped DEF Targets
  <2> QED
    BY <2>1, OneTarget DEF c
<1>5. CASE c.op = "globalSuper" /\ globals.super # 0
  <2>1. Targets(f, c) = <<SuperOf(globals.super, c.args)>> /\ IsTarget(SuperOf(globals.super, c.args))
    BY <1>1, <1>5, SuperOfTyped DEF Targets, IsSuper
  <2> QED
    BY <2>1, OneTarget DEF c
<1>6. CASE c.op \notin {"run", "super"} /\ ~(c.op = "globalSuper" /\ globals.super # 0)
  <2>1. PICK t : t = [ok |-> FALSE]
    OBVIOUS
  <2>2. Targets(f, c) = <<t>> /\ IsTarget(t)
    BY <1>6, <2>1 DEF Targets, IsTarget
  <2>3. IsSequence(Targets(f, c)) /\ \A k \in DOMAIN Targets(f, c) : IsTarget(Targets(f, c)[k])
    BY <2>2, OneTarget
  <2> QED
    BY <2>3 DEF c
<1> QED
  BY <1>3, <1>4, <1>5, <1>6

LEMMA CallTyped ==
    ASSUME LoadTyped, RunsTyped, NEW f, Call(f)
    PROVE  RunsTyped'
<1>1. /\ IsOpen(f) /\ frames[f].children = << >> /\ tasks' = tasks /\ f \in DOMAIN frames
      /\ IsSuper(frames[f].saved, frames)
      /\ \/ Leave(f, "threw")
         \/ /\ frames' = Launch(f, Targets(f, CallOf(f)), ByOf(CallOf(f))).frames
            /\ globals' = Launch(f, Targets(f, CallOf(f)), ByOf(CallOf(f))).globals
  BY CallPieces DEF loading, RunsTyped, IsRunAt, IsOpen
<1>2. CASE Leave(f, "threw")
  BY <1>1, <1>2, LeavePieces, ContinuedTyped
<1>3. CASE /\ frames' = Launch(f, Targets(f, CallOf(f)), ByOf(CallOf(f))).frames
           /\ globals' = Launch(f, Targets(f, CallOf(f)), ByOf(CallOf(f))).globals
  <2>1. frames[f].pc <= Len(CallsOf(f))
    BY DEF Call
  <2>2. /\ IsSequence(Targets(f, CallOf(f)))
        /\ \A k \in DOMAIN Targets(f, CallOf(f)) : IsTarget(Targets(f, CallOf(f))[k])
    BY <1>1, <2>1, TargetsTyped
  <2> QED
    BY <1>1, <1>3, <2>2, LaunchedTyped
<1> QED
  BY <1>1, <1>2, <1>3

LEMMA NoRuns ==
    ASSUME NEW runs, runs = << >>, NEW g, g = NoGlobals
    PROVE  IsSequence(runs) /\ DOMAIN runs = {} /\ IsSuper(g, runs)
BY EmptyStack DEF IsSuper, NoGlobals

\* What a step does to the runs.
LEMMA SettlePieces ==
    ASSUME NEW f, Settle(f) \/ Return(f)
    PROVE  /\ IsOpen(f) /\ UNCHANGED loading /\ phase' = phase
           /\ Proceed(f) \/ Leave(f, "threw") \/ Leave(f, "returned")
BY DEF Settle, Return, Proceed, Leave, Idle

LEMMA CommandPieces ==
    ASSUME LoadTyped, RunCommand
    PROVE  \/ Ends("failed")
           \/ \E t : /\ IsTarget(t) /\ t.ok = TRUE
                     /\ frames = << >> /\ globals = NoGlobals /\ phase' = "running" /\ UNCHANGED loading
                     /\ frames' = Launch(0, <<t>>, "run").frames
                     /\ globals' = Launch(0, <<t>>, "run").globals
<1> SUFFICES ASSUME ~Ends("failed")
             PROVE  \E target : /\ RunOf(target).ok /\ phase' = "running" /\ UNCHANGED loading
                                /\ frames' = Launch(0, <<RunOf(target)>>, "run").frames
                                /\ globals' = Launch(0, <<RunOf(target)>>, "run").globals
  <2>1. frames = << >> /\ globals = NoGlobals
    BY DEF RunCommand, LoadTyped, PhaseTyped
  <2> QED
    BY <2>1, RunOfTyped DEF IsTarget
<1> QED
  BY DEF RunCommand

LEMMA RunsTypedStep ==
    ASSUME LoadTyped, RunsTyped, [Next]_vars
    PROVE  RunsTyped'
<1>1. ASSUME frames' = << >>, globals' = NoGlobals
      PROVE  RunsTyped'
  BY <1>1, NoRuns DEF RunsTyped
<1>2. CASE (\E c \in Commands : Start(c.config, c.line)) \/ Define \/ UsePlugin \/ FileLoaded
  <2>1. UNCHANGED <<frames, globals>> /\ phase # "running"
    BY <1>2, EmptyStack DEF Start, Define, UsePlugin, FileLoaded, LoadTyped, PhaseTyped
  <2> QED
    BY <1>1, <2>1 DEF LoadTyped, PhaseTyped
<1>3. CASE LoadFails \/ Exit
  BY <1>1, <1>3 DEF LoadFails, Exit, Ends
<1>4. CASE RunCommand
  <2>1. CASE Ends("failed")
    BY <1>1, <2>1 DEF Ends
  <2>2. ASSUME NEW t, IsTarget(t), frames = << >>, UNCHANGED loading,
               frames' = Launch(0, <<t>>, "run").frames, globals' = Launch(0, <<t>>, "run").globals
        PROVE  RunsTyped'
    <3>1. \A k \in DOMAIN <<t>> : IsTarget(<<t>>[k])
      BY <2>2, OneTarget
    <3> QED
      BY <2>2, <3>1, OneTarget, LaunchedTyped DEF loading
  <2> QED
    BY <1>4, <2>1, <2>2, CommandPieces
<1>5. ASSUME NEW f \in DOMAIN frames, Call(f)
      PROVE  RunsTyped'
  BY <1>5, CallTyped
<1>6. ASSUME NEW f \in DOMAIN frames, Settle(f) \/ Return(f)
      PROVE  RunsTyped'
  <2>1. IsOpen(f) /\ tasks' = tasks /\ (Proceed(f) \/ Leave(f, "threw") \/ Leave(f, "returned"))
    BY <1>6, SettlePieces DEF loading
  <2>2. IsSuper(globals, frames) /\ IsSuper(frames[f].saved, frames)
    BY DEF RunsTyped, IsRunAt
  <2>3. CASE Proceed(f)
    BY <2>1, <2>2, <2>3, ProceedPieces, ContinuedTyped
  <2>4. CASE Leave(f, "threw") \/ Leave(f, "returned")
    BY <2>1, <2>2, <2>4, LeavePieces, ContinuedTyped
  <2> QED
    BY <2>1, <2>3, <2>4
<1>7. CASE UNCHANGED vars
  <2>1. UNCHANGED <<frames, globals, tasks>>
    BY <1>7 DEF vars, loading
  <2> QED
    BY <2>1 DEF RunsTyped, IsRunAt, IsDefinedRun
<1> QED
  BY <1>2, <1>3, <1>4, <1>5, <1>6, <1>7 DEF Next, Progress, Load

\* Whatever the actions call, each run has a known task and one of its definitions, was
\* called by a run before it, and the runSuper in the globals is that of a run that was
\* started (runtime-environment.ts:96-178).
THEOREM RunsTypeCorrect == Spec => []RunsTyped
<1>1. Init => RunsTyped
  BY NoRuns DEF Init, RunsTyped
<1>2. LoadTyped /\ RunsTyped /\ [Next]_vars => RunsTyped'
  BY RunsTypedStep
<1> QED
  BY <1>1, <1>2, LoadTypeCorrect, PTL DEF Spec

-----------------------------------------------------------------------------
(* Tasks that run one at a time *)

IsOpenIn(runs, f) == runs[f].status = "open"
\* No run above f is open.
NoneAbove(runs, f) == \A g \in DOMAIN runs : g > f => ~IsOpenIn(runs, g)
\* An open run awaits nothing, and is the innermost; or it awaits the next open one, or a run
\* that has settled.
AwaitsNext(runs, f) ==
    \/ runs[f].children = << >> /\ NoneAbove(runs, f)
    \/ \E h \in DOMAIN runs :
           /\ runs[f].children = <<h>> /\ h > f /\ runs[h].parent = f
           /\ \A g \in DOMAIN runs : g > f /\ IsOpenIn(runs, g) => IsOpenIn(runs, h) /\ g >= h
\* Its caller awaits it, and the globals that it found are those of its caller.
FoundCaller(runs, f) ==
    /\ runs[f].saved = IF f = 1 THEN NoGlobals ELSE [env |-> TRUE, super |-> runs[f].parent]
    /\ f # 1 => IsOpenIn(runs, runs[f].parent) /\ runs[runs[f].parent].children = <<f>>
RunsParent(runs, f) ==
    (runs[f].by = "super" /\ runs[f].task # NoName) =>
        /\ f # 1
        /\ runs[f].task = runs[runs[f].parent].task
        /\ runs[f].layer = runs[runs[f].parent].layer - 1
InnermostGlobals(runs, g) ==
    /\ \A f \in DOMAIN runs : IsOpenIn(runs, f) /\ NoneAbove(runs, f) => g = [env |-> TRUE, super |-> f]
    /\ (\A f \in DOMAIN runs : ~IsOpenIn(runs, f)) => g = NoGlobals
Nested ==
    /\ \A f \in DOMAIN frames : IsOpenIn(frames, f) => AwaitsNext(frames, f) /\ FoundCaller(frames, f)
    /\ \A f \in DOMAIN frames : RunsParent(frames, f)
    /\ InnermostGlobals(frames, globals)
RunsNest == (phase = "running" /\ OneAtATime) => Nested

LEMMA NestedInnermost ==
    ASSUME RunsTyped, Nested
    PROVE  LET open == {f \in DOMAIN frames : IsOpen(f)}
           IN  globals = IF open = {} THEN NoGlobals
                         ELSE [env |-> TRUE, super |-> CHOOSE f \in open : \A g \in open : g <= f]
<1> DEFINE open == {f \in DOMAIN frames : IsOpen(f)}
           inner == CHOOSE f \in open : \A g \in open : g <= f
<1>1. Len(frames) \in Nat /\ DOMAIN frames = 1..Len(frames)
  BY SequenceDomain DEF RunsTyped
<1>2. \A f \in DOMAIN frames : IsOpenIn(frames, f) <=> f \in open
  BY DEF IsOpen, IsOpenIn
<1>3. CASE open = {}
  BY <1>2, <1>3 DEF Nested, InnermostGlobals
<1>4. CASE open # {}
  <2>1. open \in SUBSET (0..Len(frames))
    BY <1>1
  <2> HIDE DEF open
  <2>2. inner \in open /\ \A g \in open : g <= inner
    BY <1>1, <1>4, <2>1, GreatestNatural
  <2> HIDE DEF inner
  <2>3. inner \in DOMAIN frames /\ IsOpenIn(frames, inner)
    BY <1>2, <2>2 DEF open
  <2>4. NoneAbove(frames, inner)
    <3>1. ASSUME NEW g \in DOMAIN frames, g > inner, IsOpenIn(frames, g)
          PROVE  FALSE
      <4>1. g \in open /\ g \in Nat /\ inner \in Nat
        BY <1>1, <1>2, <2>3, <3>1
      <4> QED
        BY <2>2, <3>1, <4>1
    <3> QED
      BY <3>1 DEF NoneAbove
  <2>5. globals = [env |-> TRUE, super |-> inner]
    BY <2>3, <2>4 DEF Nested, InnermostGlobals
  <2> QED
    BY <1>4, <2>5 DEF open, inner
<1> QED
  BY <1>3, <1>4

\* The innermost run goes on, or leaves with the globals that it found.
LEMMA ContinuedNested ==
    ASSUME RunsTyped, Nested, NEW f, IsOpen(f), NoneAbove(frames, f), NEW r, Continued(f, r),
           frames' = [frames EXCEPT ![f] = r],
           globals' = IF r.status = "open" THEN globals ELSE frames[f].saved
    PROVE  Nested'
<1>1. /\ IsSequence(frames) /\ f \in DOMAIN frames /\ Len(frames) \in Nat /\ DOMAIN frames = 1..Len(frames)
      /\ IsOpenIn(frames, f)
      /\ \A g \in DOMAIN frames :
             frames[g].parent \in Nat /\ frames[g].parent < g /\ (g # 1 => frames[g].parent \in DOMAIN frames)
  <2>1. IsSequence(frames) /\ Len(frames) \in Nat /\ DOMAIN frames = 1..Len(frames)
    BY SequenceDomain DEF RunsTyped
  <2>2. \A g \in DOMAIN frames :
            frames[g].parent \in Nat /\ frames[g].parent < g /\ (g # 1 => frames[g].parent # 0)
    BY DEF RunsTyped, IsRunAt
  <2> QED
    BY <2>1, <2>2 DEF IsOpen, IsOpenIn
<1>2. /\ DOMAIN frames' = DOMAIN frames
      /\ \A g \in DOMAIN frames : frames'[g] = IF g = f THEN r ELSE frames[g]
  BY <1>1, UpdatedSequence
<1>3. ASSUME NEW g \in DOMAIN frames
      PROVE  /\ frames'[g].task = frames[g].task /\ frames'[g].layer = frames[g].layer
             /\ frames'[g].parent = frames[g].parent /\ frames'[g].by = frames[g].by
             /\ frames'[g].saved = frames[g].saved
             /\ IsOpenIn(frames', g) => IsOpenIn(frames, g) /\ g <= f
             /\ IsOpenIn(frames', g) <=> IsOpenIn(frames, g) /\ (g = f => r.status = "open")
  BY <1>1, <1>2 DEF Continued, IsOpenIn, NoneAbove
<1>4. \A g \in DOMAIN frames : RunsParent(frames', g)
  BY <1>1, <1>3 DEF Nested, RunsParent
<1>5. ASSUME NEW g \in DOMAIN frames, IsOpenIn(frames', g)
      PROVE  FoundCaller(frames', g)
  <2>1. IsOpenIn(frames, g) /\ g <= f /\ FoundCaller(frames, g)
    BY <1>3, <1>5 DEF Nested
  <2>2. CASE g = 1
    BY <1>3, <2>1, <2>2 DEF FoundCaller
  <2>3. CASE g # 1
    <3>1. frames[g].parent \in DOMAIN frames /\ frames[g].parent # f
      BY <1>1, <2>1, <2>3
    <3> QED
      BY <1>2, <1>3, <2>1, <2>3, <3>1 DEF FoundCaller, IsOpenIn
  <2> QED
    BY <2>2, <2>3
<1>6. ASSUME NEW g \in DOMAIN frames, IsOpenIn(frames', g)
      PROVE  AwaitsNext(frames', g)
  <2>1. CASE g = f
    <3>1. NoneAbove(frames', f)
      BY <1>1, <1>2, <1>3 DEF NoneAbove
    <3> QED
      BY <1>1, <1>2, <2>1, <3>1 DEF AwaitsNext, Continued
  <2>2. CASE g # f
    <3>1. g < f /\ IsOpenIn(frames, g) /\ AwaitsNext(frames, g)
      BY <1>1, <1>3, <1>6, <2>2 DEF Nested
    <3>2. PICK h \in DOMAIN frames :
             /\ frames[g].children = <<h>> /\ h > g /\ frames[h].parent = g
             /\ \A i \in DOMAIN frames : i > g /\ IsOpenIn(frames, i) => IsOpenIn(frames, h) /\ i >= h
      BY <1>1, <3>1 DEF AwaitsNext, NoneAbove
    <3>3. frames'[g].children = <<h>> /\ frames'[h].parent = g
      BY <1>2, <1>3, <2>2, <3>2
    <3>4. ASSUME NEW i \in DOMAIN frames, i > g, IsOpenIn(frames', i)
          PROVE  IsOpenIn(frames', h) /\ i >= h
      <4>1. IsOpenIn(frames, i) /\ i <= f /\ IsOpenIn(frames, h) /\ i >= h
        BY <1>3, <3>2, <3>4
      <4>2. h = f => i = f
        BY <1>1, <4>1
      <4> QED
        BY <1>3, <3>4, <4>1, <4>2
    <3> QED
      BY <1>2, <3>2, <3>3, <3>4 DEF AwaitsNext
  <2> QED
    BY <2>1, <2>2
<1>7. InnermostGlobals(frames', globals')
  <2>1. CASE r.status = "open"
    <3>1. \A g \in DOMAIN frames : IsOpenIn(frames', g) <=> IsOpenIn(frames, g)
      BY <1>3, <2>1
    <3> QED
      BY <1>2, <2>1, <3>1 DEF Nested, InnermostGlobals, NoneAbove
  <2>2. CASE r.status # "open"
    <3> DEFINE p == frames[f].parent
    <3>1. globals' = frames[f].saved /\ FoundCaller(frames, f)
      BY <1>1, <2>2 DEF Nested
    <3>2. CASE f = 1
      <4>1. \A g \in DOMAIN frames : ~IsOpenIn(frames', g)
        <5> SUFFICES ASSUME NEW g \in DOMAIN frames, IsOpenIn(frames', g) PROVE FALSE
          OBVIOUS
        <5>1. g <= f /\ g # f
          BY <1>3, <2>2
        <5> QED
          BY <1>1, <3>2, <5>1
      <4> QED
        BY <1>2, <3>1, <3>2, <4>1 DEF FoundCaller, InnermostGlobals
    <3>3. CASE f # 1
      <4>1. /\ p \in DOMAIN frames /\ p < f /\ IsOpenIn(frames, p) /\ frames[p].children = <<f>>
            /\ globals' = [env |-> TRUE, super |-> p]
        BY <1>1, <3>1, <3>3 DEF FoundCaller
      <4>2. IsOpenIn(frames', p)
        <5>1. p # f
          BY <1>1, <4>1
        <5> HIDE DEF p
        <5> QED
          BY <1>3, <4>1, <5>1
      <4>3. AwaitsNext(frames, p)
        BY <4>1 DEF Nested
      <4>4. ASSUME NEW i \in DOMAIN frames, i > p, IsOpenIn(frames', i)
            PROVE  FALSE
        <5>1. IsOpenIn(frames, i) /\ i <= f /\ i # f
          BY <1>3, <2>2, <4>4
        <5>2. i >= f
          BY <1>1, <4>1, <4>3, <4>4, <5>1 DEF AwaitsNext, NoneAbove
        <5> QED
          BY <1>1, <5>1, <5>2
      <4>5. ASSUME NEW g \in DOMAIN frames, IsOpenIn(frames', g), NoneAbove(frames', g)
            PROVE  g = p
        <5>1. ~(p > g) /\ ~(g > p)
          BY <1>2, <4>1, <4>2, <4>4, <4>5 DEF NoneAbove
        <5> QED
          BY <1>1, <4>1, <5>1
      <4> QED
        BY <1>2, <4>1, <4>2, <4>5 DEF InnermostGlobals
    <3> QED
      BY <3>2, <3>3
  <2> QED
    BY <2>1, <2>2
<1>8. \A g \in DOMAIN frames' : IsOpenIn(frames', g) => AwaitsNext(frames', g) /\ FoundCaller(frames', g)
  BY <1>2, <1>5, <1>6
<1>9. \A g \in DOMAIN frames' : RunsParent(frames', g)
  BY <1>2, <1>4
<1> QED
  BY <1>7, <1>8, <1>9 DEF Nested

LEMMA SingleSequence ==
    ASSUME NEW s, IsSequence(s), Len(s) = 1
    PROVE  s = <<s[1]>>
<1> DEFINE S == {s[k] : k \in DOMAIN s}
<1>1. s \in Seq(S)
  BY DEF IsSequence
<1> HIDE DEF S
<1> QED
  BY <1>1

\* The start of one run.
LaunchedOne(parent, t, by) ==
    LET n == Len(frames) + 1
    IN  /\ DOMAIN frames' = 1..n
        /\ \A g \in DOMAIN frames :
               /\ frames'[g].task = frames[g].task /\ frames'[g].layer = frames[g].layer
               /\ frames'[g].parent = frames[g].parent /\ frames'[g].by = frames[g].by
               /\ frames'[g].saved = frames[g].saved /\ frames'[g].status = frames[g].status
               /\ frames'[g].children = IF g = parent THEN <<n>> ELSE frames[g].children
        /\ frames'[n].parent = parent /\ frames'[n].by = by /\ frames'[n].children = << >>
        /\ t.ok => /\ frames'[n].task = t.task /\ frames'[n].layer = t.layer
                   /\ frames'[n].saved = globals /\ frames'[n].status = "open"
                   /\ globals' = [env |-> TRUE, super |-> n]
        /\ ~t.ok => frames'[n].task = NoName /\ frames'[n].status = "threw" /\ globals' = globals

LEMMA LaunchOne ==
    ASSUME RunsTyped, NEW parent, parent \in DOMAIN frames \cup {0}, NEW t, IsTarget(t), NEW by,
           frames' = Launch(parent, <<t>>, by).frames, globals' = Launch(parent, <<t>>, by).globals
    PROVE  LaunchedOne(parent, t, by)
<1> DEFINE n == Len(frames) + 1
<1>1. /\ IsSequence(frames) /\ Len(frames) \in Nat /\ DOMAIN frames = 1..Len(frames)
      /\ \A g \in DOMAIN frames : IsRun(frames[g])
  BY SequenceDomain DEF RunsTyped, IsRunAt
<1>2. IsSequence(<<t>>) /\ Len(<<t>>) = 1 /\ DOMAIN <<t>> = 1..1 /\ <<t>>[1] = t
  BY OneTarget
<1>3. PICK ts : ts = <<t>>
  OBVIOUS
<1>4. Launched(parent, ts, by, frames') /\ globals' = After(ts, 1)
  BY <1>1, <1>2, <1>3, LaunchedRuns
<1>5. /\ DOMAIN frames' = 1..n
      /\ \A g \in DOMAIN frames :
             frames'[g] = IF g = parent
                          THEN [frames[g] EXCEPT !.children = [k \in 1..1 |-> Len(frames) + k]]
                          ELSE frames[g]
      /\ frames'[n] = Started(parent, ts, by, 1)
  <2>1. Len(ts) = 1 /\ DOMAIN ts = 1..1 /\ 1 \in 1..1
    BY <1>2, <1>3
  <2> QED
    BY <1>4, <2>1 DEF Launched
<1>6. [k \in 1..1 |-> Len(frames) + k] = <<n>>
  <2>1. PICK s : s = [k \in 1..1 |-> Len(frames) + k]
    OBVIOUS
  <2>2. IsSequence(s) /\ Len(s) = 1
    BY <2>1, TabulatedSequence
  <2>3. s = <<s[1]>> /\ s[1] = n
    BY <2>1, <2>2, SingleSequence
  <2> QED
    BY <2>1, <2>3
<1>7. After(ts, 0) = globals
  BY DEF After, Opened
<1>8. After(ts, 1) = IF t.ok THEN [env |-> TRUE, super |-> n] ELSE globals
  <2>1. CASE t.ok
    <3>1. Opened(ts, 1) # {}
      BY <1>2, <1>3, <2>1 DEF Opened
    <3>2. PICK j \in 1..1 : After(ts, 1) = [env |-> TRUE, super |-> Len(frames) + j]
      BY <3>1, AfterLast
    <3>3. j = 1
      OBVIOUS
    <3> QED
      BY <2>1, <3>2, <3>3
  <2>2. CASE ~t.ok
    <3>1. Opened(ts, 1) = {}
      BY <1>2, <1>3, <2>2 DEF Opened
    <3> QED
      BY <2>2, <3>1 DEF After
  <2> QED
    BY <2>1, <2>2
<1>9. ASSUME NEW g \in DOMAIN frames
      PROVE  /\ frames'[g].task = frames[g].task /\ frames'[g].layer = frames[g].layer
             /\ frames'[g].parent = frames[g].parent /\ frames'[g].by = frames[g].by
             /\ frames'[g].saved = frames[g].saved /\ frames'[g].status = frames[g].status
             /\ frames'[g].children = IF g = parent THEN <<n>> ELSE frames[g].children
  <2>1. CASE g = parent
    <3>1. PICK q : q = <<n>>
      OBVIOUS
    <3>2. frames'[g] = [frames[g] EXCEPT !.children = q] /\ IsRun(frames[g])
      BY <1>1, <1>5, <1>6, <2>1, <3>1
    <3>3. PICK r : r = frames[g]
      OBVIOUS
    <3> QED
      BY <2>1, <3>1, <3>2, <3>3 DEF IsRun
  <2>2. CASE g # parent
    BY <1>5, <2>2
  <2> QED
    BY <2>1, <2>2
<1>10. /\ frames'[n].parent = parent /\ frames'[n].by = by /\ frames'[n].children = << >>
       /\ t.ok => /\ frames'[n].task = t.task /\ frames'[n].layer = t.layer
                  /\ frames'[n].saved = globals /\ frames'[n].status = "open"
       /\ ~t.ok => frames'[n].task = NoName /\ frames'[n].status = "threw"
  <2>1. ts[1] = t /\ 1 - 1 = 0
    BY <1>3
  <2>2. CASE t.ok
    <3>1. frames'[n] = Frame(t, parent, by, globals)
      BY <1>5, <1>7, <2>1, <2>2 DEF Started
    <3> HIDE DEF n
    <3> QED
      BY <2>2, <3>1 DEF Frame
  <2>3. CASE ~t.ok
    <3>1. frames'[n] = Rejected(parent, by)
      BY <1>5, <2>1, <2>3 DEF Started
    <3> HIDE DEF n
    <3> QED
      BY <2>3, <3>1 DEF Rejected
  <2> QED
    BY <2>2, <2>3
<1>11. globals' = IF t.ok THEN [env |-> TRUE, super |-> n] ELSE globals
  BY <1>4, <1>8
<1> HIDE DEF n
<1>12. (t.ok => globals' = [env |-> TRUE, super |-> n]) /\ (~t.ok => globals' = globals)
  BY <1>11
<1> QED
  BY <1>5, <1>9, <1>10, <1>12 DEF LaunchedOne, n

\* The run of the command.
LEMMA FirstNested ==
    ASSUME frames = << >>, globals = NoGlobals, NEW t, t.ok = TRUE, LaunchedOne(0, t, "run")
    PROVE  Nested'
<1>1. Len(frames) + 1 = 1 /\ DOMAIN frames' = {1}
  BY EmptyStack DEF LaunchedOne
<1>2. /\ frames'[1].by = "run" /\ frames'[1].children = << >>
      /\ frames'[1].saved = NoGlobals /\ frames'[1].status = "open"
      /\ globals' = [env |-> TRUE, super |-> 1]
  BY <1>1 DEF LaunchedOne
<1>3. NoneAbove(frames', 1) /\ IsOpenIn(frames', 1)
  BY <1>1, <1>2 DEF NoneAbove, IsOpenIn
<1> QED
  BY <1>1, <1>2, <1>3 DEF Nested, AwaitsNext, FoundCaller, RunsParent, InnermostGlobals

\* The innermost run calls a task or a super.
LEMMA LaunchedNested ==
    ASSUME RunsTyped, Nested, NEW f, IsOpen(f), frames[f].children = << >>, NoneAbove(frames, f),
           NEW t, NEW by, LaunchedOne(f, t, by), t.ok \in BOOLEAN,
           (by = "super" /\ t.ok) => t.task = frames[f].task /\ t.layer = frames[f].layer - 1
    PROVE  Nested'
<1>1. PICK n : n = Len(frames) + 1
  OBVIOUS
<1>2. /\ IsSequence(frames) /\ f \in DOMAIN frames /\ Len(frames) \in Nat /\ DOMAIN frames = 1..Len(frames)
      /\ IsOpenIn(frames, f) /\ globals = [env |-> TRUE, super |-> f]
      /\ \A g \in DOMAIN frames :
             frames[g].parent \in Nat /\ frames[g].parent < g /\ (g # 1 => frames[g].parent \in DOMAIN frames)
  <2>1. IsSequence(frames) /\ Len(frames) \in Nat /\ DOMAIN frames = 1..Len(frames)
    BY SequenceDomain DEF RunsTyped
  <2>2. \A g \in DOMAIN frames :
            frames[g].parent \in Nat /\ frames[g].parent < g /\ (g # 1 => frames[g].parent # 0)
    BY DEF RunsTyped, IsRunAt
  <2>3. f \in DOMAIN frames /\ IsOpenIn(frames, f)
    BY DEF IsOpen, IsOpenIn
  <2>4. globals = [env |-> TRUE, super |-> f]
    BY <2>3 DEF Nested, InnermostGlobals
  <2> QED
    BY <2>1, <2>2, <2>3, <2>4
<1>3. /\ DOMAIN frames' = 1..n /\ n \notin DOMAIN frames /\ n > f /\ n # 1 /\ n \in Nat
      /\ DOMAIN frames \subseteq DOMAIN frames'
      /\ \A g \in DOMAIN frames' : g \in DOMAIN frames \/ g = n
  BY <1>1, <1>2 DEF LaunchedOne
<1>4. \A g \in DOMAIN frames :
          /\ frames'[g].task = frames[g].task /\ frames'[g].layer = frames[g].layer
          /\ frames'[g].parent = frames[g].parent /\ frames'[g].by = frames[g].by
          /\ frames'[g].saved = frames[g].saved
          /\ IsOpenIn(frames', g) <=> IsOpenIn(frames, g)
          /\ frames'[g].children = IF g = f THEN <<n>> ELSE frames[g].children
  BY <1>1 DEF LaunchedOne, IsOpenIn
<1>5. /\ frames'[n].parent = f /\ frames'[n].by = by /\ frames'[n].children = << >>
      /\ t.ok => /\ frames'[n].task = t.task /\ frames'[n].layer = t.layer
                 /\ frames'[n].saved = globals /\ frames'[n].status = "open"
                 /\ globals' = [env |-> TRUE, super |-> n]
      /\ ~t.ok => frames'[n].task = NoName /\ frames'[n].status = "threw" /\ globals' = globals
  BY <1>1 DEF LaunchedOne
<1>6. \A g \in DOMAIN frames : IsOpenIn(frames, g) => g <= f
  BY <1>2 DEF NoneAbove
<1>7. \A g \in DOMAIN frames' : RunsParent(frames', g)
  <2>1. \A g \in DOMAIN frames : RunsParent(frames', g)
    BY <1>2, <1>4 DEF Nested, RunsParent
  <2>2. RunsParent(frames', n)
    BY <1>2, <1>3, <1>4, <1>5 DEF RunsParent
  <2> QED
    BY <1>3, <2>1, <2>2
<1>8. ASSUME NEW g \in DOMAIN frames, IsOpenIn(frames', g)
      PROVE  FoundCaller(frames', g)
  <2>1. IsOpenIn(frames, g) /\ FoundCaller(frames, g)
    BY <1>4, <1>8 DEF Nested
  <2>2. CASE g = 1
    BY <1>4, <2>1, <2>2 DEF FoundCaller
  <2>3. CASE g # 1
    <3>1. frames[g].parent \in DOMAIN frames /\ frames[frames[g].parent].children = <<g>>
          /\ IsOpenIn(frames, frames[g].parent)
      BY <1>2, <2>1, <2>3 DEF FoundCaller
    <3>2. frames[g].parent # f
      <4>1. <<g>> # << >>
        OBVIOUS
      <4> QED
        BY <3>1, <4>1
    <3> QED
      BY <1>4, <2>1, <2>3, <3>1, <3>2 DEF FoundCaller
  <2> QED
    BY <2>2, <2>3
<1>9. IsOpenIn(frames', n) => FoundCaller(frames', n)
  BY <1>2, <1>3, <1>4, <1>5 DEF FoundCaller, IsOpenIn
<1>10. ASSUME NEW g \in DOMAIN frames, IsOpenIn(frames', g)
       PROVE  AwaitsNext(frames', g)
  <2>1. CASE g = f
    <3>1. frames'[f].children = <<n>> /\ n \in DOMAIN frames' /\ frames'[n].parent = f
      BY <1>2, <1>3, <1>4, <1>5
    <3>2. ASSUME NEW i \in DOMAIN frames', i > f, IsOpenIn(frames', i)
          PROVE  i = n
      <4>1. i \in DOMAIN frames => IsOpenIn(frames, i)
        BY <1>4, <3>2
      <4> QED
        BY <1>3, <3>2, <4>1 DEF NoneAbove
    <3> QED
      BY <1>3, <2>1, <3>1, <3>2 DEF AwaitsNext
  <2>2. CASE g # f
    <3>1. g < f /\ IsOpenIn(frames, g) /\ AwaitsNext(frames, g)
      BY <1>2, <1>4, <1>6, <1>10, <2>2 DEF Nested
    <3>2. PICK h \in DOMAIN frames :
             /\ frames[g].children = <<h>> /\ h > g /\ frames[h].parent = g
             /\ \A i \in DOMAIN frames : i > g /\ IsOpenIn(frames, i) => IsOpenIn(frames, h) /\ i >= h
      BY <1>2, <3>1 DEF AwaitsNext, NoneAbove
    <3>3. frames'[g].children = <<h>> /\ frames'[h].parent = g /\ IsOpenIn(frames', h) /\ h <= f
      <4>1. IsOpenIn(frames, h) /\ f >= h
        BY <1>2, <3>1, <3>2
      <4> QED
        BY <1>2, <1>4, <2>2, <3>2, <4>1
    <3>4. ASSUME NEW i \in DOMAIN frames', i > g, IsOpenIn(frames', i)
          PROVE  i >= h
      <4>1. CASE i = n
        BY <1>2, <1>3, <3>3, <4>1
      <4>2. CASE i \in DOMAIN frames
        BY <1>4, <3>2, <3>4, <4>2
      <4> QED
        BY <1>3, <4>1, <4>2
    <3> QED
      BY <1>3, <3>2, <3>3, <3>4 DEF AwaitsNext
  <2> QED
    BY <2>1, <2>2
<1>11. NoneAbove(frames', n) /\ AwaitsNext(frames', n)
  BY <1>2, <1>3, <1>5 DEF AwaitsNext, NoneAbove
<1>12. InnermostGlobals(frames', globals')
  <2>1. f \in DOMAIN frames' /\ n \in DOMAIN frames' /\ IsOpenIn(frames', f)
    BY <1>2, <1>3, <1>4
  <2>2. CASE t.ok
    <3>1. IsOpenIn(frames', n) /\ globals' = [env |-> TRUE, super |-> n]
      BY <1>5, <2>2 DEF IsOpenIn
    <3>2. ASSUME NEW g \in DOMAIN frames', NoneAbove(frames', g)
          PROVE  g = n
      <4>1. ~(n > g)
        BY <2>1, <3>1, <3>2 DEF NoneAbove
      <4> QED
        BY <1>3, <4>1
    <3> QED
      BY <2>1, <3>1, <3>2 DEF InnermostGlobals
  <2>3. CASE ~t.ok
    <3>1. ~IsOpenIn(frames', n) /\ globals' = [env |-> TRUE, super |-> f]
      BY <1>2, <1>5, <2>3 DEF IsOpenIn
    <3>2. ASSUME NEW g \in DOMAIN frames', IsOpenIn(frames', g), NoneAbove(frames', g)
          PROVE  g = f
      <4>1. g \in DOMAIN frames /\ g <= f
        BY <1>3, <1>4, <1>6, <3>1, <3>2
      <4>2. ~(f > g)
        BY <2>1, <3>2 DEF NoneAbove
      <4> QED
        BY <1>2, <4>1, <4>2
    <3> QED
      BY <2>1, <3>1, <3>2 DEF InnermostGlobals
  <2> QED
    BY <2>2, <2>3
<1>13. \A g \in DOMAIN frames' : IsOpenIn(frames', g) => AwaitsNext(frames', g) /\ FoundCaller(frames', g)
  BY <1>3, <1>8, <1>9, <1>10, <1>11
<1> QED
  BY <1>7, <1>12, <1>13 DEF Nested

\* When tasks run one at a time now, they did before.
LEMMA OneAtATimeBefore ==
    ASSUME tasks' = tasks, DOMAIN frames \subseteq DOMAIN frames',
           \A g \in DOMAIN frames : frames'[g].task = frames[g].task /\ frames'[g].layer = frames[g].layer,
           OneAtATime'
    PROVE  OneAtATime
<1>1. ASSUME NEW g \in DOMAIN frames
      PROVE  CallsOf(g)' = CallsOf(g)
  BY <1>1 DEF CallsOf, ActionAt
<1> QED
  BY <1>1 DEF OneAtATime

LEMMA OneTargetOfCall ==
    ASSUME LoadTyped, RunsTyped, Nested, OneAtATime, NEW f, IsOpen(f), frames[f].pc <= Len(CallsOf(f)),
           NoneAbove(frames, f)
    PROVE  \E t : /\ Targets(f, CallOf(f)) = <<t>>
                  /\ (ByOf(CallOf(f)) = "super" /\ t.ok) =>
                         t.task = frames[f].task /\ t.layer = frames[f].layer - 1
<1> DEFINE c == CallOf(f)
<1>1. f \in DOMAIN frames /\ frames[f].task # NoName /\ frames[f].pc \in Nat \ {0}
      /\ globals = [env |-> TRUE, super |-> f] /\ f # 0
  <2>1. f \in DOMAIN frames /\ frames[f].task # NoName /\ frames[f].pc \in Nat \ {0} /\ IsOpenIn(frames, f)
    BY DEF RunsTyped, IsRunAt, IsDefinedRun, IsOpen, IsOpenIn
  <2>2. DOMAIN frames = 1..Len(frames) /\ Len(frames) \in Nat
    BY SequenceDomain DEF RunsTyped
  <2> QED
    BY <2>1, <2>2 DEF Nested, InnermostGlobals
<1>2. c.op = "run" => IsSequence(c.runs) /\ Len(c.runs) = 1
  <2>1. Len(CallsOf(f)) \in Nat /\ DOMAIN CallsOf(f) = 1..Len(CallsOf(f))
    BY <1>1, CallsTyped, SequenceDomain
  <2>2. frames[f].pc \in DOMAIN CallsOf(f)
    BY <1>1, <2>1
  <2> QED
    BY <1>1, <2>2, CallsTyped DEF CallOf, OneAtATime
<1> HIDE DEF c
<1>3. CASE c.op = "run"
  <2>1. PICK ts : ts = Targets(f, c)
    OBVIOUS
  <2>2. Len(c.runs) = 1 /\ DOMAIN c.runs = 1..1
    BY <1>2, <1>3, SequenceDomain
  <2>3. ts = [k \in 1..1 |-> ts[k]]
    BY <1>3, <2>1, <2>2 DEF Targets
  <2>4. ts = <<ts[1]>>
    BY <2>3, TabulatedSequence, SingleSequence
  <2> QED
    BY <1>3, <2>1, <2>4 DEF ByOf, c
<1>4. ASSUME NEW args
      PROVE  SuperOf(f, args).ok => /\ SuperOf(f, args).task = frames[f].task
                                    /\ SuperOf(f, args).layer = frames[f].layer - 1
  BY <1>1, SuperOfTyped
<1>5. CASE c.op = "super" \/ c.op = "globalSuper"
  <2>1. Targets(f, c) = <<SuperOf(f, c.args)>>
    BY <1>1, <1>5 DEF Targets
  <2> QED
    BY <1>4, <2>1 DEF c
<1>6. CASE c.op \notin {"run", "super", "globalSuper"}
  <2>1. PICK t : t = [ok |-> FALSE]
    OBVIOUS
  <2>2. Targets(f, c) = <<t>> /\ ~t.ok
    BY <1>6, <2>1 DEF Targets
  <2> QED
    BY <2>2 DEF c
<1> QED
  BY <1>3, <1>5, <1>6

LEMMA CallNested ==
    ASSUME LoadTyped, RunsTyped, Nested, OneAtATime, NEW f, Call(f)
    PROVE  Nested'
<1>1. /\ IsOpen(f) /\ frames[f].children = << >>
      /\ \/ Leave(f, "threw")
         \/ /\ frames' = Launch(f, Targets(f, CallOf(f)), ByOf(CallOf(f))).frames
            /\ globals' = Launch(f, Targets(f, CallOf(f)), ByOf(CallOf(f))).globals
  BY CallPieces
<1>2. f \in DOMAIN frames /\ NoneAbove(frames, f)
  <2>1. f \in DOMAIN frames /\ AwaitsNext(frames, f)
    BY <1>1 DEF Nested, IsOpen, IsOpenIn
  <2>2. \A h : <<h>> # << >>
    OBVIOUS
  <2> QED
    BY <1>1, <2>1, <2>2 DEF AwaitsNext
<1>3. CASE Leave(f, "threw")
  <2>1. PICK r : /\ Continued(f, r) /\ r.status = "threw"
                 /\ frames' = [frames EXCEPT ![f] = r] /\ globals' = frames[f].saved
    BY <1>1, <1>3, LeavePieces
  <2>2. globals' = IF r.status = "open" THEN globals ELSE frames[f].saved
    BY <2>1
  <2> QED
    BY <1>1, <1>2, <2>1, <2>2, ContinuedNested
<1>4. CASE /\ frames' = Launch(f, Targets(f, CallOf(f)), ByOf(CallOf(f))).frames
           /\ globals' = Launch(f, Targets(f, CallOf(f)), ByOf(CallOf(f))).globals
  <2>1. frames[f].pc <= Len(CallsOf(f))
    BY DEF Call
  <2>2. PICK t : /\ Targets(f, CallOf(f)) = <<t>>
                 /\ (ByOf(CallOf(f)) = "super" /\ t.ok) =>
                        t.task = frames[f].task /\ t.layer = frames[f].layer - 1
    BY <1>1, <1>2, <2>1, OneTargetOfCall
  <2>3. IsTarget(t)
    BY <1>1, <2>1, <2>2, TargetsTyped, OneTarget
  <2>4. PICK by : by = ByOf(CallOf(f))
    OBVIOUS
  <2>5. frames' = Launch(f, <<t>>, by).frames /\ globals' = Launch(f, <<t>>, by).globals
    BY <1>4, <2>2, <2>4
  <2>6. LaunchedOne(f, t, by)
    BY <1>2, <2>3, <2>5, LaunchOne
  <2>7. t.ok \in BOOLEAN
    BY <2>3 DEF IsTarget
  <2> QED
    BY <1>1, <1>2, <2>2, <2>4, <2>6, <2>7, LaunchedNested
<1> QED
  BY <1>1, <1>3, <1>4

\* A run whose call has settled, or that has no more calls, is the innermost.
LEMMA SettledInnermost ==
    ASSUME RunsTyped, Nested, NEW f, Settle(f) \/ Return(f)
    PROVE  NoneAbove(frames, f)
<1>1. f \in DOMAIN frames /\ AwaitsNext(frames, f)
  BY DEF Settle, Return, Idle, IsOpen, IsOpenIn, Nested
<1>2. \A h : <<h>> # << >>
  OBVIOUS
<1>3. CASE frames[f].children = << >>
  BY <1>1, <1>2, <1>3 DEF AwaitsNext
<1>4. CASE frames[f].children # << >>
  <2>1. PICK h \in DOMAIN frames :
            /\ frames[f].children = <<h>>
            /\ \A g \in DOMAIN frames : g > f /\ IsOpenIn(frames, g) => IsOpenIn(frames, h)
    BY <1>1, <1>4 DEF AwaitsNext
  <2>2. Children(f) = {h}
    <3>1. PICK s : s = <<h>>
      OBVIOUS
    <3>2. DOMAIN s = 1..1 /\ s[1] = h
      BY <3>1, OneTarget
    <3> QED
      BY <2>1, <3>1, <3>2 DEF Children
  <2>3. frames[h].status \in {"returned", "threw"}
    BY <1>4, <2>2 DEF Settle, Return, Idle
  <2>4. ~IsOpenIn(frames, h)
    BY <2>3 DEF IsOpenIn
  <2> QED
    BY <2>1, <2>4 DEF NoneAbove
<1> QED
  BY <1>3, <1>4

LEMMA RunsNestStep ==
    ASSUME LoadTyped, RunsTyped, RunsNest, RunsTyped', [Next]_vars
    PROVE  RunsNest'
<1> SUFFICES ASSUME phase' = "running", OneAtATime'
             PROVE  Nested'
  BY DEF RunsNest
<1>1. CASE (\E c \in Commands : Start(c.config, c.line)) \/ Define \/ UsePlugin \/ FileLoaded
  <2>1. phase # "running"
    BY <1>1, EmptyStack DEF Start, Define, UsePlugin, FileLoaded, LoadTyped, PhaseTyped
  <2>2. phase' \in {phase, "loading"}
    BY <1>1 DEF Start, Define, UsePlugin, FileLoaded
  <2> QED
    BY <2>1, <2>2
<1>2. CASE LoadFails \/ Exit
  BY <1>2 DEF LoadFails, Exit, Ends
<1>3. CASE RunCommand
  <2>1. CASE Ends("failed")
    BY <2>1 DEF Ends
  <2>2. ASSUME NEW t, IsTarget(t), t.ok = TRUE, frames = << >>, globals = NoGlobals,
               frames' = Launch(0, <<t>>, "run").frames, globals' = Launch(0, <<t>>, "run").globals
        PROVE  Nested'
    BY <2>2, LaunchOne, FirstNested
  <2> QED
    BY <1>3, <2>1, <2>2, CommandPieces
<1>4. ASSUME NEW f \in DOMAIN frames, Call(f) \/ Settle(f) \/ Return(f)
      PROVE  Nested'
  <2>1. /\ IsSequence(frames) /\ IsOpen(f)
        /\ \A g \in DOMAIN frames : IsRunAt(frames, g)
    BY <1>4, CallPieces, SettlePieces DEF RunsTyped
  <2>2. tasks' = tasks /\ phase = "running"
    BY <1>4, CallPieces, SettlePieces DEF loading
  <2>3. ASSUME NEW r, Continued(f, r), frames' = [frames EXCEPT ![f] = r]
        PROVE  OneAtATime
    <3>1. /\ DOMAIN frames' = DOMAIN frames
          /\ \A g \in DOMAIN frames : frames'[g].task = frames[g].task /\ frames'[g].layer = frames[g].layer
      BY <2>1, <2>3, UpdatedSequence DEF Continued
    <3> QED
      BY <2>2, <3>1, OneAtATimeBefore
  <2>4. CASE Settle(f) \/ Return(f)
    <3>1. PICK r : /\ Continued(f, r) /\ frames' = [frames EXCEPT ![f] = r]
                   /\ globals' = IF r.status = "open" THEN globals ELSE frames[f].saved
      <4>1. CASE Proceed(f)
        <5>1. PICK r : /\ Continued(f, r) /\ r.status = "open"
                       /\ frames' = [frames EXCEPT ![f] = r] /\ globals' = globals
          BY <2>1, <4>1, ProceedPieces
        <5> QED
          BY <5>1
      <4>2. ASSUME NEW status \in {"threw", "returned"}, Leave(f, status)
            PROVE  \E r : /\ Continued(f, r) /\ frames' = [frames EXCEPT ![f] = r]
                          /\ globals' = IF r.status = "open" THEN globals ELSE frames[f].saved
        <5>1. PICK r : /\ Continued(f, r) /\ r.status = status
                       /\ frames' = [frames EXCEPT ![f] = r] /\ globals' = frames[f].saved
          BY <2>1, <4>2, LeavePieces
        <5>2. r.status # "open"
          BY <5>1
        <5> QED
          BY <5>1, <5>2
      <4> QED
        BY <2>4, <4>1, <4>2, SettlePieces
    <3>2. Nested
      BY <2>2, <2>3, <3>1 DEF RunsNest
    <3>3. NoneAbove(frames, f)
      BY <2>4, <3>2, SettledInnermost
    <3> QED
      BY <2>1, <3>1, <3>2, <3>3, ContinuedNested
  <2>5. CASE Call(f)
    <3>1. CASE Leave(f, "threw")
      <4>1. PICK r : Continued(f, r) /\ frames' = [frames EXCEPT ![f] = r]
        BY <2>1, <3>1, LeavePieces
      <4> QED
        BY <2>2, <2>3, <2>5, <4>1, CallNested DEF RunsNest
    <3>2. CASE frames' = Launch(f, Targets(f, CallOf(f)), ByOf(CallOf(f))).frames
      <4>1. IsSequence(Targets(f, CallOf(f)))
        BY <2>1, <2>5, TargetsTyped DEF Call
      <4>2. Launched(f, Targets(f, CallOf(f)), ByOf(CallOf(f)), frames')
        BY <2>1, <3>2, <4>1, LaunchedRuns
      <4>3. ASSUME NEW g \in DOMAIN frames
            PROVE  g \in DOMAIN frames' /\ frames'[g].task = frames[g].task
                   /\ frames'[g].layer = frames[g].layer
        <5>1. PICK kids : frames'[g] = IF g = f THEN [frames[g] EXCEPT !.children = kids] ELSE frames[g]
          BY <4>2 DEF Launched
        <5>2. g \in DOMAIN frames'
          <6>1. Len(frames) \in Nat /\ DOMAIN frames = 1..Len(frames)
                /\ Len(Targets(f, CallOf(f))) \in Nat
            BY <2>1, <4>1, SequenceDomain
          <6> QED
            BY <4>2, <6>1 DEF Launched
        <5>3. PICK r : r = frames[g] /\ IsRun(r)
          BY <2>1 DEF IsRunAt
        <5> QED
          BY <5>1, <5>2, <5>3 DEF IsRun
      <4>4. OneAtATime
        BY <2>2, <4>3, OneAtATimeBefore
      <4> QED
        BY <2>2, <2>5, <4>4, CallNested DEF RunsNest
    <3> QED
      BY <2>5, <3>1, <3>2, CallPieces
  <2> QED
    BY <1>4, <2>4, <2>5
<1>5. CASE UNCHANGED vars
  <2>1. UNCHANGED <<frames, globals, tasks, phase>>
    BY <1>5 DEF vars, loading
  <2>2. OneAtATime
    BY <2>1, OneAtATimeBefore
  <2>3. Nested
    BY <2>1, <2>2 DEF RunsNest
  <2> QED
    BY <2>1, <2>3 DEF Nested, AwaitsNext, FoundCaller, RunsParent, InnermostGlobals, NoneAbove, IsOpenIn
<1> QED
  BY <1>1, <1>2, <1>3, <1>4, <1>5 DEF Next, Progress, Load

\* When tasks run one at a time, each open run awaits the next one, which found the globals of
\* its caller and gives them back (runtime-environment.ts:109-134, 166-178).
THEOREM RunsNestInvariant == Spec => []RunsNest
<1>1. Init => RunsNest
  BY DEF Init, RunsNest
<1>2. LoadTyped /\ RunsTyped /\ RunsTyped' /\ RunsNest /\ [Next]_vars => RunsNest'
  BY RunsNestStep
<1> QED
  BY <1>1, <1>2, LoadTypeCorrect, RunsTypeCorrect, PTL DEF Spec

\* When tasks run one at a time, the globals are those of the innermost run, whatever threw
\* and was caught on the way, and nothing is left of them when the command is done: each
\* open run awaits the next, and found what its caller had set
\* (runtime-environment.ts:109-134, 166-178).
THEOREM GlobalsAreInnermost == Spec => []GlobalsInnermost
<1>1. RunsTyped /\ RunsNest => GlobalsInnermost
  BY NestedInnermost DEF RunsNest, GlobalsInnermost
<1> QED
  BY <1>1, RunsTypeCorrect, RunsNestInvariant, PTL

\* When tasks run one at a time, runSuper, also the global one, runs the definition right
\* under that of the run that calls it (runtime-environment.ts:140-164).
THEOREM SuperIsParent == Spec => []SuperRunsParent
<1>1. RunsNest => SuperRunsParent
  BY DEF RunsNest, SuperRunsParent, Nested, RunsParent
<1> QED
  BY <1>1, RunsNestInvariant, PTL

-----------------------------------------------------------------------------
(* The parameters of tasks *)

\* A mandatory parameter has no default.
IsParam(p) ==
    /\ p.name \in ParamName \ (BadCased \cup DOMAIN AlgobParams)
    /\ p.isVariadic \in BOOLEAN /\ p.isOptional \in BOOLEAN
    /\ p.default # NoValue => p.isOptional
\* No two parameters have one name, what may be left out stands last, and so does what takes
\* all that is left.
IsOrdered(def) ==
    /\ IsSequence(def.positional)
    /\ \A n \in DOMAIN def.params :
           IsParam(def.params[n]) /\ def.params[n].name = n /\ ~def.params[n].isVariadic
    /\ \A i \in DOMAIN def.positional :
           IsParam(def.positional[i]) /\ def.positional[i].name \notin DOMAIN def.params
    /\ \A i, j \in DOMAIN def.positional : i < j =>
           /\ def.positional[i].name # def.positional[j].name
           /\ ~def.positional[i].isVariadic
           /\ def.positional[i].isOptional => def.positional[j].isOptional
DefinitionsOrdered == \A n \in DOMAIN tasks : IsOrdered(tasks[n])

LEMMA LayersOnly ==
    ASSUME NEW def, IsDefinition(def), NEW a
    PROVE  /\ Override(def, a).params = def.params /\ Override(def, a).positional = def.positional
           /\ SetAction(def, a).params = def.params /\ SetAction(def, a).positional = def.positional
<1>1. PICK p, q, l : def = [params |-> p, positional |-> q, layers |-> l]
  BY DEF IsDefinition
<1>2. ASSUME NEW m
      PROVE  /\ [[params |-> p, positional |-> q, layers |-> l] EXCEPT !.layers = m].params = p
             /\ [[params |-> p, positional |-> q, layers |-> l] EXCEPT !.layers = m].positional = q
  OBVIOUS
<1>3. def.params = p /\ def.positional = q
  BY <1>1
<1>4. SetAction(def, a) = [def EXCEPT !.layers = [def.layers EXCEPT ![Len(def.layers)] = a]]
  BY DEF SetAction
<1>5. Override(def, a) = [def EXCEPT !.layers = Append(def.layers, a)]
  BY DEF Override
<1> QED
  BY <1>1, <1>2, <1>3, <1>4, <1>5

LEMMA LayersOrdered ==
    ASSUME NEW def, IsDefinition(def), IsOrdered(def), NEW a
    PROVE  IsOrdered(Override(def, a)) /\ IsOrdered(SetAction(def, a))
BY LayersOnly DEF IsOrdered

LEMMA EmptyOrdered == ASSUME NEW a PROVE IsOrdered(EmptyDefinition(a))
<1>1. EmptyDefinition(a).params = << >> /\ EmptyDefinition(a).positional = << >>
  BY DEF EmptyDefinition
<1> QED
  BY <1>1, EmptyStack DEF IsOrdered

LEMMA MadeParam ==
    ASSUME NEW def, NEW c, IsAdd(c), MayAdd(def, c)
    PROVE  /\ IsParam(MakeParam(c)) /\ MakeParam(c).name = c.name
           /\ MakeParam(c).isVariadic = (c.kind = "variadic")
           /\ c.kind # "flag" => MakeParam(c).isOptional = IsOptional(c)
<1>1. c.name \in ParamName /\ c.name \notin BadCased /\ c.name \notin DOMAIN AlgobParams
  BY DEF IsAdd, MayAdd, ValidParamNameCasing, NameNotUsed
<1>2. CASE c.kind = "flag"
  <2>1. /\ MakeParam(c).name = c.name /\ MakeParam(c).isVariadic = FALSE /\ MakeParam(c).isOptional = TRUE
    BY <1>2 DEF MakeParam
  <2> QED
    BY <1>1, <1>2, <2>1 DEF IsParam
<1>3. CASE c.kind # "flag"
  <2>1. /\ MakeParam(c).name = c.name /\ MakeParam(c).isVariadic = (c.kind = "variadic")
        /\ MakeParam(c).isOptional = IsOptional(c)
        /\ MakeParam(c).default = IF c.kind = "variadic" /\ c.default # NoValue THEN <<c.default>> ELSE c.default
    BY <1>3 DEF MakeParam
  <2>2. IsOptional(c) \in BOOLEAN
    BY DEF IsOptional
  <2>3. MakeParam(c).default # NoValue => IsOptional(c)
    BY <1>3, <2>1 DEF MayAdd, NoDefaultForMandatory
  <2> QED
    BY <1>1, <1>3, <2>1, <2>2, <2>3 DEF IsParam
<1> QED
  BY <1>2, <1>3

LEMMA AddOrdered ==
    ASSUME NEW def, IsDefinition(def), IsOrdered(def), NEW c, IsAdd(c), MayAdd(def, c)
    PROVE  IsOrdered(AddParam(def, c))
<1>1. PICK p, q, l : def = [params |-> p, positional |-> q, layers |-> l]
  BY DEF IsDefinition
<1>2. def.params = p /\ def.positional = q
  BY <1>1
<1>3. PICK m : m = MakeParam(c)
  OBVIOUS
<1>4. /\ IsParam(m) /\ m.name = c.name /\ m.isVariadic = (c.kind = "variadic")
      /\ c.kind # "flag" => m.isOptional = IsOptional(c)
  BY <1>3, MadeParam
<1>5. c.name \notin DOMAIN p /\ \A i \in DOMAIN q : q[i].name # c.name
  BY <1>2 DEF MayAdd, NameNotUsed, HasParamDefined
<1>6. CASE IsPositional(c)
  <2>1. AddParam(def, c) = [params |-> p, positional |-> Append(q, m), layers |-> l]
    BY <1>1, <1>3, <1>6 DEF AddParam
  <2>2. PICK r : r = Append(q, m)
    OBVIOUS
  <2>3. IsSequence(r) /\ Len(r) = Len(q) + 1 /\ DOMAIN q = 1..Len(q) /\ Len(q) \in Nat
        /\ DOMAIN r = 1..(Len(q) + 1) /\ r[Len(q) + 1] = m
        /\ \A k \in 1..Len(q) : r[k] = q[k]
    BY <1>2, <2>2, AppendedSequence, SequenceDomain DEF IsOrdered
  <2>4. /\ \A i \in DOMAIN q : ~q[i].isVariadic
        /\ ~m.isOptional => \A i \in DOMAIN q : ~q[i].isOptional
    BY <1>2, <1>4, <1>6 DEF MayAdd, NotAfterVariadic, NoMandatoryAfterOptional, IsPositional
  <2>5. \A i \in DOMAIN q : IsParam(q[i]) /\ q[i].name \notin DOMAIN p
    BY <1>2 DEF IsOrdered
  <2>6. \A i, j \in DOMAIN q : i < j =>
            q[i].name # q[j].name /\ ~q[i].isVariadic /\ (q[i].isOptional => q[j].isOptional)
    BY <1>2 DEF IsOrdered
  <2>7. \A i \in DOMAIN r : IsParam(r[i]) /\ r[i].name \notin DOMAIN p
    BY <1>4, <1>5, <2>3, <2>5
  <2>8. ASSUME NEW i \in DOMAIN r, NEW j \in DOMAIN r, i < j
        PROVE  r[i].name # r[j].name /\ ~r[i].isVariadic /\ (r[i].isOptional => r[j].isOptional)
    <3>1. i \in 1..Len(q) /\ r[i] = q[i]
      BY <2>3, <2>8
    <3>2. CASE j = Len(q) + 1
      BY <1>4, <1>5, <2>3, <2>4, <3>1, <3>2
    <3>3. CASE j # Len(q) + 1
      <4>1. j \in 1..Len(q) /\ r[j] = q[j]
        BY <2>3, <3>3
      <4> QED
        BY <2>3, <2>6, <2>8, <3>1, <4>1
    <3> QED
      BY <3>2, <3>3
  <2>9. AddParam(def, c).params = p /\ AddParam(def, c).positional = r
    BY <2>1, <2>2
  <2> QED
    BY <1>2, <2>3, <2>7, <2>8, <2>9 DEF IsOrdered
<1>7. CASE ~IsPositional(c)
  <2>1. PICK r : r = [n \in DOMAIN p \cup {c.name} |-> IF n = c.name THEN m ELSE p[n]]
    OBVIOUS
  <2>2. AddParam(def, c) = [params |-> r, positional |-> q, layers |-> l]
    BY <1>1, <1>3, <1>7, <2>1 DEF AddParam
  <2>3. AddParam(def, c).params = r /\ AddParam(def, c).positional = q
    BY <2>2
  <2>4. ~m.isVariadic
    BY <1>4, <1>7 DEF IsPositional
  <2>5. DOMAIN r = DOMAIN p \cup {c.name} /\ r[c.name] = m /\ \A n \in DOMAIN p : r[n] = p[n]
    BY <1>5, <2>1
  <2>6. \A n \in DOMAIN r : IsParam(r[n]) /\ r[n].name = n /\ ~r[n].isVariadic
    BY <1>2, <1>4, <2>4, <2>5 DEF IsOrdered
  <2>7. \A i \in DOMAIN q : q[i].name \notin DOMAIN r
    BY <1>2, <1>5, <2>5 DEF IsOrdered
  <2> QED
    BY <1>2, <2>3, <2>6, <2>7 DEF IsOrdered
<1> QED
  BY <1>6, <1>7

LEMMA DefineOrdered ==
    ASSUME LoadTyped, DefinitionsOrdered, Define
    PROVE  DefinitionsOrdered'
<1>1. PICK s : s = Head(Top.body)
  OBVIOUS
<1>2. StackTyped /\ TasksTyped /\ DeclaredTyped /\ stack # << >> /\ Top.body # << >> /\ UseDefinitions(s)
  BY <1>1 DEF LoadTyped, Define
<1>3. IsStatement(s)
  BY <1>1, <1>2, ConsumedTyped
<1>4. ASSUME NEW n, NEW def, IsOrdered(def), tasks' = With(tasks, n, def) PROVE DefinitionsOrdered'
  BY <1>4 DEF With, DefinitionsOrdered
<1>5. ASSUME s.op \in {"add", "action"}
      PROVE  declared \in DOMAIN tasks /\ IsDefinition(tasks[declared]) /\ IsOrdered(tasks[declared])
  BY <1>1, <1>2, <1>5 DEF DeclaredTyped, TasksTyped, DefinitionsOrdered
<1>6. CASE s.op = "task" /\ s.name \in DOMAIN tasks
           /\ tasks' = With(tasks, s.name, Override(tasks[s.name], s.action))
  <2>1. IsOrdered(Override(tasks[s.name], s.action))
    BY <1>2, <1>6, LayersOrdered DEF TasksTyped, DefinitionsOrdered
  <2> QED
    BY <1>4, <1>6, <2>1
<1>7. CASE s.op = "task" /\ tasks' = With(tasks, s.name, EmptyDefinition(s.action))
  BY <1>4, <1>7, EmptyOrdered
<1>8. CASE s.op = "add" /\ MayAdd(tasks[declared], s.call)
           /\ tasks' = With(tasks, declared, AddParam(tasks[declared], s.call))
  <2>1. IsOrdered(AddParam(tasks[declared], s.call))
    BY <1>3, <1>5, <1>8, AddOrdered DEF IsStatement
  <2> QED
    BY <1>4, <1>8, <2>1
<1>9. CASE s.op = "action" /\ tasks' = With(tasks, declared, SetAction(tasks[declared], s.action))
  <2>1. IsOrdered(SetAction(tasks[declared], s.action))
    BY <1>5, <1>9, LayersOrdered
  <2> QED
    BY <1>4, <1>9, <2>1
<1> QED
  BY <1>2, <1>6, <1>7, <1>8, <1>9 DEF UseDefinitions

\* Definitions change when a statement of a file is run, and go with the process.
LEMMA TasksStep ==
    ASSUME LoadTyped, [Next]_vars
    PROVE  Define \/ UNCHANGED tasks \/ (tasks' = << >> /\ phase' = "idle")
<1>1. ASSUME NEW c \in Commands, Start(c.config, c.line) PROVE UNCHANGED tasks
  BY <1>1 DEF Start, loading
<1>2. UsePlugin \/ FileLoaded \/ UNCHANGED vars => UNCHANGED tasks
  BY DEF UsePlugin, FileLoaded, vars, loading
<1>3. (\E outcome : Ends(outcome)) => tasks' = << >> /\ phase' = "idle"
  BY DEF Ends
<1>4. LoadFails => \E outcome : Ends(outcome)
  BY DEF LoadFails
<1>5. UNCHANGED loading => UNCHANGED tasks
  BY DEF loading
<1> QED
  BY <1>1, <1>2, <1>3, <1>4, <1>5, RunStepUnchanged DEF Next, Progress, Load

\* Whatever the config and its plugins define and override, in a definition no two parameters
\* have one name, a mandatory parameter has no default, and of the positional ones those that
\* may be left out stand last, as does the one that takes all that is left
\* (task-definitions.ts:232-321, 394-484, 586-682).
THEOREM DefinitionsAreOrdered == Spec => []DefinitionsOrdered
<1>1. Init => DefinitionsOrdered
  BY DEF Init, DefinitionsOrdered
<1>2. LoadTyped /\ DefinitionsOrdered /\ [Next]_vars => DefinitionsOrdered'
  <2> SUFFICES ASSUME LoadTyped, DefinitionsOrdered, [Next]_vars PROVE DefinitionsOrdered'
    OBVIOUS
  <2>1. UNCHANGED tasks => DefinitionsOrdered'
    BY DEF DefinitionsOrdered
  <2>2. tasks' = << >> => DefinitionsOrdered'
    BY DEF DefinitionsOrdered
  <2> QED
    BY <2>1, <2>2, TasksStep, DefineOrdered
<1> QED
  BY <1>1, <1>2, LoadTypeCorrect, PTL DEF Spec

\* The parameters that a command line must give.
Mandatory(def) == {n \in NamesOf(def) : ~ParamOf(def, n).isOptional}
AsksTheSame(def, old) == def.positional = old.positional /\ Mandatory(def) = Mandatory(old)
OverridesAskNoMore ==
    \A n \in DOMAIN tasks : Len(tasks[n].layers) > 1 =>
        n \in DOMAIN tasks' /\ AsksTheSame(tasks'[n], tasks[n])

LEMMA LayersAsk ==
    ASSUME NEW def, IsDefinition(def), NEW a
    PROVE  AsksTheSame(Override(def, a), def) /\ AsksTheSame(SetAction(def, a), def)
BY LayersOnly DEF AsksTheSame, Mandatory, NamesOf, ParamOf

LEMMA OverrideAsks ==
    ASSUME NEW def, IsDefinition(def), Len(def.layers) > 1, NEW c, IsAdd(c), MayAdd(def, c)
    PROVE  AsksTheSame(AddParam(def, c), def)
<1>1. PICK p, q, l : def = [params |-> p, positional |-> q, layers |-> l]
  BY DEF IsDefinition
<1>2. def.params = p /\ def.positional = q
  BY <1>1
<1>3. c.kind = "flag" \/ (c.kind = "param" /\ c.optional = "yes")
  BY DEF MayAdd, OverrideMayAdd
<1>4. PICK m : m = MakeParam(c)
  OBVIOUS
<1>5. m.isOptional
  <2>1. c.kind = "flag" => m.isOptional
    BY <1>4 DEF MakeParam
  <2>2. c.kind # "flag" => m.isOptional = IsOptional(c)
    BY <1>4, MadeParam
  <2> QED
    BY <1>3, <2>1, <2>2 DEF IsOptional
<1>6. PICK r : r = [n \in DOMAIN p \cup {c.name} |-> IF n = c.name THEN m ELSE p[n]]
  OBVIOUS
<1>7. AddParam(def, c) = [params |-> r, positional |-> q, layers |-> l]
  BY <1>1, <1>3, <1>4, <1>6 DEF AddParam, IsPositional
<1>8. PICK new : new = AddParam(def, c)
  OBVIOUS
<1>9. new.params = r /\ new.positional = q
  BY <1>7, <1>8
<1>10. c.name \notin DOMAIN p /\ \A i \in DOMAIN q : q[i].name # c.name
  BY <1>2 DEF MayAdd, NameNotUsed, HasParamDefined
<1>11. DOMAIN r = DOMAIN p \cup {c.name} /\ r[c.name] = m /\ \A n \in DOMAIN p : r[n] = p[n]
  BY <1>6, <1>10
<1>12. NamesOf(new) = NamesOf(def) \cup {c.name} /\ c.name \notin NamesOf(def)
  BY <1>2, <1>9, <1>10, <1>11 DEF NamesOf
<1>13. ParamOf(new, c.name) = m
  BY <1>9, <1>11 DEF ParamOf
<1>14. ASSUME NEW n \in NamesOf(def) PROVE ParamOf(new, n) = ParamOf(def, n)
  BY <1>2, <1>9, <1>11, <1>12 DEF ParamOf
<1>15. Mandatory(new) = Mandatory(def)
  BY <1>5, <1>12, <1>13, <1>14 DEF Mandatory
<1> QED
  BY <1>2, <1>8, <1>9, <1>15 DEF AsksTheSame

LEMMA DefineAsks ==
    ASSUME LoadTyped, Define
    PROVE  OverridesAskNoMore
<1>1. PICK s : s = Head(Top.body)
  OBVIOUS
<1>2. StackTyped /\ TasksTyped /\ DeclaredTyped /\ stack # << >> /\ Top.body # << >> /\ UseDefinitions(s)
  BY <1>1 DEF LoadTyped, Define
<1>3. IsStatement(s)
  BY <1>1, <1>2, ConsumedTyped
<1>4. ASSUME NEW n, NEW def, tasks' = With(tasks, n, def),
             n \in DOMAIN tasks /\ Len(tasks[n].layers) > 1 => AsksTheSame(def, tasks[n])
      PROVE  OverridesAskNoMore
  BY <1>4 DEF With, OverridesAskNoMore, AsksTheSame
<1>5. s.op \in {"add", "action"} => declared \in DOMAIN tasks
  BY <1>1, <1>2 DEF DeclaredTyped
<1>6. CASE s.op = "task" /\ s.name \in DOMAIN tasks
           /\ tasks' = With(tasks, s.name, Override(tasks[s.name], s.action))
  BY <1>2, <1>4, <1>6, LayersAsk DEF TasksTyped
<1>7. CASE s.op = "task" /\ s.name \notin DOMAIN tasks
           /\ tasks' = With(tasks, s.name, EmptyDefinition(s.action))
  BY <1>4, <1>7
<1>8. CASE s.op = "add" /\ MayAdd(tasks[declared], s.call)
           /\ tasks' = With(tasks, declared, AddParam(tasks[declared], s.call))
  <2>1. IsDefinition(tasks[declared]) /\ IsAdd(s.call)
    BY <1>2, <1>3, <1>5, <1>8 DEF TasksTyped, IsStatement
  <2>2. Len(tasks[declared].layers) > 1 => AsksTheSame(AddParam(tasks[declared], s.call), tasks[declared])
    BY <1>8, <2>1, OverrideAsks
  <2> QED
    BY <1>4, <1>8, <2>2
<1>9. CASE s.op = "action" /\ tasks' = With(tasks, declared, SetAction(tasks[declared], s.action))
  BY <1>2, <1>4, <1>5, <1>9, LayersAsk DEF TasksTyped
<1> QED
  BY <1>2, <1>6, <1>7, <1>8, <1>9 DEF UseDefinitions

\* Until the process ends, nothing that happens to an overridden task changes its positional
\* parameters or asks for one more: what a command line gives the task it overrides is enough
\* for it (task-definitions.ts:586-682).
THEOREM OverrideKeepsCommandLine == Spec => [][phase' # "idle" => OverridesAskNoMore]_vars
<1>1. LoadTyped /\ [Next]_vars => [phase' # "idle" => OverridesAskNoMore]_vars
  <2> SUFFICES ASSUME LoadTyped, [Next]_vars, phase' # "idle" PROVE OverridesAskNoMore
    OBVIOUS
  <2>1. UNCHANGED tasks => OverridesAskNoMore
    BY DEF OverridesAskNoMore, AsksTheSame
  <2> QED
    BY <2>1, TasksStep, DefineAsks
<1> QED
  BY <1>1, LoadTypeCorrect, PTL DEF Spec

\* The value of the positional parameter at i has the text at j.
HasText(positional, raw, i, j) ==
    /\ i <= Len(raw) /\ i <= j
    /\ LET value == PositionalValue(positional, raw, i)
           text  == ParseValue(positional[i].type, raw[j])
       IN  IF positional[i].isVariadic THEN j - i + 1 \in DOMAIN value /\ value[j - i + 1] = text
           ELSE i = j /\ value = text

\* Of the texts left for the positional parameters of a task whose definition is ordered, each
\* is in the value of exactly one, when reading them throws nothing, and is of its type
\* (arguments-parser.ts:251-293).
THEOREM PositionalTextsKept ==
    ASSUME NEW def, IsOrdered(def), NEW raw, IsSequence(raw),
           PositionalsParse(def.positional, raw), NEW j \in DOMAIN raw
    PROVE  \E i \in DOMAIN def.positional :
               /\ HasText(def.positional, raw, i, j) /\ Parses(def.positional[i].type, raw[j])
               /\ \A k \in DOMAIN def.positional : HasText(def.positional, raw, k, j) => k = i
<1>1. PICK q : q = def.positional
  OBVIOUS
<1>2. PICK n : n = Len(q)
  OBVIOUS
<1>3. PICK m : m = Len(raw)
  OBVIOUS
<1>4. n \in Nat /\ DOMAIN q = 1..n /\ m \in Nat /\ DOMAIN raw = 1..m /\ j \in 1..m
  BY <1>1, <1>2, <1>3, SequenceDomain DEF IsOrdered
<1>5. \A i \in 1..n : ~q[i].isVariadic \/ i = n
  <2>1. \A i \in DOMAIN q : \A k \in DOMAIN q : i < k => ~q[i].isVariadic
    BY <1>1 DEF IsOrdered
  <2>2. ASSUME NEW i \in 1..n, i # n PROVE ~q[i].isVariadic
    <3>1. n \in DOMAIN q /\ i \in DOMAIN q /\ i < n
      BY <1>4, <2>2
    <3> QED
      BY <2>1, <3>1
  <2> QED
    BY <2>2
<1>6. /\ \A i \in 1..n : i <= m => IF q[i].isVariadic THEN \A k \in i..m : Parses(q[i].type, raw[k])
                                   ELSE Parses(q[i].type, raw[i])
      /\ m > n => n > 0 /\ q[n].isVariadic
  <2>1. \A i \in DOMAIN q :
           IF i > m THEN q[i].isOptional
           ELSE IF q[i].isVariadic THEN \A k \in i..m : Parses(q[i].type, raw[k])
           ELSE Parses(q[i].type, raw[i])
    BY <1>1, <1>3 DEF PositionalsParse
  <2>2. m > n => q # << >> /\ q[n].isVariadic
    BY <1>1, <1>2, <1>3 DEF PositionalsParse
  <2>3. q # << >> => n > 0
    BY <1>1, <1>2, <1>4 DEF IsOrdered, IsSequence
  <2> QED
    BY <1>4, <2>1, <2>2, <2>3
<1>7. ASSUME NEW i \in 1..n, i <= m, i <= j
      PROVE  /\ q[i].isVariadic => HasText(q, raw, i, j)
             /\ ~q[i].isVariadic => (HasText(q, raw, i, j) <=> i = j)
  <2>1. CASE q[i].isVariadic
    <3>1. PositionalValue(q, raw, i)
          = [k \in 1..(m - i + 1) |-> ParseValue(q[i].type, raw[i + k - 1])]
      BY <1>3, <1>4, <1>7, <2>1 DEF PositionalValue
    <3>2. j - i + 1 \in 1..(m - i + 1) /\ i + (j - i + 1) - 1 = j
      BY <1>4, <1>7
    <3>3. PICK k : k = j - i + 1
      OBVIOUS
    <3>4. k \in DOMAIN PositionalValue(q, raw, i)
          /\ PositionalValue(q, raw, i)[k] = ParseValue(q[i].type, raw[j])
      BY <3>1, <3>2, <3>3
    <3> QED
      BY <1>3, <1>7, <2>1, <3>3, <3>4 DEF HasText
  <2>2. CASE ~q[i].isVariadic
    <3>1. PositionalValue(q, raw, i) = ParseValue(q[i].type, raw[i])
      BY <1>3, <1>4, <1>7, <2>2 DEF PositionalValue
    <3> QED
      BY <1>3, <1>7, <2>2, <3>1 DEF HasText
  <2> QED
    BY <2>1, <2>2
<1>8. ASSUME NEW i \in 1..n, HasText(q, raw, i, j) PROVE i <= m /\ i <= j
  BY <1>3, <1>8 DEF HasText
<1>9. CASE j <= n /\ ~q[j].isVariadic
  <2>1. HasText(q, raw, j, j) /\ Parses(q[j].type, raw[j])
    BY <1>4, <1>6, <1>7, <1>9
  <2>2. ASSUME NEW k \in 1..n, HasText(q, raw, k, j) PROVE k = j
    <3>1. k <= m /\ k <= j
      BY <1>8, <2>2
    <3>2. CASE q[k].isVariadic
      BY <1>4, <1>5, <1>9, <3>1, <3>2
    <3>3. CASE ~q[k].isVariadic
      BY <1>7, <2>2, <3>1, <3>3
    <3> QED
      BY <3>2, <3>3
  <2> QED
    BY <1>1, <1>4, <1>9, <2>1, <2>2
<1>10. CASE ~(j <= n /\ ~q[j].isVariadic)
  <2>1. n > 0 /\ n <= j /\ n <= m /\ q[n].isVariadic
    BY <1>4, <1>5, <1>6, <1>10
  <2>2. HasText(q, raw, n, j) /\ Parses(q[n].type, raw[j])
    BY <1>4, <1>6, <1>7, <2>1
  <2>3. ASSUME NEW k \in 1..n, HasText(q, raw, k, j) PROVE k = n
    <3>1. k <= m /\ k <= j
      BY <1>8, <2>3
    <3>2. CASE q[k].isVariadic
      BY <1>5, <3>2
    <3>3. CASE ~q[k].isVariadic
      <4>1. k = j
        BY <1>7, <2>3, <3>1, <3>3
      <4> QED
        BY <1>4, <2>1, <4>1
    <3> QED
      BY <3>2, <3>3
  <2> QED
    BY <1>1, <1>4, <2>1, <2>2, <2>3
<1> QED
  BY <1>9, <1>10
=============================================================================
