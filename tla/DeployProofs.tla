---------------------------- MODULE DeployProofs ----------------------------
(***************************************************************************)
(* What holds of the deployment tasks.                                        *)
(*                                                                            *)
(* Whatever the scripts do: the types, the checkpoint that a script starts    *)
(* from, what a finished script leaves behind, and the registry that every    *)
(* checkpoint implements.                                                     *)
(*                                                                            *)
(* When scripts keep out of each other's way: the files can be loaded, what   *)
(* they name is on the chain, and what a script sees is of those before it    *)
(* (SoundInv).  If besides no deployment is lost, nothing is deployed twice   *)
(* (OnceOn): each deployment is in a file, in the checkpoint of the script    *)
(* that runs, or at its await, and the code asks for the name in the first    *)
(* two before it deploys (Unknown).                                           *)
(***************************************************************************)
EXTENDS DeployProperties, FiniteSetTheorems, TLAPS

-----------------------------------------------------------------------------
(* Views of the files *)

LEMMA LookupType ==
    ASSUME NEW cps \in Checkpoints, NEW net \in Network, NEW n \in Name
    PROVE  Lookup(cps, net, n) \in Entry \cup {Absent}
BY DEF Lookup, Checkpoints, Checkpoint

LEMMA EmptyLooks ==
    /\ EmptyCheckpoints \in Checkpoints
    /\ EmptyCheckpoint \in Checkpoint
    /\ \A net \in Network, n \in Name : Lookup(EmptyCheckpoints, net, n) = Absent
BY DEF Lookup, Checkpoints, Checkpoint, EmptyCheckpoints, EmptyCheckpoint

LEMMA EnsureNetLooks ==
    ASSUME NEW cps \in Checkpoints, NEW net \in Network
    PROVE  LET new == EnsureNet(cps, net)
           IN  /\ new \in Checkpoints /\ new[net] \in Checkpoint
               /\ \A m \in Network, n \in Name : Lookup(new, m, n) = Lookup(cps, m, n)
               /\ \A m \in Network \ {net} : new[m] = cps[m]
<1>1. EmptyCheckpoint \in Checkpoint
  BY EmptyLooks
<1>2. cps[net] \in Checkpoint \cup {Absent}
  BY DEF Checkpoints
<1> DEFINE made == IF cps[net] = Absent THEN EmptyCheckpoint ELSE cps[net]
<1>3. made \in Checkpoint
  BY <1>1, <1>2
<1>4. EnsureNet(cps, net) = [cps EXCEPT ![net] = made]
  BY DEF EnsureNet
<1>5. made # Absent
  BY <1>3, AbsentAssumption
<1>6. \A n \in Name : made.defs[n] = Lookup(cps, net, n)
  BY DEF Lookup, EmptyCheckpoint
<1> HIDE DEF made
<1> QED
  BY <1>3, <1>4, <1>5, <1>6 DEF Checkpoints, Lookup

\* Writing an entry changes what the view says of that name on that network.
LEMMA SetDefLooks ==
    ASSUME NEW cps \in Checkpoints, NEW net \in Network, NEW n \in Name, NEW entry \in Entry
    PROVE  LET new == SetDef(cps, net, n, entry)
           IN  /\ new \in Checkpoints
               /\ Lookup(new, net, n) = entry
               /\ \A m \in Network, x \in Name :
                      <<m, x>> # <<net, n>> => Lookup(new, m, x) = Lookup(cps, m, x)
               /\ \A m \in Network \ {net} : new[m] = cps[m]
<1> DEFINE made == EnsureNet(cps, net)
           cp == made[net]
           changed == [cp EXCEPT !.defs[n] = entry]
<1>1. /\ made \in Checkpoints /\ cp \in Checkpoint
      /\ \A m \in Network, x \in Name : Lookup(made, m, x) = Lookup(cps, m, x)
      /\ \A m \in Network \ {net} : made[m] = cps[m]
  BY EnsureNetLooks
<1>2. SetDef(cps, net, n, entry) = [made EXCEPT ![net] = changed]
  BY <1>1 DEF SetDef, Checkpoints
<1> HIDE DEF made
<1>3. /\ changed \in Checkpoint /\ changed.defs[n] = entry
      /\ \A x \in Name \ {n} : changed.defs[x] = cp.defs[x]
  BY <1>1 DEF Checkpoint
<1>4. changed # Absent /\ cp # Absent
  BY <1>1, <1>3, AbsentAssumption
<1> HIDE DEF changed
<1> DEFINE new == [made EXCEPT ![net] = changed]
<1>5. new \in Checkpoints /\ new[net] = changed /\ \A m \in Network \ {net} : new[m] = made[m]
  BY <1>1, <1>3 DEF Checkpoints
<1> HIDE DEF new
<1> SUFFICES /\ Lookup(new, net, n) = entry
             /\ \A m \in Network, x \in Name :
                    <<m, x>> # <<net, n>> => Lookup(new, m, x) = Lookup(cps, m, x)
  BY <1>1, <1>2, <1>5 DEF new
<1>6. Lookup(new, net, n) = entry
  BY <1>3, <1>4, <1>5 DEF Lookup
<1>7. ASSUME NEW m \in Network, NEW x \in Name, <<m, x>> # <<net, n>>
      PROVE  Lookup(new, m, x) = Lookup(made, m, x)
  BY <1>3, <1>4, <1>5, <1>7 DEF Lookup
<1> QED
  BY <1>1, <1>6, <1>7

\* Metadata is no definition.
LEMMA SetMetaLooks ==
    ASSUME NEW cps \in Checkpoints, NEW net \in Network, NEW k \in Key, NEW v \in Value
    PROVE  LET new == SetMeta(cps, net, k, v)
           IN  /\ new \in Checkpoints
               /\ \A m \in Network, x \in Name : Lookup(new, m, x) = Lookup(cps, m, x)
               /\ \A m \in Network \ {net} : new[m] = cps[m]
<1> DEFINE made == EnsureNet(cps, net)
           cp == made[net]
           changed == [cp EXCEPT !.meta[k] = v]
<1>1. /\ made \in Checkpoints /\ cp \in Checkpoint
      /\ \A m \in Network, x \in Name : Lookup(made, m, x) = Lookup(cps, m, x)
      /\ \A m \in Network \ {net} : made[m] = cps[m]
  BY EnsureNetLooks
<1>2. SetMeta(cps, net, k, v) = [made EXCEPT ![net] = changed]
  BY <1>1 DEF SetMeta, Checkpoints
<1> HIDE DEF made
<1>3. changed \in Checkpoint /\ changed.defs = cp.defs
  BY <1>1 DEF Checkpoint
<1>4. changed # Absent /\ cp # Absent
  BY <1>1, <1>3, AbsentAssumption
<1> HIDE DEF changed
<1> QED
  BY <1>1, <1>2, <1>3, <1>4 DEF Lookup, Checkpoints

\* Merging: the second view wins.
LEMMA AppendLooks ==
    ASSUME NEW orig \in Checkpoints, NEW append \in Checkpoints
    PROVE  LET new == AppendToCheckpoint(orig, append)
           IN  /\ new \in Checkpoints
               /\ \A net \in Network, n \in Name :
                      Lookup(new, net, n) = IF Lookup(append, net, n) # Absent
                                            THEN Lookup(append, net, n) ELSE Lookup(orig, net, n)
<1> DEFINE new == AppendToCheckpoint(orig, append)
           both(net) == [defs |-> Spread(orig[net].defs, append[net].defs),
                         meta |-> Spread(orig[net].meta, append[net].meta)]
<1>1. ASSUME NEW net \in Network, orig[net] # Absent, append[net] # Absent
      PROVE  /\ both(net) \in Checkpoint
             /\ \A n \in Name : both(net).defs[n] = IF append[net].defs[n] # Absent
                                            THEN append[net].defs[n] ELSE orig[net].defs[n]
  BY <1>1 DEF Checkpoints, Checkpoint, Spread
<1>2. ASSUME NEW net \in Network
      PROVE  new[net] = IF append[net] = Absent THEN orig[net]
                        ELSE IF orig[net] = Absent THEN append[net] ELSE both(net)
  BY <1>2 DEF AppendToCheckpoint
<1>3. new = [net \in Network |-> new[net]]
  BY DEF AppendToCheckpoint
<1>4. \A net \in Network : orig[net] \in Checkpoint \cup {Absent} /\ append[net] \in Checkpoint \cup {Absent}
  BY DEF Checkpoints
<1> HIDE DEF new, both
<1>5. new \in Checkpoints
  BY <1>1, <1>2, <1>3, <1>4 DEF Checkpoints
<1>6. ASSUME NEW net \in Network, NEW n \in Name
      PROVE  Lookup(new, net, n) = IF Lookup(append, net, n) # Absent
                                   THEN Lookup(append, net, n) ELSE Lookup(orig, net, n)
  BY <1>1, <1>2, <1>4, AbsentAssumption DEF Lookup
<1> QED
  BY <1>5, <1>6 DEF new

-----------------------------------------------------------------------------
(* The newest of some scripts *)

\* The least element of a set of natural numbers.
Less == {pair \in Nat \X Nat : pair[1] < pair[2]}
LEMMA LeastNatural ==
    ASSUME NEW S \in SUBSET Nat, S # {}
    PROVE  \E n \in S : \A m \in S : n <= m
<1>1. IsWellFoundedOn(Less, Nat)
  BY NatLessThanWellFounded DEF OpToRel, Less
<1>2. PICK n \in S : \A m \in S : <<m, n>> \notin Less
  BY <1>1, WFMin
<1>3. ASSUME NEW m \in S PROVE n <= m
  <2>1. <<m, n>> \in Nat \X Nat
    OBVIOUS
  <2>2. ~(<<m, n>>[1] < <<m, n>>[2])
    BY <1>2, <2>1 DEF Less
  <2> QED
    BY <2>2
<1> QED
  BY <1>3

\* A finite set of scripts has a last one: a smallest set without one would not be smallest.
LEMMA LastExists ==
    ASSUME NEW D \in SUBSET Script, D # {}
    PROVE  \E s \in D : \A t \in D : t <= s
<1> DEFINE HasLast(T) == \E s \in T : \A t \in T : t <= s
           Sizes == {Cardinality(T) : T \in {T \in SUBSET D : T # {} /\ ~HasLast(T)}}
<1>1. IsFiniteSet(D) /\ D \subseteq Nat
  BY ScriptAssumption, FS_Subset
<1>2. \A T \in SUBSET D : IsFiniteSet(T) /\ Cardinality(T) \in Nat
  BY <1>1, FS_Subset, FS_CardinalityType
<1> SUFFICES ASSUME ~HasLast(D) PROVE FALSE
  OBVIOUS
<1>3. Sizes \subseteq Nat /\ Sizes # {}
  BY <1>2
<1>4. PICK least \in Sizes : \A size \in Sizes : least <= size
  BY <1>3, LeastNatural
<1>5. PICK T \in SUBSET D : T # {} /\ ~HasLast(T) /\ least = Cardinality(T)
  BY <1>4
<1>6. PICK x \in T : TRUE
  BY <1>5
<1>7. Cardinality(T \ {x}) = Cardinality(T) - 1
  BY <1>2, <1>5, <1>6, FS_RemoveElement
<1>8. T \ {x} # {}
  <2>1. SUFFICES ASSUME T = {x} PROVE FALSE
    BY <1>6
  <2>2. x \in Nat
    BY <1>1, <1>6
  <2> QED
    BY <1>5, <2>1, <2>2
<1>9. ~HasLast(T \ {x})
  <2>1. SUFFICES ASSUME NEW s \in T \ {x}, \A t \in T \ {x} : t <= s PROVE FALSE
    OBVIOUS
  <2>2. x \in Nat /\ s \in Nat /\ T \subseteq Nat
    BY <1>1, <1>6
  <2>3. CASE x <= s
    BY <2>1, <2>3, <1>5
  <2>4. CASE s <= x
    <3>1. \A t \in T : t <= x
      BY <2>1, <2>2, <2>4
    <3> QED
      BY <3>1, <1>5, <1>6
  <2> QED
    BY <2>2, <2>3, <2>4
<1>10. Cardinality(T \ {x}) \in Sizes
  BY <1>8, <1>9
<1>11. least <= Cardinality(T \ {x})
  BY <1>4, <1>10
<1>12. Cardinality(T) \in Nat
  BY <1>2
<1> QED
  BY <1>5, <1>7, <1>11, <1>12

LEMMA NewestIs ==
    ASSUME NEW D \in SUBSET Script, D # {}
    PROVE  /\ Newest(D) \in D /\ \A t \in D : t <= Newest(D)
           /\ \A s \in D : (\A t \in D : t <= s) => Newest(D) = s
<1>1. Newest(D) \in D /\ \A t \in D : t <= Newest(D)
  BY LastExists DEF Newest
<1>2. ASSUME NEW s \in D, \A t \in D : t <= s
      PROVE  Newest(D) = s
  <2>1. Newest(D) <= s /\ s <= Newest(D)
    BY <1>1, <1>2
  <2>2. Newest(D) \in Nat /\ s \in Nat
    BY <1>1, ScriptAssumption
  <2> QED
    BY <2>1, <2>2
<1> QED
  BY <1>1, <1>2

-----------------------------------------------------------------------------
(* Merging *)

MergedLookup(fs, S, net, n) ==
    LET D == {s \in S : Lookup(fs[s], net, n) # Absent}
    IN  IF D = {} THEN Absent ELSE Lookup(fs[Newest(D)], net, n)

\* Of several files, the newest that has a name wins.
LEMMA MergedLooks ==
    ASSUME NEW fs \in [Script -> Checkpoints], NEW S \in SUBSET Script
    PROVE  /\ Merged(fs, S) \in Checkpoints
           /\ \A net \in Network, n \in Name :
                  Lookup(Merged(fs, S), net, n) = MergedLookup(fs, S, net, n)
<1> DEFINE KeyOf(net, k) ==
             LET D == {s \in S : LookupKey(fs[s], net, k) # Absent}
             IN  IF D = {} THEN Absent ELSE LookupKey(fs[Newest(D)], net, k)
           Made(net) == [defs |-> [n \in Name |-> MergedLookup(fs, S, net, n)],
                         meta |-> [k \in Key |-> KeyOf(net, k)]]
<1>1. Merged(fs, S) = [net \in Network |->
                          IF \A s \in S : fs[s][net] = Absent THEN Absent ELSE Made(net)]
  BY DEF Merged, MergedLookup
<1>2. ASSUME NEW net \in Network, NEW n \in Name
      PROVE  MergedLookup(fs, S, net, n) \in Entry \cup {Absent}
  <2> DEFINE D == {s \in S : Lookup(fs[s], net, n) # Absent}
  <2>1. CASE D # {}
    BY <2>1, NewestIs, LookupType DEF MergedLookup
  <2> QED
    BY <2>1 DEF MergedLookup
<1>3. ASSUME NEW net \in Network, NEW k \in Key
      PROVE  KeyOf(net, k) \in Value \cup {Absent}
  <2> DEFINE D == {s \in S : LookupKey(fs[s], net, k) # Absent}
  <2>1. CASE D # {}
    <3>1. Newest(D) \in Script
      BY <2>1, NewestIs
    <3>2. fs[Newest(D)][net] \in Checkpoint \cup {Absent}
      BY <3>1 DEF Checkpoints
    <3>3. LookupKey(fs[Newest(D)], net, k) \in Value \cup {Absent}
      BY <3>2 DEF LookupKey, Checkpoint
    <3> QED
      BY <2>1, <3>3
  <2> QED
    BY <2>1
<1>4. \A net \in Network : Made(net) \in Checkpoint
  BY <1>2, <1>3 DEF Checkpoint
<1>5. ASSUME NEW net \in Network, NEW n \in Name, \A s \in S : fs[s][net] = Absent
      PROVE  MergedLookup(fs, S, net, n) = Absent
  BY <1>5 DEF MergedLookup, Lookup
<1>6. \A net \in Network, n \in Name : Made(net).defs[n] = MergedLookup(fs, S, net, n)
  OBVIOUS
<1> HIDE DEF Made
<1> QED
  BY <1>1, <1>4, <1>5, <1>6, AbsentAssumption DEF Checkpoints, Lookup

LEMMA MergedHas ==
    ASSUME NEW fs \in [Script -> Checkpoints], NEW S \in SUBSET Script,
           NEW net \in Network, NEW n \in Name
    PROVE  /\ Lookup(Merged(fs, S), net, n) # Absent =>
                  \E s \in S : Lookup(Merged(fs, S), net, n) = Lookup(fs[s], net, n)
           /\ \A s \in S : Lookup(fs[s], net, n) # Absent => Lookup(Merged(fs, S), net, n) # Absent
           /\ \A s \in S : Lookup(fs[s], net, n) # Absent /\ (\A t \in S : t <= s) =>
                  Lookup(Merged(fs, S), net, n) = Lookup(fs[s], net, n)
<1> DEFINE D == {s \in S : Lookup(fs[s], net, n) # Absent}
<1>1. Lookup(Merged(fs, S), net, n) = MergedLookup(fs, S, net, n)
  BY MergedLooks
<1>2. CASE D = {}
  BY <1>1, <1>2 DEF MergedLookup
<1>3. CASE D # {}
  <2>1. /\ Newest(D) \in D
        /\ \A s \in D : (\A t \in D : t <= s) => Newest(D) = s
    BY <1>3, NewestIs
  <2>2. MergedLookup(fs, S, net, n) = Lookup(fs[Newest(D)], net, n)
    BY <1>3 DEF MergedLookup
  <2>3. ASSUME NEW s \in S, s \in D, \A t \in S : t <= s
        PROVE  Newest(D) = s
    BY <2>1, <2>3
  <2> QED
    BY <1>1, <2>1, <2>2, <2>3
<1> QED
  BY <1>2, <1>3

-----------------------------------------------------------------------------
(* The repo *)

\* A view in which one entry was written, and one in which none was.
WithEntry(old, new, net, n, entry) ==
    /\ new \in Checkpoints
    /\ Lookup(new, net, n) = entry
    /\ \A m \in Network, x \in Name : <<m, x>> # <<net, n>> => Lookup(new, m, x) = Lookup(old, m, x)
    /\ \A m \in Network \ {net} : new[m] = old[m]
WithSameEntries(old, new, net) ==
    /\ new \in Checkpoints
    /\ \A m \in Network, x \in Name : Lookup(new, m, x) = Lookup(old, m, x)
    /\ \A m \in Network \ {net} : new[m] = old[m]

LEMMA RegisterLooks ==
    ASSUME NEW repo \in Repo, NEW net \in Network, NEW n \in Name, NEW entry \in Entry
    PROVE  LET new == Register(repo, net, n, entry)
           IN  /\ new \in Repo
               /\ WithEntry(repo.stripped, new.stripped, net, n, entry)
               /\ WithEntry(repo.preceding, new.preceding, net, n, entry)
               /\ WithEntry(repo.all, new.all, net, n, entry)
<1> DEFINE new == Register(repo, net, n, entry)
<1>1. /\ new.stripped = SetDef(repo.stripped, net, n, entry)
      /\ new.preceding = SetDef(repo.preceding, net, n, entry)
      /\ new.all = SetDef(repo.all, net, n, entry)
      /\ new = [repo EXCEPT !.preceding = new.preceding, !.stripped = new.stripped, !.all = new.all]
  BY DEF Register, Repo
<1>2. /\ repo.stripped \in Checkpoints /\ repo.preceding \in Checkpoints /\ repo.all \in Checkpoints
  BY DEF Repo
<1> HIDE DEF new
<1>3. /\ WithEntry(repo.stripped, new.stripped, net, n, entry)
      /\ WithEntry(repo.preceding, new.preceding, net, n, entry)
      /\ WithEntry(repo.all, new.all, net, n, entry)
  BY <1>1, <1>2, SetDefLooks DEF WithEntry
<1>4. new \in Repo
  BY <1>1, <1>3 DEF Repo, WithEntry
<1> QED
  BY <1>3, <1>4 DEF new

LEMMA PutMetadataLooks ==
    ASSUME NEW repo \in Repo, NEW net \in Network, NEW k \in Key, NEW v \in Value
    PROVE  LET new == PutMetadata(repo, net, k, v)
           IN  /\ new \in Repo
               /\ WithSameEntries(repo.stripped, new.stripped, net)
               /\ WithSameEntries(repo.preceding, new.preceding, net)
               /\ WithSameEntries(repo.all, new.all, net)
<1> DEFINE new == PutMetadata(repo, net, k, v)
<1>1. /\ new.stripped = SetMeta(repo.stripped, net, k, v)
      /\ new.preceding = SetMeta(repo.preceding, net, k, v)
      /\ new.all = SetMeta(repo.all, net, k, v)
      /\ new = [repo EXCEPT !.all = new.all, !.stripped = new.stripped, !.preceding = new.preceding]
  BY DEF PutMetadata, Repo
<1>2. /\ repo.stripped \in Checkpoints /\ repo.preceding \in Checkpoints /\ repo.all \in Checkpoints
  BY DEF Repo
<1> HIDE DEF new
<1>3. /\ WithSameEntries(repo.stripped, new.stripped, net)
      /\ WithSameEntries(repo.preceding, new.preceding, net)
      /\ WithSameEntries(repo.all, new.all, net)
  BY <1>1, <1>2, SetMetaLooks DEF WithSameEntries
<1>4. new \in Repo
  BY <1>1, <1>3 DEF Repo, WithSameEntries
<1> QED
  BY <1>3, <1>4 DEF new

LEMMA ScriptMapType ==
    ASSUME NEW fs, NEW S \in SUBSET Script
    PROVE  ScriptMapOf(fs, S) \in [Name -> Script \cup {Absent}]
<1> SUFFICES ASSUME NEW n \in Name, Definers(fs, S, n) # {}
             PROVE  Newest(Definers(fs, S, n)) \in Script
  BY DEF ScriptMapOf
<1>1. Definers(fs, S, n) \in SUBSET Script
  BY DEF Definers
<1> QED
  BY <1>1, NewestIs

LEMMA EmptyRepoType == EmptyRepo \in Repo
BY EmptyLooks DEF EmptyRepo, Repo

LEMMA LoadType ==
    ASSUME NEW fs \in [Script -> Checkpoints]
    PROVE  /\ LoadCheckpointsRecursive(fs) \in Repo
           /\ LoadCheckpointsRecursive(fs).preceding = EmptyCheckpoints
           /\ LoadCheckpointsRecursive(fs).stripped = EmptyCheckpoints
           /\ LoadCheckpointsRecursive(fs).all = Merged(fs, Script)
<1>1. Merged(fs, Script) \in Checkpoints /\ ScriptMapOf(fs, Script) \in [Name -> Script \cup {Absent}]
  BY MergedLooks, ScriptMapType
<1>2. LoadCheckpointsRecursive(fs) =
          [EmptyRepo EXCEPT !.all = Merged(fs, Script), !.scriptMap = ScriptMapOf(fs, Script)]
  BY DEF LoadCheckpointsRecursive
<1>3. EmptyRepo.preceding = EmptyCheckpoints /\ EmptyRepo.stripped = EmptyCheckpoints
  BY DEF EmptyRepo
<1> QED
  BY <1>1, <1>2, <1>3, EmptyRepoType DEF Repo

LEMMA MergeLooks ==
    ASSUME NEW repo \in Repo, NEW fs \in [Script -> Checkpoints], NEW S \in SUBSET Script, S # {}
    PROVE  LET new == Merge(repo, fs, S)
           IN  /\ new \in Repo /\ new.stripped = fs[Newest(S)]
               /\ \A net \in Network, n \in Name :
                      LET added == Lookup(Merged(fs, S), net, n)
                      IN  /\ Lookup(new.preceding, net, n) =
                                 IF added # Absent THEN added ELSE Lookup(repo.preceding, net, n)
                          /\ Lookup(new.all, net, n) =
                                 IF added # Absent THEN added ELSE Lookup(repo.all, net, n)
<1> DEFINE new == Merge(repo, fs, S)
<1>1. Merged(fs, S) \in Checkpoints /\ ScriptMapOf(fs, S) \in [Name -> Script \cup {Absent}]
  BY MergedLooks, ScriptMapType
<1>2. /\ repo.preceding \in Checkpoints /\ repo.all \in Checkpoints
      /\ repo.scriptMap \in [Name -> Script \cup {Absent}]
  BY DEF Repo
<1>3. Spread(repo.scriptMap, ScriptMapOf(fs, S)) \in [Name -> Script \cup {Absent}]
  BY <1>1, <1>2 DEF Spread
<1>4. fs[Newest(S)] \in Checkpoints
  BY NewestIs
<1>5. AppendToCheckpoint(repo.preceding, Merged(fs, S)) \in Checkpoints
      /\ AppendToCheckpoint(repo.all, Merged(fs, S)) \in Checkpoints
  BY <1>1, <1>2, AppendLooks
<1>6. new \in Repo
  BY <1>3, <1>4, <1>5 DEF Merge, Repo
<1>7. /\ new.stripped = fs[Newest(S)]
      /\ new.preceding = AppendToCheckpoint(repo.preceding, Merged(fs, S))
      /\ new.all = AppendToCheckpoint(repo.all, Merged(fs, S))
  BY DEF Merge
<1> HIDE DEF new
<1> QED
  BY <1>1, <1>2, <1>6, <1>7, AppendLooks DEF new

\* The files can be loaded when no name is in two of them.
LEMMA OneEach ==
    ASSUME NEW fs,
           \A r, s \in Script, n \in Name : n \in Names(fs[r]) /\ n \in Names(fs[s]) => r = s
    PROVE  Loadable(fs)
<1> SUFFICES ASSUME NEW n \in Name
             PROVE  Cardinality(Definers(fs, Script, n)) <= 1
  <2>1. \A m \in Name : EmptyRepo.scriptMap[m] = Absent
    BY DEF EmptyRepo
  <2>2. \A m \in Name : Definers(fs, Script, m) \cup ({EmptyRepo.scriptMap[m]} \ {Absent})
                             = Definers(fs, Script, m)
    BY <2>1
  <2> QED
    BY <2>2 DEF Loadable, NoSecondScript
<1>1. CASE Definers(fs, Script, n) = {}
  BY <1>1, FS_EmptySet
<1>2. CASE Definers(fs, Script, n) # {}
  <2>1. PICK s \in Definers(fs, Script, n) : TRUE
    BY <1>2
  <2>2. Definers(fs, Script, n) = {s}
    BY <2>1 DEF Definers
  <2>3. Cardinality({s}) = 1
    BY FS_Singleton
  <2> QED
    BY <2>2, <2>3
<1> QED
  BY <1>1, <1>2

-----------------------------------------------------------------------------
(* What every behaviour keeps *)

CallState ==
    [step : {"start", "making", "ready", "sent", "recording", "opting", "done"}, made : Nat,
     tx : Nat, asset : Id \cup {NoNumber}, failed : BOOLEAN]
Batch == [net : Network, txns : Seq(Txn), asset : Id \cup {NoNumber},
          status : {"pending", "confirmed", "dropped"}]
Types ==
    /\ files \in [Script -> Checkpoints]
    /\ chain \in Seq(Batch)
    /\ task \in Tasks \cup {NoTask}
    /\ queue \in Seq(Script) /\ dir \subseteq Direct /\ mem \in Repo
    /\ script \in Script \cup {NoScript} /\ stage \in Nat
    /\ calls \in [DOMAIN calls -> CallState]
    /\ told \subseteq (Name \ Lsigs) \X Id
    /\ last \in [outcome : {"none", "ok", "failed", "crashed"}, net : Network \cup {NoTask},
                 script : Script \cup {NoScript}]

\* Where the task is.
Located ==
    /\ task = NoTask <=> queue = << >>
    /\ script # NoScript => queue # << >> /\ script = Head(queue)
    /\ script = NoScript => calls = << >> /\ told = {}
    /\ task # NoTask /\ Writes => \A k \in DOMAIN queue : queue[k] \in Direct
    /\ \A i \in DOMAIN calls : stage \in DOMAIN Body[script] /\ i \in DOMAIN Body[script][stage]

Midway == {"making", "ready", "sent", "recording"}
\* The transactions of a call that have been checked.
Checked(c, st) ==
    IF Sends(c) /\ st.step \in Midway
    THEN {k \in DOMAIN c.txns : st.step = "making" => k <= st.made} ELSE {}
\* The names that a call uses, and has found.
Uses(c, st) ==
    IF c.op = "optin" THEN {}
    ELSE {c.txns[k].name : k \in {k \in Checked(c, st) : c.txns[k].type # "deploy"}}
\* The names that a call is going to deploy, and has found nowhere.
Pending(c, st) ==
    IF c.op = "lsig" THEN {n \in {c.name} : st.step = "ready"}
    ELSE {c.txns[k].name : k \in {k \in Checked(c, st) :
                              c.txns[k].type = "deploy" /\ (st.step = "recording" => k > st.made)}}

\* How far a call is.
CallOK(c, st, net, ch, preceding) ==
    /\ st.step = "start" => st.made = 0
    /\ st.step \in {"making", "recording"} => c.op = "group"
    /\ st.step = "making" => st.made \in 1..(Len(c.txns) - 1)
    /\ st.step = "recording" => st.made \in 0..(Len(c.txns) - 1)
    /\ st.step = "ready" => c.op = "lsig" \/ Sends(c)
    /\ st.step = "opting" => c.op = "deploy"
    /\ st.step \in {"sent", "recording"} =>
           /\ Sends(c) /\ st.tx \in DOMAIN ch
           /\ ch[st.tx].net = net /\ ch[st.tx].txns = c.txns
    /\ st.step = "recording" => ch[st.tx].status = "confirmed"
    /\ \A n \in Uses(c, st) : Lookup(preceding, net, n) # Absent
CallsOK ==
    \A i \in DOMAIN calls :
        /\ CallOK(Call(i), calls[i], task.net, chain, mem.preceding)
        /\ calls[i].step \in {"ready", "sent", "opting"} /\ Call(i).op \in {"deploy", "lsig"} => Writes
        /\ calls[i].step = "recording" => Writes

\* The running script's own checkpoint.
OwnPart ==
    script # NoScript =>
        /\ \A net \in Network \ {task.net} : mem.stripped[net] = files[script][net]
        /\ ~Writes => mem.stripped = files[script]
        /\ \A n \in Name :
               /\ Lookup(files[script], task.net, n) # Absent => Lookup(mem.stripped, task.net, n) # Absent
               /\ Lookup(mem.stripped, task.net, n) # Absent =>
                      Lookup(mem.preceding, task.net, n) = Lookup(mem.stripped, task.net, n)
        /\ \A d \in told : /\ Lookup(mem.stripped, task.net, d[1]) # Absent
                           /\ Lookup(mem.stripped, task.net, d[1]).id = d[2]

Inv == Types /\ Located /\ CallsOK /\ OwnPart

LEMMA NoCalls == << >> \in [DOMAIN << >> -> CallState] /\ DOMAIN << >> = {}
OBVIOUS

LEMMA InitInv == Init => Inv
<1> SUFFICES ASSUME Init PROVE Inv
  OBVIOUS
<1> USE DEF Init
<1>1. files \in [Script -> Checkpoints]
  BY EmptyLooks
<1>2. Types
  BY <1>1, NoCalls, EmptyRepoType DEF Types
<1>3. Located
  BY NoCalls DEF Located
<1>4. CallsOK /\ OwnPart
  BY NoCalls DEF CallsOK, OwnPart
<1> QED
  BY <1>2, <1>3, <1>4 DEF Inv

\* What is known of a call that is under way.
LEMMA CallIs ==
    ASSUME Inv, NEW i \in DOMAIN calls
    PROVE  /\ script \in Script /\ task \in Tasks /\ task.net \in Network /\ queue # << >>
           /\ IsCall(Call(i)) /\ Call(i) \in {Body[script][stage][j] : j \in DOMAIN Body[script][stage]}
           /\ calls[i] \in CallState
<1>1. script # NoScript
  BY NoCalls DEF Inv, Located
<1>2. script \in Script /\ task \in Tasks /\ queue # << >>
  BY <1>1 DEF Inv, Types, Located
<1>3. IsCall(Call(i)) /\ Call(i) \in {Body[script][stage][j] : j \in DOMAIN Body[script][stage]}
  BY <1>2, BodyAssumption DEF Inv, Located, Call
<1>4. calls[i] \in CallState
  BY DEF Inv, Types
<1>5. task.net \in Network
  BY <1>2, TasksAssumption DEF IsTask
<1> QED
  BY <1>2, <1>3, <1>4, <1>5

LEMMA LeaveInv ==
    ASSUME Inv, NEW t \in Tasks, NEW outcome \in {"ok", "failed", "crashed"}, LeaveTask(t, outcome),
           files' \in [Script -> Checkpoints], chain' \in Seq(Batch)
    PROVE  Inv'
<1> USE DEF LeaveTask
<1>1. t.net \in Network
  BY TasksAssumption DEF IsTask
<1>2. last' \in [outcome : {"none", "ok", "failed", "crashed"}, net : Network \cup {NoTask},
                 script : Script \cup {NoScript}]
  BY <1>1 DEF Inv, Types
<1>3. Types'
  BY <1>2, NoCalls, EmptyRepoType DEF Types
<1>4. Located'
  BY NoCalls DEF Located
<1>5. CallsOK' /\ OwnPart'
  BY NoCalls DEF CallsOK, OwnPart
<1> QED
  BY <1>3, <1>4, <1>5 DEF Inv

-----------------------------------------------------------------------------
(* Tasks and scripts keep the invariant *)

LEMMA TailIn ==
    ASSUME NEW S, NEW q \in Seq(S), q # << >>
    PROVE  /\ Head(q) \in S /\ Tail(q) \in Seq(S)
           /\ \A k \in DOMAIN Tail(q) : k + 1 \in DOMAIN q /\ Tail(q)[k] = q[k + 1]
           /\ Tail(q) # << >> => 2 \in DOMAIN q /\ Head(Tail(q)) = q[2]
           /\ 1 \in DOMAIN q /\ Head(q) = q[1]
OBVIOUS

\* A task that goes on after a script.
GoesOn(repo, newDir) ==
    /\ queue' = Tail(queue) /\ mem' = repo /\ dir' = newDir
    /\ script' = NoScript /\ stage' = 0 /\ calls' = << >> /\ told' = {}
    /\ UNCHANGED <<task, last>>

LEMMA GoesOnInv ==
    ASSUME Inv, queue # << >>, Tail(queue) # << >>, NEW repo \in Repo, NEW newDir \in SUBSET Direct,
           GoesOn(repo, newDir), files' \in [Script -> Checkpoints], chain' \in Seq(Batch)
    PROVE  Inv'
<1>1. Types'
  BY TailIn, NoCalls DEF Inv, Types, GoesOn
<1>2. Located'
  <2>1. task # NoTask
    BY DEF Inv, Located
  <2>2. task' # NoTask /\ Writes' => \A k \in DOMAIN queue' : queue'[k] \in Direct
    <3>1. queue \in Seq(Script) /\ queue' = Tail(queue) /\ task' = task
      BY DEF Inv, Types, GoesOn
    <3>2. \A k \in DOMAIN Tail(queue) : k + 1 \in DOMAIN queue /\ Tail(queue)[k] = queue[k + 1]
      BY <3>1, TailIn
    <3> QED
      BY <3>1, <3>2 DEF Inv, Located, Writes
  <2> QED
    BY <2>1, <2>2, NoCalls DEF Located, GoesOn
<1>3. CallsOK' /\ OwnPart'
  BY NoCalls DEF CallsOK, OwnPart, GoesOn
<1> QED
  BY <1>1, <1>2, <1>3 DEF Inv

\* The three ways on after a script: the end, the next script, a new sorted part.
LEMMA AdvanceIs ==
    ASSUME NEW repo, NEW newDir, NEW newFiles, Advance(repo, newDir, newFiles)
    PROVE  \/ LeaveTask(task, "ok") \/ LeaveTask(task, "failed")
           \/ Tail(queue) # << >> /\ Head(Tail(queue)) >= Head(queue) /\ GoesOn(repo, newDir)
           \/ /\ Tail(queue) # << >> /\ Loadable(newFiles)
              /\ GoesOn(LoadCheckpointsRecursive(newFiles), Direct)
BY DEF Advance, GoesOn

LEMMA AdvanceInv ==
    ASSUME Inv, queue # << >>, NEW repo \in Repo, NEW newDir \in SUBSET Direct,
           NEW newFiles \in [Script -> Checkpoints], Advance(repo, newDir, newFiles),
           files' \in [Script -> Checkpoints], chain' \in Seq(Batch)
    PROVE  Inv'
<1>1. task \in Tasks
  BY DEF Inv, Types, Located
<1>2. LoadCheckpointsRecursive(newFiles) \in Repo
  BY LoadType
<1> QED
  BY <1>1, <1>2, AdvanceIs, LeaveInv, GoesOnInv

\* The repo with which NextScript runs or skips the script s.
RepoFor(s) ==
    LET prev  == SplitAfter(s)
        known == IF prev = {} THEN mem ELSE Merge(mem, files, prev)
    IN  IF s \in prev THEN known ELSE Merge(known, files, {s})
LEMMA RepoForLooks ==
    ASSUME Types, NEW s \in Script
    PROVE  /\ SplitAfter(s) \subseteq dir
           /\ RepoFor(s) \in Repo /\ RepoFor(s).stripped = files[s]
           /\ \A net \in Network, n \in Name :
                  LET now == Lookup(RepoFor(s).preceding, net, n)
                  IN  /\ \/ now = Lookup(mem.preceding, net, n)
                         \/ now # Absent /\ \E t \in SplitAfter(s) \cup {s} : now = Lookup(files[t], net, n)
                      /\ \A t \in SplitAfter(s) \cup {s} : Lookup(files[t], net, n) # Absent =>
                             now # Absent /\ \E u \in SplitAfter(s) \cup {s} : now = Lookup(files[u], net, n)
                      /\ Lookup(files[s], net, n) # Absent => now = Lookup(files[s], net, n)
                      /\ now = Absent => Lookup(mem.preceding, net, n) = Absent
           /\ \A net \in Network, n \in Name :
                  Lookup(mem.all, net, n) # Absent => Lookup(RepoFor(s).all, net, n) # Absent
<1> DEFINE prev == SplitAfter(s)
           known == IF prev = {} THEN mem ELSE Merge(mem, files, prev)
<1>1. /\ files \in [Script -> Checkpoints] /\ mem \in Repo
      /\ dir \subseteq Script /\ prev \subseteq dir /\ prev \subseteq Script
  BY BodyAssumption DEF Types, SplitAfter
<1>2. prev # {} =>
          /\ known \in Repo /\ known.stripped = files[Newest(prev)]
          /\ \A net \in Network, n \in Name :
                 LET added == Lookup(Merged(files, prev), net, n)
                 IN  /\ Lookup(known.preceding, net, n) =
                            IF added # Absent THEN added ELSE Lookup(mem.preceding, net, n)
                     /\ Lookup(known.all, net, n) =
                            IF added # Absent THEN added ELSE Lookup(mem.all, net, n)
  BY <1>1, MergeLooks
<1>3. known \in Repo
  BY <1>1, <1>2
<1>4. Newest({s}) = s
  BY NewestIs, ScriptAssumption
<1> HIDE DEF known
<1>5. LET new == Merge(known, files, {s})
      IN  /\ new \in Repo /\ new.stripped = files[s]
          /\ \A net \in Network, n \in Name :
                 LET added == Lookup(Merged(files, {s}), net, n)
                 IN  /\ Lookup(new.preceding, net, n) =
                            IF added # Absent THEN added ELSE Lookup(known.preceding, net, n)
                     /\ Lookup(new.all, net, n) =
                            IF added # Absent THEN added ELSE Lookup(known.all, net, n)
  <2>1. {s} \in SUBSET Script /\ {s} # {}
    OBVIOUS
  <2> QED
    BY <1>1, <1>3, <1>4, <2>1, MergeLooks
<1>6. ASSUME NEW net \in Network, NEW n \in Name
      PROVE  /\ Lookup(Merged(files, prev), net, n) # Absent =>
                    \E t \in prev : Lookup(Merged(files, prev), net, n) = Lookup(files[t], net, n)
             /\ \A t \in prev : Lookup(files[t], net, n) # Absent => Lookup(Merged(files, prev), net, n) # Absent
             /\ \A t \in prev : Lookup(files[t], net, n) # Absent /\ (\A u \in prev : u <= t) =>
                    Lookup(Merged(files, prev), net, n) = Lookup(files[t], net, n)
             /\ Lookup(Merged(files, {s}), net, n) = Lookup(files[s], net, n)
  <2>1. \A u \in {s} : u <= s
    BY ScriptAssumption
  <2> QED
    BY <1>1, <2>1, MergedHas
<1>7. s \in prev => \A u \in prev : u <= s
  BY DEF SplitAfter
<1>8. s \in prev => Newest(prev) = s
  BY <1>1, <1>7, NewestIs
<1>9. RepoFor(s) = IF s \in prev THEN known ELSE Merge(known, files, {s})
  BY DEF RepoFor, known
<1>10. prev = {} => known = mem
  BY DEF known
<1> HIDE DEF prev
<1>11. CASE s \in prev
  BY <1>1, <1>2, <1>6, <1>7, <1>8, <1>9, <1>11 DEF prev
<1>12. CASE s \notin prev
  <2>1. ASSUME NEW net \in Network, NEW n \in Name
        PROVE  /\ \/ Lookup(known.preceding, net, n) = Lookup(mem.preceding, net, n)
                  \/ /\ Lookup(known.preceding, net, n) # Absent
                     /\ \E t \in prev : Lookup(known.preceding, net, n) = Lookup(files[t], net, n)
               /\ \A t \in prev : Lookup(files[t], net, n) # Absent =>
                      /\ Lookup(known.preceding, net, n) # Absent
                      /\ \E u \in prev : Lookup(known.preceding, net, n) = Lookup(files[u], net, n)
               /\ Lookup(known.preceding, net, n) = Absent => Lookup(mem.preceding, net, n) = Absent
               /\ Lookup(mem.all, net, n) # Absent => Lookup(known.all, net, n) # Absent
    <3>1. CASE prev = {}
      BY <1>10, <3>1
    <3>2. CASE prev # {}
      BY <1>2, <1>6, <3>2
    <3> QED
      BY <3>1, <3>2
  <2>2. RepoFor(s) = Merge(known, files, {s})
    BY <1>9, <1>12
  <2> HIDE DEF prev
  <2>3. RepoFor(s) \in Repo /\ RepoFor(s).stripped = files[s] /\ prev \subseteq dir
    BY <1>1, <1>5, <2>2
  <2>4. ASSUME NEW net \in Network, NEW n \in Name
        PROVE  /\ Lookup(RepoFor(s).preceding, net, n) =
                      IF Lookup(files[s], net, n) # Absent
                      THEN Lookup(files[s], net, n) ELSE Lookup(known.preceding, net, n)
               /\ Lookup(RepoFor(s).all, net, n) =
                      IF Lookup(files[s], net, n) # Absent
                      THEN Lookup(files[s], net, n) ELSE Lookup(known.all, net, n)
    BY <1>5, <1>6, <2>2
  <2>5. ASSUME NEW net \in Network, NEW n \in Name
        PROVE  LET now == Lookup(RepoFor(s).preceding, net, n)
               IN  /\ \/ now = Lookup(mem.preceding, net, n)
                      \/ now # Absent /\ \E t \in prev \cup {s} : now = Lookup(files[t], net, n)
                   /\ \A t \in prev \cup {s} : Lookup(files[t], net, n) # Absent =>
                          now # Absent /\ \E u \in prev \cup {s} : now = Lookup(files[u], net, n)
                   /\ Lookup(files[s], net, n) # Absent => now = Lookup(files[s], net, n)
                   /\ now = Absent => Lookup(mem.preceding, net, n) = Absent
                   /\ Lookup(mem.all, net, n) # Absent => Lookup(RepoFor(s).all, net, n) # Absent
    BY <2>1, <2>4
  <2> QED
    BY <2>3, <2>5 DEF prev
<1> QED
  BY <1>11, <1>12

LEMMA FreshIs ==
    ASSUME NEW s \in Script, NEW g \in Nat
    PROVE  /\ Fresh(s, g) \in [DOMAIN Fresh(s, g) -> CallState]
           /\ \A i \in DOMAIN Fresh(s, g) :
                  /\ Fresh(s, g)[i].step = "start" /\ Fresh(s, g)[i].made = 0
                  /\ g \in DOMAIN Body[s] /\ i \in DOMAIN Body[s][g]
<1>1. CASE g \in DOMAIN Body[s]
  BY <1>1 DEF Fresh, CallState
<1>2. CASE g \notin DOMAIN Body[s]
  BY <1>2, NoCalls DEF Fresh
<1> QED
  BY <1>1, <1>2

LEMMA StartTaskInv ==
    ASSUME Inv, NEW t \in Tasks, StartTask(t)
    PROVE  Inv'
<1>1. files' \in [Script -> Checkpoints] /\ chain' \in Seq(Batch)
  BY EmptyLooks DEF StartTask, Inv, Types
<1>2. CASE ~Loadable(files')
  BY <1>1, <1>2, LeaveInv DEF StartTask
<1>3. CASE Loadable(files')
  <2>1. /\ task' = t /\ queue' = t.list /\ dir' = Direct
        /\ mem' = LoadCheckpointsRecursive(files')
        /\ UNCHANGED <<script, stage, calls, told, last>> /\ task = NoTask
    BY <1>3 DEF StartTask
  <2>2. script = NoScript /\ calls = << >> /\ told = {}
    BY <2>1 DEF Inv, Located
  <2>3. IsTask(t)
    BY TasksAssumption
  <2>4. t.list \in Seq(Script) /\ t.list # << >> /\ t \in Tasks
        /\ (t.mode = "deploy" => t.list \in Seq(Direct))
    BY <2>3, BodyAssumption DEF IsTask
  <2>5. mem' \in Repo
    BY <1>1, <2>1, LoadType
  <2>6. Types'
    BY <1>1, <2>1, <2>4, <2>5 DEF Inv, Types
  <2>7. Located'
    <3>1. t # NoTask
      BY NothingAssumption
    <3>2. \A q \in Seq(Direct) : \A k \in DOMAIN q : q[k] \in Direct
      OBVIOUS
    <3> QED
      BY <2>1, <2>2, <2>4, <3>1, <3>2, NoCalls DEF Located, Writes
  <2>8. CallsOK' /\ OwnPart'
    BY <2>1, <2>2, NoCalls DEF CallsOK, OwnPart
  <2> QED
    BY <2>6, <2>7, <2>8 DEF Inv
<1> QED
  BY <1>2, <1>3

\* A script starts.
Starts(s) ==
    /\ script' = s /\ stage' = 1 /\ calls' = Fresh(s, 1)
    /\ mem' = RepoFor(s) /\ dir' = dir \ SplitAfter(s)
    /\ UNCHANGED <<task, queue, told, last>>
LEMMA NextScriptIs ==
    ASSUME NextScript
    PROVE  /\ queue # << >> /\ script = NoScript /\ UNCHANGED <<files, chain>>
           /\ \/ LeaveTask(task, "failed")
              \/ /\ CanMerge(mem, files, SplitAfter(Head(queue)) \cup {Head(queue)})
                 /\ \/ Advance(RepoFor(Head(queue)), dir \ SplitAfter(Head(queue)), files)
                    \/ Starts(Head(queue))
BY DEF NextScript, RepoFor, Starts

LEMMA StartsOwnPart ==
    ASSUME Types, NEW s \in Script, Starts(s), UNCHANGED files, told = {}, task.net \in Network
    PROVE  OwnPart'
<1>1. /\ RepoFor(s) \in Repo /\ RepoFor(s).stripped = files[s]
      /\ \A n \in Name : Lookup(files[s], task.net, n) # Absent =>
             Lookup(RepoFor(s).preceding, task.net, n) = Lookup(files[s], task.net, n)
  BY RepoForLooks
<1> QED
  BY <1>1 DEF OwnPart, Starts

LEMMA NextScriptInv ==
    ASSUME Inv, NextScript
    PROVE  Inv'
<1> DEFINE s == Head(queue)
<1>1. /\ queue # << >> /\ script = NoScript
      /\ files' = files /\ chain' = chain
      /\ files' \in [Script -> Checkpoints] /\ chain' \in Seq(Batch)
  BY NextScriptIs DEF Inv, Types
<1>2. /\ task \in Tasks /\ s \in Script /\ told = {} /\ task.net \in Network
      /\ task # NoTask
  BY <1>1, TailIn, TasksAssumption DEF Inv, Types, Located, IsTask
<1>3. /\ SplitAfter(s) \subseteq dir /\ RepoFor(s) \in Repo /\ dir \ SplitAfter(s) \in SUBSET Direct
  BY <1>2, RepoForLooks DEF Inv, Types
<1>4. CASE LeaveTask(task, "failed")
  BY <1>1, <1>2, <1>4, LeaveInv
<1>5. CASE Advance(RepoFor(s), dir \ SplitAfter(s), files)
  BY <1>1, <1>2, <1>3, <1>5, AdvanceInv
<1>6. CASE Starts(s)
  <2>1. /\ Fresh(s, 1) \in [DOMAIN Fresh(s, 1) -> CallState]
        /\ \A i \in DOMAIN Fresh(s, 1) :
               /\ Fresh(s, 1)[i].step = "start" /\ Fresh(s, 1)[i].made = 0
               /\ 1 \in DOMAIN Body[s] /\ i \in DOMAIN Body[s][1]
    BY <1>2, FreshIs
  <2>2. Types'
    BY <1>1, <1>2, <1>3, <1>6, <2>1 DEF Inv, Types, Starts
  <2>3. Located'
    BY <1>1, <1>2, <1>6, <2>1, NothingAssumption DEF Inv, Located, Starts, Writes
  <2>4. CallsOK'
    <3>1. \A c, st : st.step = "start" => Uses(c, st) = {}
      BY DEF Uses, Checked, Midway
    <3> QED
      BY <1>6, <2>1, <3>1 DEF CallsOK, Starts, CallOK
  <2>5. OwnPart'
    BY <1>1, <1>2, <1>6, StartsOwnPart DEF Inv
  <2> QED
    BY <2>2, <2>3, <2>4, <2>5 DEF Inv
<1> QED
  BY <1>4, <1>5, <1>6, NextScriptIs

LEMMA NextStageInv ==
    ASSUME Inv, NextStage
    PROVE  Inv'
<1>1. /\ script \in Script /\ stage \in Nat /\ script # NoScript
      /\ stage' = stage + 1 /\ calls' = Fresh(script, stage + 1)
      /\ UNCHANGED <<files, chain, task, queue, dir, mem, script, told, last>>
  BY DEF NextStage, StageDone, Inv, Types
<1>2. /\ calls' \in [DOMAIN calls' -> CallState]
      /\ \A i \in DOMAIN calls' :
             /\ calls'[i].step = "start" /\ calls'[i].made = 0
             /\ stage' \in DOMAIN Body[script] /\ i \in DOMAIN Body[script][stage']
  BY <1>1, FreshIs
<1>3. Types'
  BY <1>1, <1>2 DEF Inv, Types
<1>4. Located'
  BY <1>1, <1>2 DEF Inv, Located, Writes
<1>5. CallsOK'
  <2>1. \A c, st : st.step = "start" => Uses(c, st) = {}
    BY DEF Uses, Checked, Midway
  <2> QED
    BY <1>1, <1>2, <2>1 DEF CallsOK, CallOK
<1>6. OwnPart'
  BY <1>1 DEF Inv, OwnPart, Writes
<1> QED
  BY <1>3, <1>4, <1>5, <1>6 DEF Inv

LEMMA Saved ==
    ASSUME Inv, script # NoScript
    PROVE  [files EXCEPT ![script] = mem.stripped] \in [Script -> Checkpoints]
BY DEF Inv, Types, Repo

LEMMA ScriptReturnsInv ==
    ASSUME Inv, ScriptReturns
    PROVE  Inv'
<1>1. script # NoScript /\ queue # << >>
  BY DEF Inv, Located, ScriptReturns, StageDone
<1>2. files' \in [Script -> Checkpoints]
  BY <1>1, Saved DEF ScriptReturns, Inv, Types
<1>3. mem \in Repo /\ dir \in SUBSET Direct /\ chain' \in Seq(Batch)
  BY DEF ScriptReturns, Inv, Types
<1> QED
  BY <1>1, <1>2, <1>3, AdvanceInv DEF ScriptReturns

-----------------------------------------------------------------------------
(* The chain grows *)

\* Transactions are only added and settled.
Grown(C, D) ==
    /\ DOMAIN C \subseteq DOMAIN D
    /\ \A t \in DOMAIN C :
           /\ D[t].net = C[t].net /\ D[t].txns = C[t].txns
           /\ C[t].status = "confirmed" => D[t].status = "confirmed"

LEMMA SameGrown == ASSUME NEW C PROVE Grown(C, C)
BY DEF Grown

LEMMA AppendGrown ==
    ASSUME NEW C \in Seq(Batch), NEW b \in Batch
    PROVE  /\ Append(C, b) \in Seq(Batch) /\ Grown(C, Append(C, b))
           /\ Len(C) + 1 \in DOMAIN Append(C, b) /\ Append(C, b)[Len(C) + 1] = b
           /\ Len(Append(C, b)) = Len(C) + 1
           /\ \A t \in DOMAIN C : Append(C, b)[t] = C[t]
BY DEF Grown

LEMMA SettleGrown ==
    ASSUME NEW C \in Seq(Batch), NEW t \in DOMAIN C, C[t].status = "pending",
           NEW status \in {"confirmed", "dropped"}
    PROVE  /\ [C EXCEPT ![t].status = status] \in Seq(Batch)
           /\ Grown(C, [C EXCEPT ![t].status = status])
           /\ DOMAIN [C EXCEPT ![t].status = status] = DOMAIN C
<1> DEFINE b == [C[t] EXCEPT !.status = status]
           D == [C EXCEPT ![t] = b]
<1>1. /\ b \in Batch /\ b.net = C[t].net /\ b.txns = C[t].txns
      /\ [C EXCEPT ![t].status = status] = D
  <2>1. C[t] \in Batch
    OBVIOUS
  <2>2. [C EXCEPT ![t].status = status] = D
    OBVIOUS
  <2> QED
    BY <2>1, <2>2 DEF Batch
<1> HIDE DEF b
<1>2. D \in Seq(Batch) /\ DOMAIN D = DOMAIN C /\ D[t] = b /\ \A u \in DOMAIN C \ {t} : D[u] = C[u]
  BY <1>1
<1> HIDE DEF D
<1>3. Grown(C, D)
  BY <1>1, <1>2 DEF Grown
<1> QED
  BY <1>1, <1>2, <1>3

LEMMA AcceptedIs ==
    ASSUME Inv, NEW i \in DOMAIN calls, Sends(Call(i))
    PROVE  /\ Accepted(i) \in Seq(Batch) /\ Grown(chain, Accepted(i))
           /\ Len(chain) + 1 \in DOMAIN Accepted(i)
           /\ LET b == Accepted(i)[Len(chain) + 1]
              IN  /\ b.net = task.net /\ b.txns = Call(i).txns
                  /\ b.asset = calls[i].asset /\ b.status = "pending"
           /\ Len(Accepted(i)) = Len(chain) + 1
           /\ \A t \in DOMAIN chain : Accepted(i)[t] = chain[t]
<1> DEFINE b == [net |-> task.net, txns |-> Call(i).txns, asset |-> calls[i].asset,
                 status |-> "pending"]
<1>1. /\ task.net \in Network /\ Call(i).txns \in Seq(Txn) /\ calls[i].asset \in Id \cup {NoNumber}
  BY CallIs DEF IsCall, CallState
<1>2. b \in Batch
  BY <1>1 DEF Batch
<1>3. Accepted(i) = Append(chain, b) /\ chain \in Seq(Batch)
  BY DEF Accepted, Inv, Types
<1>4. b.net = task.net /\ b.txns = Call(i).txns /\ b.asset = calls[i].asset /\ b.status = "pending"
  OBVIOUS
<1> HIDE DEF b
<1> QED
  BY <1>2, <1>3, <1>4, AppendGrown

LEMMA CallStays ==
    ASSUME NEW c, NEW st, NEW net, NEW C, NEW D, NEW old, NEW new,
           CallOK(c, st, net, C, old), Grown(C, D), Uses(c, st) \subseteq Name,
           \A n \in Name : Lookup(old, net, n) # Absent => Lookup(new, net, n) # Absent
    PROVE  CallOK(c, st, net, D, new)
BY DEF CallOK, Grown

LEMMA UsesNames ==
    ASSUME NEW c, IsCall(c), NEW st
    PROVE  Uses(c, st) \subseteq Name \ Lsigs /\ Pending(c, st) \subseteq Name
<1>1. ASSUME Sends(c), NEW k \in DOMAIN c.txns PROVE c.txns[k].name \in Name \ Lsigs
  <2>1. c.txns[k] \in Txn
    BY <1>1 DEF IsCall
  <2> QED
    BY <2>1 DEF Txn
<1>2. Checked(c, st) # {} => Sends(c)
  BY DEF Checked
<1>3. Sends(c) => Checked(c, st) \subseteq DOMAIN c.txns
  BY DEF Checked
<1>4. \A k \in Checked(c, st) : c.txns[k].name \in Name \ Lsigs
  BY <1>1, <1>2, <1>3
<1>5. c.op = "lsig" => c.name \in Name
  BY LsigsAssumption DEF IsCall
<1> QED
  BY <1>4, <1>5 DEF Uses, Pending

-----------------------------------------------------------------------------
(* The calls keep the invariant *)

\* The call i moves to st; what the others have found stays there.
LEMMA MoveInv ==
    ASSUME Inv, NEW i \in DOMAIN calls, NEW st \in CallState,
           calls' = [calls EXCEPT ![i] = st], StillRunning,
           files' \in [Script -> Checkpoints], mem' \in Repo, told' \subseteq (Name \ Lsigs) \X Id,
           chain' \in Seq(Batch), Grown(chain, chain'),
           \A n \in Name : Lookup(mem.preceding, task.net, n) # Absent =>
                               Lookup(mem'.preceding, task.net, n) # Absent,
           CallOK(Call(i), st, task.net, chain', mem'.preceding),
           st.step \in {"ready", "sent", "opting"} /\ Call(i).op \in {"deploy", "lsig"} => Writes,
           st.step = "recording" => Writes,
           OwnPart'
    PROVE  Inv'
<1> USE DEF StillRunning
<1>1. /\ script # NoScript /\ calls \in [DOMAIN calls -> CallState]
      /\ DOMAIN calls' = DOMAIN calls
  BY CallIs, NothingAssumption DEF Inv, Types
<1>2. Types'
  BY <1>1 DEF Inv, Types
<1>3. Located'
  BY <1>1 DEF Inv, Located, Writes
<1>4. CallsOK'
  <2> SUFFICES ASSUME NEW j \in DOMAIN calls
               PROVE  (/\ CallOK(Call(j), calls[j], task.net, chain, mem.preceding)
                       /\ calls[j].step \in {"ready", "sent", "opting"} /\ Call(j).op \in {"deploy", "lsig"} => Writes
                       /\ calls[j].step = "recording" => Writes)'
    BY <1>1 DEF CallsOK
  <2>1. Call(j)' = Call(j) /\ Writes' = Writes /\ task' = task
    BY DEF Call, Writes
  <2>2. CASE j = i
    <3>1. calls'[j] = st
      BY <2>2, <1>1
    <3> QED
      BY <2>1, <2>2, <3>1
  <2>3. CASE j # i
    <3>1. calls'[j] = calls[j]
      BY <2>3, <1>1
    <3>2. Uses(Call(j), calls[j]) \subseteq Name
      BY CallIs, UsesNames
    <3>3. CallOK(Call(j), calls[j], task.net, chain', mem'.preceding)
      BY <3>2, CallStays DEF Inv, CallsOK
    <3> QED
      BY <2>1, <3>1, <3>3 DEF Inv, CallsOK
  <2> QED
    BY <2>2, <2>3
<1> QED
  BY <1>2, <1>3, <1>4 DEF Inv

\* A move that leaves everything else alone, but for transactions that are added.
LEMMA QuietMoveInv ==
    ASSUME Inv, NEW i \in DOMAIN calls, NEW st \in CallState,
           calls' = [calls EXCEPT ![i] = st], StillRunning, UNCHANGED <<files, mem, told>>,
           chain' \in Seq(Batch), Grown(chain, chain'),
           CallOK(Call(i), st, task.net, chain', mem.preceding),
           st.step \in {"ready", "sent", "opting"} /\ Call(i).op \in {"deploy", "lsig"} => Writes,
           st.step = "recording" => Writes
    PROVE  Inv'
<1>1. OwnPart'
  BY DEF Inv, OwnPart, StillRunning, Writes
<1>2. files' \in [Script -> Checkpoints] /\ mem' \in Repo /\ told' \subseteq (Name \ Lsigs) \X Id
  BY DEF Inv, Types
<1> QED
  BY <1>1, <1>2, MoveInv

LEMMA ThrowInv ==
    ASSUME Inv, NEW i \in DOMAIN calls, NEW persists, Throw(i, persists),
           chain' \in Seq(Batch), Grown(chain, chain')
    PROVE  Inv'
<1>1. script # NoScript /\ task \in Tasks /\ calls[i] \in CallState
  BY CallIs, NothingAssumption
<1>2. files' \in [Script -> Checkpoints]
  BY <1>1, Saved DEF Throw, Inv, Types
<1>3. CASE Call(i).caught
  <2> DEFINE st == [calls[i] EXCEPT !.step = "done"]
  <2>1. st \in CallState /\ st.step = "done"
    BY <1>1 DEF CallState
  <2>2. /\ calls' = [calls EXCEPT ![i] = st] /\ StillRunning /\ UNCHANGED <<mem, told>>
    BY <1>3 DEF Throw, Step
  <2>3. OwnPart'
    BY <1>1, <1>2, <2>2 DEF Throw, Inv, OwnPart, StillRunning, Writes, Types
  <2>4. mem' \in Repo /\ told' \subseteq (Name \ Lsigs) \X Id
    BY <2>2 DEF Inv, Types
  <2> HIDE DEF st
  <2>5. CallOK(Call(i), st, task.net, chain', mem'.preceding)
    BY <2>1 DEF CallOK, Uses, Checked, Midway
  <2> QED
    BY <1>2, <2>1, <2>2, <2>3, <2>4, <2>5, MoveInv
<1>4. CASE ~Call(i).caught
  BY <1>1, <1>2, <1>4, LeaveInv DEF Throw
<1> QED
  BY <1>3, <1>4

LEMMA RegisterOwnPart ==
    ASSUME Inv, script # NoScript, Writes, task.net \in Network, NEW n \in Name, NEW entry \in Entry,
           mem' = Register(mem, task.net, n, entry), StillRunning, UNCHANGED files,
           \A d \in told' : d[1] \in Name /\ (\/ d[1] = n /\ d[2] = entry.id
                                              \/ d \in told /\ d[1] # n)
    PROVE  /\ OwnPart' /\ mem' \in Repo
           /\ \A x \in Name : Lookup(mem.preceding, task.net, x) # Absent =>
                                  Lookup(mem'.preceding, task.net, x) # Absent
<1>1. /\ mem' \in Repo
      /\ WithEntry(mem.stripped, mem'.stripped, task.net, n, entry)
      /\ WithEntry(mem.preceding, mem'.preceding, task.net, n, entry)
  BY RegisterLooks DEF Inv, Types
<1>2. entry # Absent
  BY AbsentAssumption
<1>3. \A x \in Name : <<task.net, x>> # <<task.net, n>> <=> x # n
  OBVIOUS
<1>4. /\ Lookup(mem'.stripped, task.net, n) = entry /\ Lookup(mem'.preceding, task.net, n) = entry
      /\ \A x \in Name \ {n} : /\ Lookup(mem'.stripped, task.net, x) = Lookup(mem.stripped, task.net, x)
                               /\ Lookup(mem'.preceding, task.net, x) = Lookup(mem.preceding, task.net, x)
      /\ \A net \in Network \ {task.net} : mem'.stripped[net] = mem.stripped[net]
  BY <1>1, <1>3 DEF WithEntry
<1>5. script' = script /\ task' = task /\ files' = files /\ Writes'
  BY DEF StillRunning, Writes
<1>6. /\ \A net \in Network \ {task.net} : mem.stripped[net] = files[script][net]
      /\ \A x \in Name :
             /\ Lookup(files[script], task.net, x) # Absent => Lookup(mem.stripped, task.net, x) # Absent
             /\ Lookup(mem.stripped, task.net, x) # Absent =>
                    Lookup(mem.preceding, task.net, x) = Lookup(mem.stripped, task.net, x)
      /\ \A d \in told : /\ Lookup(mem.stripped, task.net, d[1]) # Absent
                         /\ Lookup(mem.stripped, task.net, d[1]).id = d[2]
  BY DEF Inv, OwnPart
<1>7. \A d \in told' : /\ Lookup(mem'.stripped, task.net, d[1]) # Absent
                       /\ Lookup(mem'.stripped, task.net, d[1]).id = d[2]
  BY <1>2, <1>4, <1>6
<1>8. OwnPart'
  BY <1>2, <1>4, <1>5, <1>6, <1>7 DEF OwnPart
<1> QED
  BY <1>1, <1>2, <1>4, <1>8

LEMMA OptInByNumberInv ==
    ASSUME Inv, NEW i \in DOMAIN calls, Call(i).op = "optin", NEW failed \in BOOLEAN,
           OptInByNumber(i, failed), chain' \in Seq(Batch), Grown(chain, chain')
    PROVE  Inv'
<1>1. CASE Call(i).number = NoNumber
  BY <1>1, ThrowInv DEF OptInByNumber
<1>2. CASE Call(i).number # NoNumber
  <2> DEFINE st == [calls[i] EXCEPT !.step = "ready", !.made = 1, !.asset = Call(i).number, !.failed = failed]
  <2>1. Call(i).number \in Id /\ calls[i] \in CallState /\ Sends(Call(i))
    BY <1>2, CallIs DEF IsCall, Sends
  <2>2. st \in CallState /\ st.step = "ready"
    BY <2>1 DEF CallState
  <2>3. calls' = [calls EXCEPT ![i] = st] /\ UNCHANGED <<files, mem, told>> /\ StillRunning
    BY <1>2 DEF OptInByNumber
  <2> HIDE DEF st
  <2>4. CallOK(Call(i), st, task.net, chain', mem.preceding)
    BY <2>1, <2>2 DEF CallOK, Uses
  <2> QED
    BY <2>2, <2>3, <2>4, QuietMoveInv
<1> QED
  BY <1>1, <1>2

LEMMA SameChain ==
    ASSUME Inv, UNCHANGED chain
    PROVE  chain' \in Seq(Batch) /\ Grown(chain, chain')
BY SameGrown DEF Inv, Types

\* The step of a call when only that changes.
LEMMA StepInv ==
    ASSUME Inv, NEW i \in DOMAIN calls, NEW step \in {"ready", "done"}, Step(i, step), Quietly,
           step = "ready" => /\ Call(i).op = "lsig" \/ Sends(Call(i))
                             /\ Call(i).op \in {"deploy", "lsig"} => Writes
                             /\ \A n \in Uses(Call(i), [calls[i] EXCEPT !.step = step]) :
                                    Lookup(mem.preceding, task.net, n) # Absent
    PROVE  Inv'
<1> DEFINE st == [calls[i] EXCEPT !.step = step]
<1>1. st \in CallState /\ st.step = step
  BY CallIs DEF CallState
<1>2. calls' = [calls EXCEPT ![i] = st] /\ StillRunning /\ UNCHANGED <<files, mem, told, chain>>
  BY DEF Step, Quietly
<1>3. CallOK(Call(i), st, task.net, chain, mem.preceding)
  <2>1. CASE step = "done"
    BY <1>1, <2>1 DEF CallOK, Uses, Checked, Midway
  <2>2. CASE step = "ready"
    BY <1>1, <2>2 DEF CallOK
  <2> QED
    BY <2>1, <2>2
<1>4. chain' \in Seq(Batch) /\ Grown(chain, chain')
  BY <1>2, SameChain
<1> HIDE DEF st
<1> QED
  BY <1>1, <1>2, <1>3, <1>4, QuietMoveInv

LEMMA RefuseInv == ASSUME Inv, NEW i \in DOMAIN calls, Refuse(i) PROVE Inv'
BY SameChain, ThrowInv DEF Refuse

LEMMA BeginInv == ASSUME Inv, NEW i \in DOMAIN calls, Begin(i) PROVE Inv'
<1> DEFINE name == IF Call(i).op = "lsig" THEN Call(i).name ELSE Call(i).txns[1].name
<1>1. CASE Defined(name)
  BY <1>1, SameChain, ThrowInv DEF Begin
<1>2. CASE ~Defined(name)
  <2>1. Step(i, "ready") /\ Quietly /\ Writes /\ Call(i).op \in {"deploy", "lsig"}
    BY <1>2 DEF Begin
  <2>2. \A st : Uses(Call(i), st) = {}
    <3>1. Call(i).op = "deploy" => DOMAIN Call(i).txns = {1} /\ Call(i).txns[1].type = "deploy"
      BY CallIs DEF IsCall, Sends
    <3> QED
      BY <2>1, <3>1 DEF Uses, Checked, Sends
  <2> QED
    BY <2>1, <2>2, StepInv DEF Sends
<1> QED
  BY <1>1, <1>2

LEMMA BeginUpdateInv == ASSUME Inv, NEW i \in DOMAIN calls, BeginUpdate(i) PROVE Inv'
<1>1. CASE Def(Call(i).txns[1].name) = Absent \/ Deleted(Call(i))
  BY <1>1, SameChain, ThrowInv DEF BeginUpdate
<1>2. CASE ~(Def(Call(i).txns[1].name) = Absent \/ Deleted(Call(i)))
  <2>1. Step(i, "ready") /\ Quietly /\ Call(i).op = "update"
    BY <1>2 DEF BeginUpdate
  <2>2. DOMAIN Call(i).txns = {1}
    BY <2>1, CallIs DEF IsCall, Sends
  <2>3. \A st : Uses(Call(i), st) \subseteq {Call(i).txns[1].name}
    BY <2>2 DEF Uses, Checked
  <2>4. Lookup(mem.preceding, task.net, Call(i).txns[1].name) # Absent
    BY <1>2 DEF Def
  <2> QED
    BY <2>1, <2>3, <2>4, StepInv DEF Sends
<1> QED
  BY <1>1, <1>2

LEMMA BeginFundInv == ASSUME Inv, NEW i \in DOMAIN calls, BeginFund(i) PROVE Inv'
<1>1. Step(i, "ready") /\ Quietly /\ Call(i).op = "fund"
  BY DEF BeginFund
<1>2. DOMAIN Call(i).txns = {}
  BY <1>1, CallIs DEF IsCall
<1>3. \A st : Uses(Call(i), st) = {}
  BY <1>2 DEF Uses, Checked
<1> QED
  BY <1>1, <1>3, StepInv DEF Sends

LEMMA OptInInv == ASSUME Inv, NEW i \in DOMAIN calls, OptIn(i) PROVE Inv'
BY StepInv DEF OptIn

LEMMA BeginOptInInv == ASSUME Inv, NEW i \in DOMAIN calls, BeginOptIn(i) PROVE Inv'
<1>1. Call(i).op = "optin" /\ chain' = chain
  BY DEF BeginOptIn
<1>2. chain' \in Seq(Batch) /\ Grown(chain, chain')
  BY <1>1, SameChain
<1>3. CASE Deleted(Call(i))
  BY <1>2, <1>3, ThrowInv DEF BeginOptIn
<1>4. CASE ~Deleted(Call(i)) /\ Def(Call(i).txns[1].name) = Absent
  BY <1>1, <1>2, <1>4, OptInByNumberInv DEF BeginOptIn
<1>5. CASE ~Deleted(Call(i)) /\ Def(Call(i).txns[1].name) # Absent
  <2> DEFINE id == Def(Call(i).txns[1].name).id
             st == [calls[i] EXCEPT !.step = "ready", !.asset = id]
  <2>1. Call(i).txns[1].name \in Name
    BY <1>1, CallIs DEF IsCall, Sends, Txn
  <2>2. id \in Id
    <3>1. mem.preceding \in Checkpoints /\ task.net \in Network
      BY CallIs DEF Inv, Types, Repo
    <3> QED
      BY <1>5, <2>1, <3>1, LookupType DEF Def, Entry
  <2>3. calls' = [calls EXCEPT ![i] = st] /\ StillRunning /\ UNCHANGED <<files, mem, told, chain>>
    BY <1>5 DEF BeginOptIn, OptsIn, Quietly
  <2>4. st \in CallState /\ st.step = "ready"
    BY <2>2, CallIs DEF CallState
  <2> HIDE DEF st
  <2>5. CallOK(Call(i), st, task.net, chain, mem.preceding)
    BY <1>1, <2>4 DEF CallOK, Uses, Sends
  <2> QED
    BY <1>1, <1>2, <2>3, <2>4, <2>5, QuietMoveInv
<1> QED
  BY <1>3, <1>4, <1>5

LEMMA MakeTxInv == ASSUME Inv, NEW i \in DOMAIN calls, MakeTx(i) PROVE Inv'
<1> DEFINE c == Call(i)
           k == calls[i].made + 1
           t == c.txns[k]
<1>1. /\ c.op = "group" /\ Sends(c) /\ c.txns \in Seq(Txn) /\ Len(c.txns) > 0
      /\ calls[i] \in CallState /\ (At(i, "start") \/ At(i, "making"))
  BY CallIs DEF MakeTx, IsCall, Sends
<1>2. CASE (k = 1 /\ Deleted(c)) \/ (t.type = "deploy" /\ Defined(t.name)) \/ (t.type # "deploy" /\ Def(t.name) = Absent)
  BY <1>2, SameChain, ThrowInv DEF MakeTx
<1>3. CASE ~((k = 1 /\ Deleted(c)) \/ (t.type = "deploy" /\ Defined(t.name)) \/ (t.type # "deploy" /\ Def(t.name) = Absent))
  <2> DEFINE step == IF k = Len(c.txns) THEN "ready" ELSE "making"
             st == [calls[i] EXCEPT !.made = k, !.step = step]
  <2>1. calls' = [calls EXCEPT ![i] = st] /\ StillRunning /\ UNCHANGED <<files, mem, told, chain>>
    BY <1>3 DEF MakeTx, Quietly
  <2>4. calls[i].made \in Nat
    BY <1>1 DEF CallState
  <2>2. st \in CallState /\ st.step = step /\ st.made = k
    <3>1. k \in Nat /\ step \in {"ready", "making"} /\ calls[i] \in CallState
      BY <1>1, <2>4
    <3> HIDE DEF k, step
    <3> QED
      BY <3>1 DEF CallState
  <2>3. CallOK(c, calls[i], task.net, chain, mem.preceding)
    BY DEF Inv, CallsOK
  <2> HIDE DEF st
  <2>5. k \in 1..Len(c.txns)
    <3>1. CASE At(i, "start")
      BY <1>1, <2>3, <3>1 DEF CallOK, At
    <3>2. CASE At(i, "making")
      BY <1>1, <2>3, <2>4, <3>2 DEF CallOK, At
    <3> QED
      BY <1>1, <3>1, <3>2
  <2>6. \A j \in DOMAIN c.txns : j <= k /\ c.txns[j].type # "deploy" =>
             Lookup(mem.preceding, task.net, c.txns[j].name) # Absent
    <3> SUFFICES ASSUME NEW j \in DOMAIN c.txns, j <= k, c.txns[j].type # "deploy"
                 PROVE  Lookup(mem.preceding, task.net, c.txns[j].name) # Absent
      OBVIOUS
    <3>1. CASE j = k
      BY <1>3, <3>1 DEF Def
    <3>2. CASE j # k
      <4>1. j <= calls[i].made /\ j >= 1
        BY <1>1, <2>4, <3>2
      <4>2. At(i, "making")
        BY <1>1, <2>3, <2>4, <4>1 DEF CallOK, At
      <4>3. j \in Checked(c, calls[i])
        BY <1>1, <4>1, <4>2 DEF Checked, Midway, At
      <4> QED
        BY <1>1, <2>3, <4>3 DEF CallOK, Uses
    <3> QED
      BY <3>1, <3>2
  <2>7. step = "ready" => \A j \in DOMAIN c.txns : j <= k
    BY <1>1
  <2>8. \A n \in Uses(c, st) : Lookup(mem.preceding, task.net, n) # Absent
    BY <2>2, <2>6, <2>7 DEF Uses, Checked
  <2>9. CallOK(c, st, task.net, chain, mem.preceding)
    BY <1>1, <2>2, <2>5, <2>8 DEF CallOK
  <2> QED
    BY <1>1, <2>1, <2>2, <2>9, SameChain, QuietMoveInv
<1> QED
  BY <1>2, <1>3

LEMMA AddCheckpointKVInv == ASSUME Inv, NEW i \in DOMAIN calls, AddCheckpointKV(i) PROVE Inv'
<1> DEFINE found == GetMetadata(mem, task.net, Call(i).key)
<1>1. CASE found \notin {Absent, Call(i).value}
  BY <1>1, SameChain, ThrowInv DEF AddCheckpointKV
<1>2. CASE found \in {Absent, Call(i).value}
  <2>1. /\ Call(i).op = "kv" /\ Writes /\ calls[i] \in CallState /\ task.net \in Network
        /\ Call(i).key \in Key /\ Call(i).value \in Value /\ script # NoScript
    BY CallIs, NothingAssumption DEF AddCheckpointKV, IsCall
  <2>2. /\ mem' \in {mem, PutMetadata(mem, task.net, Call(i).key, Call(i).value)}
        /\ Step(i, "done") /\ UNCHANGED <<files, chain, told>> /\ StillRunning
    BY <1>2 DEF AddCheckpointKV
  <2> DEFINE st == [calls[i] EXCEPT !.step = "done"]
  <2>3. /\ mem' \in Repo
        /\ WithSameEntries(mem.stripped, mem'.stripped, task.net)
        /\ WithSameEntries(mem.preceding, mem'.preceding, task.net)
    <3>1. mem \in Repo
      BY DEF Inv, Types
    <3>2. CASE mem' = mem
      BY <3>1, <3>2 DEF WithSameEntries, Repo
    <3>3. CASE mem' # mem
      BY <2>1, <2>2, <3>1, <3>3, PutMetadataLooks
    <3> QED
      BY <3>2, <3>3
  <2>4. OwnPart'
    <3>1. /\ \A x \in Name : /\ Lookup(mem'.stripped, task.net, x) = Lookup(mem.stripped, task.net, x)
                             /\ Lookup(mem'.preceding, task.net, x) = Lookup(mem.preceding, task.net, x)
          /\ \A net \in Network \ {task.net} : mem'.stripped[net] = mem.stripped[net]
      BY <2>1, <2>3 DEF WithSameEntries
    <3>2. \A d \in told : d[1] \in Name
      BY DEF Inv, Types
    <3>3. script' = script /\ task' = task /\ files' = files /\ told' = told /\ Writes'
      BY <2>1, <2>2 DEF StillRunning, Writes
    <3> QED
      BY <2>1, <3>1, <3>2, <3>3 DEF Inv, OwnPart
  <2>5. calls' = [calls EXCEPT ![i] = st] /\ st \in CallState /\ st.step = "done"
    BY <2>1, <2>2 DEF Step, CallState
  <2> HIDE DEF st
  <2>6. CallOK(Call(i), st, task.net, chain', mem'.preceding)
    BY <2>5 DEF CallOK, Uses, Checked, Midway
  <2>7. \A n \in Name : Lookup(mem.preceding, task.net, n) # Absent =>
                            Lookup(mem'.preceding, task.net, n) # Absent
    BY <2>1, <2>3 DEF WithSameEntries
  <2>8. files' \in [Script -> Checkpoints] /\ told' \subseteq (Name \ Lsigs) \X Id
    BY <2>2 DEF Inv, Types
  <2> QED
    BY <2>2, <2>3, <2>4, <2>5, <2>6, <2>7, <2>8, SameChain, MoveInv
<1> QED
  BY <1>1, <1>2

LEMMA SignLsigInv == ASSUME Inv, NEW i \in DOMAIN calls, SignLsig(i) PROVE Inv'
<1> DEFINE st == [calls[i] EXCEPT !.step = "done"]
           entry == [id |-> <<0, 0>>, deleted |-> FALSE]
<1>1. /\ Call(i).op = "lsig" /\ calls[i].step = "ready" /\ script # NoScript
      /\ mem' = Register(mem, task.net, Call(i).name, entry)
      /\ Step(i, "done") /\ UNCHANGED <<files, chain, told>> /\ StillRunning
  BY DEF SignLsig, At
<1>2. /\ Writes /\ Call(i).name \in Lsigs /\ Call(i).name \in Name /\ calls[i] \in CallState
      /\ task.net \in Network
  BY <1>1, CallIs, LsigsAssumption DEF Inv, CallsOK, IsCall
<1>3. entry \in Entry
  BY DEF Entry, Id
<1>4. \A d \in told' : d[1] \in Name /\ d \in told /\ d[1] # Call(i).name
  BY <1>1, <1>2 DEF Inv, Types
<1> HIDE DEF entry
<1>5. /\ OwnPart' /\ mem' \in Repo
      /\ \A x \in Name : Lookup(mem.preceding, task.net, x) # Absent =>
                             Lookup(mem'.preceding, task.net, x) # Absent
  BY <1>1, <1>2, <1>3, <1>4, RegisterOwnPart
<1>6. calls' = [calls EXCEPT ![i] = st] /\ st \in CallState /\ st.step = "done"
  BY <1>1, <1>2 DEF Step, CallState
<1> HIDE DEF st
<1>7. CallOK(Call(i), st, task.net, chain', mem'.preceding)
  BY <1>6 DEF CallOK, Uses, Checked, Midway
<1>8. files' \in [Script -> Checkpoints] /\ told' \subseteq (Name \ Lsigs) \X Id
  BY <1>1 DEF Inv, Types
<1> QED
  BY <1>1, <1>5, <1>6, <1>7, <1>8, SameChain, MoveInv

LEMMA SendInv == ASSUME Inv, NEW i \in DOMAIN calls, Send(i) PROVE Inv'
<1> DEFINE new == Len(chain) + 1
           st == [calls[i] EXCEPT !.step = "sent", !.tx = new]
<1>1. /\ calls[i].step = "ready" /\ Sends(Call(i)) /\ chain' = Accepted(i)
      /\ calls' = [calls EXCEPT ![i] = st] /\ UNCHANGED <<files, mem, told>> /\ StillRunning
  BY DEF Send, At
<1>2. calls[i] \in CallState /\ new \in Nat
  BY CallIs DEF Inv, Types
<1>4. /\ chain' \in Seq(Batch) /\ Grown(chain, chain') /\ new \in DOMAIN chain'
      /\ chain'[new].net = task.net /\ chain'[new].txns = Call(i).txns
  BY <1>1, AcceptedIs
<1> HIDE DEF new
<1>3. st \in CallState /\ st.step = "sent" /\ st.tx = new
  BY <1>2 DEF CallState
<1> HIDE DEF st
<1>5. CallOK(Call(i), calls[i], task.net, chain, mem.preceding)
      /\ (Call(i).op \in {"deploy", "lsig"} => Writes)
  BY <1>1 DEF Inv, CallsOK
<1>6. Uses(Call(i), st) = Uses(Call(i), calls[i])
  BY <1>1, <1>3 DEF Uses, Checked, Midway
<1>7. CallOK(Call(i), st, task.net, chain', mem.preceding)
  BY <1>1, <1>3, <1>4, <1>5, <1>6 DEF CallOK
<1> QED
  BY <1>1, <1>3, <1>4, <1>5, <1>7, QuietMoveInv

\* What a call that is confirmed or recorded enters.
LEMMA RecordedInv ==
    ASSUME Inv, NEW i \in DOMAIN calls, NEW st \in CallState, calls' = [calls EXCEPT ![i] = st],
           StillRunning, UNCHANGED <<files, chain>>, Writes,
           NEW name \in Name \ Lsigs, NEW id \in Id, Recorded(name, id),
           CallOK(Call(i), st, task.net, chain, mem.preceding)
    PROVE  Inv'
<1> DEFINE entry == [id |-> id, deleted |-> FALSE]
<1>1. script # NoScript /\ task.net \in Network /\ IsCall(Call(i))
  BY CallIs, NothingAssumption
<1>2. entry \in Entry /\ entry.id = id /\ mem' = Register(mem, task.net, name, entry)
  BY DEF Entry, Recorded
<1>3. \A d \in told' : d[1] \in Name /\ ((d[1] = name /\ d[2] = entry.id) \/ (d \in told /\ d[1] # name))
  <2>1. told' = {d \in told : d[1] # name} \cup {<<name, id>>} /\ told \subseteq (Name \ Lsigs) \X Id
    BY DEF Recorded, Inv, Types
  <2>2. <<name, id>>[1] = name /\ <<name, id>>[2] = id
    OBVIOUS
  <2>3. \A d \in told : d[1] \in Name
    BY <2>1
  <2>4. \A d \in told' : (d \in told /\ d[1] # name) \/ d = <<name, id>>
    BY <2>1
  <2> HIDE DEF entry
  <2> SUFFICES ASSUME NEW d \in told'
               PROVE  d[1] \in Name /\ ((d[1] = name /\ d[2] = entry.id) \/ (d \in told /\ d[1] # name))
    OBVIOUS
  <2>5. CASE d = <<name, id>>
    <3>1. d[1] = name /\ d[2] = id
      BY <2>2, <2>5
    <3>2. entry.id = id
      BY <1>2
    <3> QED
      BY <3>1, <3>2
  <2>6. CASE d \in told /\ d[1] # name
    BY <2>3, <2>6
  <2> QED
    BY <2>4, <2>5, <2>6
<1> HIDE DEF entry
<1>4. /\ OwnPart' /\ mem' \in Repo
      /\ \A x \in Name : Lookup(mem.preceding, task.net, x) # Absent =>
                             Lookup(mem'.preceding, task.net, x) # Absent
  BY <1>1, <1>2, <1>3, RegisterOwnPart
<1>5. CallOK(Call(i), st, task.net, chain', mem'.preceding)
  <2>1. Uses(Call(i), st) \subseteq Name
    BY <1>1, UsesNames
  <2> QED
    BY <1>4, <2>1, SameGrown, CallStays
<1>6. files' \in [Script -> Checkpoints] /\ told' \subseteq (Name \ Lsigs) \X Id
  BY DEF Recorded, Inv, Types
<1> QED
  BY <1>4, <1>5, <1>6, SameChain, MoveInv

LEMMA ConfirmedInv == ASSUME Inv, NEW i \in DOMAIN calls, Confirmed(i) PROVE Inv'
<1> DEFINE c == Call(i)
           tx == calls[i].tx
<1>1. /\ calls[i].step = "sent" /\ chain[tx].status = "confirmed"
      /\ UNCHANGED <<files, chain>> /\ StillRunning
  BY DEF Confirmed, At
<1>2. IsCall(c) /\ calls[i] \in CallState
  BY CallIs
<1>3. CallOK(c, calls[i], task.net, chain, mem.preceding) /\ (c.op = "deploy" => Writes)
  BY <1>1 DEF Inv, CallsOK
<1>4. Sends(c) /\ tx \in DOMAIN chain /\ tx \in Nat /\ c.txns \in Seq(Txn)
  BY <1>1, <1>2, <1>3 DEF CallOK, CallState, IsCall
<1>5. ASSUME NEW step, Step(i, step), step \in {"opting", "done"}, step = "opting" => c.op = "deploy"
      PROVE  \E st \in CallState :
                 /\ calls' = [calls EXCEPT ![i] = st] /\ st.step = step
                 /\ CallOK(c, st, task.net, chain, mem.preceding)
  <2> DEFINE st == [calls[i] EXCEPT !.step = step]
  <2>1. st \in CallState /\ st.step = step /\ calls' = [calls EXCEPT ![i] = st]
    BY <1>2, <1>5 DEF CallState, Step
  <2> HIDE DEF st
  <2>2. CallOK(c, st, task.net, chain, mem.preceding)
    BY <1>5, <2>1 DEF CallOK, Uses, Checked, Midway
  <2> QED
    BY <2>1, <2>2
<1>6. CASE c.op = "deploy" /\ Recorded(c.txns[1].name, <<tx, 1>>)
           /\ Step(i, IF c.optIns THEN "opting" ELSE "done")
  <2>1. c.txns[1] \in Txn
    BY <1>2, <1>4, <1>6 DEF IsCall
  <2>2. c.txns[1].name \in Name \ Lsigs /\ <<tx, 1>> \in Id
    BY <1>4, <2>1 DEF Txn, Id
  <2>3. PICK st \in CallState : calls' = [calls EXCEPT ![i] = st]
                                /\ CallOK(c, st, task.net, chain, mem.preceding)
    BY <1>5, <1>6
  <2> QED
    BY <1>1, <1>3, <1>6, <2>2, <2>3, RecordedInv
<1>7. CASE c.op = "update" /\ Writes /\ Recorded(c.txns[1].newName, Def(c.txns[1].name).id) /\ Step(i, "done")
  <2>1. c.txns[1] \in Txn /\ c.txns[1].type = "update" /\ 1 \in DOMAIN c.txns
    BY <1>2, <1>4, <1>7 DEF IsCall
  <2>2. c.txns[1].newName \in Name \ Lsigs /\ c.txns[1].name \in Name
    BY <2>1 DEF Txn
  <2>3. Def(c.txns[1].name).id \in Id
    <3>1. 1 \in Checked(c, calls[i])
      BY <1>1, <1>4, <2>1 DEF Checked, Midway
    <3>2. c.txns[1].name \in Uses(c, calls[i])
      BY <1>7, <2>1, <3>1 DEF Uses
    <3>3. Def(c.txns[1].name) # Absent
      BY <1>3, <3>2 DEF CallOK, Def
    <3>4. mem.preceding \in Checkpoints /\ task.net \in Network
      BY CallIs DEF Inv, Types, Repo
    <3> QED
      BY <2>2, <3>3, <3>4, LookupType DEF Def, Entry
  <2>4. PICK st \in CallState : calls' = [calls EXCEPT ![i] = st]
                                /\ CallOK(c, st, task.net, chain, mem.preceding)
    BY <1>5, <1>7
  <2> QED
    BY <1>1, <1>7, <2>2, <2>3, <2>4, RecordedInv
<1>8. CASE Step(i, "done") /\ UNCHANGED <<mem, told>>
  <2>1. PICK st \in CallState : calls' = [calls EXCEPT ![i] = st] /\ st.step = "done"
                                /\ CallOK(c, st, task.net, chain, mem.preceding)
    BY <1>5, <1>8
  <2> QED
    BY <1>1, <1>8, <2>1, SameChain, QuietMoveInv
<1>9. CASE /\ c.op = "group" /\ Writes
           /\ calls' = [calls EXCEPT ![i].step = "recording", ![i].made = 0]
           /\ UNCHANGED <<mem, told>>
  <2> DEFINE st == [calls[i] EXCEPT !.step = "recording", !.made = 0]
  <2>1. /\ st \in CallState /\ st.step = "recording" /\ st.made = 0 /\ st.tx = tx
        /\ calls' = [calls EXCEPT ![i] = st]
    BY <1>2, <1>9 DEF CallState
  <2> HIDE DEF st
  <2>2. Uses(c, st) = Uses(c, calls[i])
    BY <1>1, <2>1 DEF Uses, Checked, Midway
  <2>3. Len(c.txns) \in Nat /\ Len(c.txns) > 0
    BY <1>2, <1>4, <1>9 DEF IsCall
  <2>4. CallOK(c, st, task.net, chain, mem.preceding)
    BY <1>1, <1>3, <1>9, <2>1, <2>2, <2>3 DEF CallOK
  <2> QED
    BY <1>1, <1>9, <2>1, <2>4, SameChain, QuietMoveInv
<1> QED
  BY <1>6, <1>7, <1>8, <1>9 DEF Confirmed

LEMMA RecordTxInv == ASSUME Inv, NEW i \in DOMAIN calls, RecordTx(i) PROVE Inv'
<1> DEFINE c == Call(i)
           k == calls[i].made + 1
           t == c.txns[k]
           step == IF k = Len(c.txns) THEN "done" ELSE "recording"
           st == [calls[i] EXCEPT !.made = k, !.step = step]
<1>1. /\ calls[i].step = "recording" /\ UNCHANGED <<files, chain>> /\ StillRunning
      /\ calls' = [calls EXCEPT ![i] = st] /\ calls[i] \in CallState /\ IsCall(c)
      /\ script # NoScript /\ task.net \in Network
  BY CallIs, NothingAssumption DEF RecordTx, At
<1>2. Writes /\ CallOK(c, calls[i], task.net, chain, mem.preceding)
  BY <1>1 DEF Inv, CallsOK
<1>3. /\ c.op = "group" /\ c.txns \in Seq(Txn) /\ Sends(c)
      /\ k \in 1..Len(c.txns) /\ calls[i].tx \in Nat /\ k \in Nat
  BY <1>1, <1>2 DEF CallOK, IsCall, Sends, CallState
<1>4. t \in Txn /\ t.name \in Name \ Lsigs
  BY <1>3 DEF Txn
<1>5. st \in CallState /\ st.step = step /\ st.made = k /\ st.tx = calls[i].tx
  <2>1. step \in {"done", "recording"}
    OBVIOUS
  <2> HIDE DEF k, step
  <2> QED
    BY <1>1, <1>3, <2>1 DEF CallState
<1>6. step = "recording" => k \in 0..(Len(c.txns) - 1)
  BY <1>3
<1> HIDE DEF st
<1>7. CallOK(c, st, task.net, chain, mem.preceding)
  <2>1. Uses(c, st) \subseteq Uses(c, calls[i])
    BY <1>1, <1>5 DEF Uses, Checked, Midway
  <2> QED
    BY <1>1, <1>2, <1>3, <1>5, <1>6, <2>1 DEF CallOK
<1>8. CASE t.type = "deploy" /\ Recorded(t.name, <<calls[i].tx, k>>)
  <2>1. <<calls[i].tx, k>> \in Id
    BY <1>3 DEF Id
  <2> QED
    BY <1>1, <1>2, <1>4, <1>5, <1>7, <1>8, <2>1, RecordedInv
<1>9. ASSUME t.type = "delete", UNCHANGED told,
             NEW key \in KeysOfIndex(mem, task.net, Def(t.name).id),
             mem' = Register(mem, task.net, key, [Def(key) EXCEPT !.deleted = TRUE])
      PROVE  Inv'
  <2> DEFINE entry == [Def(key) EXCEPT !.deleted = TRUE]
  <2>1. key \in Name /\ Def(key) # Absent
    BY <1>9 DEF KeysOfIndex, Def
  <2>2. mem.preceding \in Checkpoints
    BY DEF Inv, Types, Repo
  <2>3. Def(key) \in Entry
    BY <1>1, <2>1, <2>2, LookupType DEF Def
  <2>4. entry \in Entry /\ entry.id = Def(key).id
    BY <2>3 DEF Entry
  <2> HIDE DEF entry
  <2>5. \A d \in told' : d[1] \in Name /\ ((d[1] = key /\ d[2] = entry.id) \/ (d \in told /\ d[1] # key))
    <3>1. told' = told /\ \A d \in told : d[1] \in Name
      BY <1>9 DEF Inv, Types
    <3>2. \A d \in told : /\ Lookup(mem.stripped, task.net, d[1]) # Absent
                         /\ Lookup(mem.stripped, task.net, d[1]).id = d[2]
      BY <1>1 DEF Inv, OwnPart
    <3>3. Lookup(mem.stripped, task.net, key) # Absent => Def(key) = Lookup(mem.stripped, task.net, key)
      BY <1>1, <2>1 DEF Inv, OwnPart, Def
    <3>4. ASSUME NEW d \in told, d[1] = key PROVE d[2] = entry.id
      BY <2>4, <3>2, <3>3, <3>4
    <3> QED
      BY <3>1, <3>4
  <2>6. /\ OwnPart' /\ mem' \in Repo
        /\ \A x \in Name : Lookup(mem.preceding, task.net, x) # Absent =>
                               Lookup(mem'.preceding, task.net, x) # Absent
    BY <1>1, <1>2, <1>9, <2>1, <2>4, <2>5, RegisterOwnPart DEF entry
  <2>7. CallOK(c, st, task.net, chain', mem'.preceding)
    BY <1>1, <1>7, <2>6, UsesNames, SameGrown, CallStays
  <2>8. files' \in [Script -> Checkpoints] /\ told' \subseteq (Name \ Lsigs) \X Id
    BY <1>1, <1>9 DEF Inv, Types
  <2> QED
    BY <1>1, <1>2, <1>3, <1>5, <2>6, <2>7, <2>8, SameChain, MoveInv
<1>10. CASE UNCHANGED <<mem, told>>
  BY <1>1, <1>2, <1>3, <1>5, <1>7, <1>10, SameChain, QuietMoveInv
<1> QED
  BY <1>8, <1>9, <1>10 DEF RecordTx

-----------------------------------------------------------------------------
(* Nodes, faults, and the whole next-state relation *)

LEMMA FailsInv ==
    ASSUME Inv, NEW i \in DOMAIN calls, Fails(i), chain' \in Seq(Batch), Grown(chain, chain')
    PROVE  Inv'
BY OptInByNumberInv, ThrowInv DEF Fails

LEMMA NodeErrorInv == ASSUME Inv, NEW i \in DOMAIN calls, NodeError(i) PROVE Inv'
BY SameChain, FailsInv DEF NodeError

LEMMA AnswerLostInv == ASSUME Inv, NEW i \in DOMAIN calls, AnswerLost(i) PROVE Inv'
BY AcceptedIs, FailsInv DEF AnswerLost

\* Only the chain changes.
LEMMA ChainInv ==
    ASSUME Inv, UNCHANGED <<files, task, local, last>>, chain' \in Seq(Batch), Grown(chain, chain')
    PROVE  Inv'
<1> USE DEF local
<1>1. Types'
  BY DEF Inv, Types
<1>2. Located'
  BY DEF Inv, Located, Writes
<1>3. CallsOK'
  <2> SUFFICES ASSUME NEW j \in DOMAIN calls
               PROVE  (/\ CallOK(Call(j), calls[j], task.net, chain, mem.preceding)
                       /\ calls[j].step \in {"ready", "sent", "opting"} /\ Call(j).op \in {"deploy", "lsig"} => Writes
                       /\ calls[j].step = "recording" => Writes)'
    BY DEF CallsOK
  <2>1. Call(j)' = Call(j) /\ Writes' = Writes /\ task' = task /\ calls' = calls /\ mem' = mem
    BY DEF Call, Writes
  <2>2. Uses(Call(j), calls[j]) \subseteq Name
    BY CallIs, UsesNames
  <2>3. CallOK(Call(j), calls[j], task.net, chain', mem.preceding)
    BY <2>2, CallStays DEF Inv, CallsOK
  <2> QED
    BY <2>1, <2>3 DEF Inv, CallsOK
<1>4. OwnPart'
  BY DEF Inv, OwnPart, Writes
<1> QED
  BY <1>1, <1>2, <1>3, <1>4 DEF Inv

LEMMA SettleInv ==
    ASSUME Inv, NEW n \in DOMAIN chain, NodeConfirms(n) \/ NodeDrops(n)
    PROVE  Inv'
<1>1. chain \in Seq(Batch)
  BY DEF Inv, Types
<1>2. PICK status \in {"confirmed", "dropped"} :
          /\ chain[n].status = "pending" /\ chain' = [chain EXCEPT ![n].status = status]
          /\ UNCHANGED <<files, task, local, last>>
  BY DEF NodeConfirms, NodeDrops
<1>3. chain' \in Seq(Batch) /\ Grown(chain, chain')
  BY <1>1, <1>2, SettleGrown
<1> QED
  BY <1>2, <1>3, ChainInv

LEMMA CrashInv == ASSUME Inv, Crash PROVE Inv'
<1>1. task \in Tasks /\ files' \in [Script -> Checkpoints] /\ chain' \in Seq(Batch)
  BY DEF Crash, Inv, Types
<1> QED
  BY <1>1, LeaveInv DEF Crash

LEMMA InvNext == ASSUME Inv, [Next]_vars PROVE Inv'
<1>1. ASSUME NEW t \in Tasks, StartTask(t) PROVE Inv'
  BY <1>1, StartTaskInv
<1>2. ASSUME NEW i \in DOMAIN calls, CallStep(i) PROVE Inv'
  BY <1>2, RefuseInv, BeginInv, BeginUpdateInv, BeginOptInInv, BeginFundInv, MakeTxInv,
     AddCheckpointKVInv, SignLsigInv, SendInv, ConfirmedInv, RecordTxInv, OptInInv DEF CallStep
<1>3. ASSUME Progress PROVE Inv'
  BY <1>2, <1>3, NextScriptInv, NextStageInv, ScriptReturnsInv DEF Progress
<1>4. ASSUME NEW n \in DOMAIN chain, NodeConfirms(n) \/ NodeDrops(n) PROVE Inv'
  BY <1>4, SettleInv
<1>5. ASSUME NEW i \in DOMAIN calls, NodeError(i) \/ AnswerLost(i) PROVE Inv'
  BY <1>5, NodeErrorInv, AnswerLostInv
<1>6. CASE Crash
  BY <1>6, CrashInv
<1>7. CASE UNCHANGED vars
  <2>1. UNCHANGED <<files, task, local, last>> /\ UNCHANGED chain
    BY <1>7 DEF vars
  <2> QED
    BY <2>1, SameChain, ChainInv
<1> QED
  BY <1>1, <1>3, <1>4, <1>5, <1>6, <1>7 DEF Next

LEMMA InvAlways == Spec => []Inv
<1>1. Inv /\ [Next]_vars => Inv'
  BY InvNext
<1> QED
  BY <1>1, InitInv, PTL DEF Spec

-----------------------------------------------------------------------------
(* What every deployment keeps, whatever the scripts do *)

\* The types of every variable, through every interleaving of the calls, every fault of a
\* node and every kill (types.ts: Checkpoint, CheckpointRepo).
THEOREM TypeCorrect == Spec => []TypeOK
<1>1. ASSUME Inv PROVE TypeOK
  <2>1. \A n \in DOMAIN chain : chain[n].net \in Network
                               /\ chain[n].status \in {"pending", "confirmed", "dropped"}
    <3> SUFFICES ASSUME NEW n \in DOMAIN chain
                 PROVE  chain[n].net \in Network /\ chain[n].status \in {"pending", "confirmed", "dropped"}
      OBVIOUS
    <3>1. chain[n] \in Batch
      BY <1>1 DEF Inv, Types
    <3> QED
      BY <3>1 DEF Batch
  <2>2. \A i \in DOMAIN calls : calls[i].step \in
            {"start", "making", "ready", "sent", "recording", "opting", "done"}
    <3> SUFFICES ASSUME NEW i \in DOMAIN calls
                 PROVE  calls[i].step \in {"start", "making", "ready", "sent", "recording", "opting", "done"}
      OBVIOUS
    <3>1. calls[i] \in CallState
      BY <1>1 DEF Inv, Types
    <3> QED
      BY <3>1 DEF CallState
  <2>3. \A d \in told : d \in (Name \X Id)
    BY <1>1 DEF Inv, Types
  <2> QED
    BY <1>1, <2>1, <2>2, <2>3 DEF Inv, Types, TypeOK
<1>2. Inv => TypeOK
  BY <1>1
<1> QED
  BY <1>2, InvAlways, PTL

\* Files are written by a script of a deploy task, when it returns or a call throws.
Persisted == Writes /\ script # NoScript /\ files' = [files EXCEPT ![script] = mem.stripped]

LEMMA ThrowFiles ==
    ASSUME Inv, NEW i \in DOMAIN calls, NEW persists, Throw(i, persists)
    PROVE  /\ files' = files \/ Persisted
           /\ persists /\ Writes => Persisted
           /\ script' # script => ~Call(i).caught
BY CallIs, NothingAssumption DEF Throw, Persisted, StillRunning

LEMMA OptInByNumberFiles ==
    ASSUME Inv, NEW i \in DOMAIN calls, NEW failed, OptInByNumber(i, failed)
    PROVE  files' = files \/ Persisted
BY ThrowFiles DEF OptInByNumber

LEMMA CallFiles ==
    ASSUME Inv, NEW i \in DOMAIN calls, CallStep(i) \/ NodeError(i) \/ AnswerLost(i)
    PROVE  files' = files \/ Persisted
<1>1. CASE CallStep(i)
  <2>1. Refuse(i) => files' = files \/ Persisted
    BY ThrowFiles DEF Refuse
  <2>2. Begin(i) \/ BeginUpdate(i) \/ BeginFund(i) \/ OptIn(i) => files' = files \/ Persisted
    BY ThrowFiles DEF Begin, BeginUpdate, BeginFund, OptIn, Quietly
  <2>3. BeginOptIn(i) => files' = files \/ Persisted
    BY ThrowFiles, OptInByNumberFiles DEF BeginOptIn, Quietly
  <2>4. MakeTx(i) => files' = files \/ Persisted
    BY ThrowFiles DEF MakeTx, Quietly
  <2>5. AddCheckpointKV(i) => files' = files \/ Persisted
    BY ThrowFiles DEF AddCheckpointKV
  <2>6. SignLsig(i) \/ Send(i) \/ Confirmed(i) \/ RecordTx(i) => files' = files
    BY DEF SignLsig, Send, Confirmed, RecordTx
  <2> QED
    BY <1>1, <2>1, <2>2, <2>3, <2>4, <2>5, <2>6 DEF CallStep
<1>2. CASE NodeError(i) \/ AnswerLost(i)
  BY <1>2, ThrowFiles, OptInByNumberFiles DEF NodeError, AnswerLost, Fails
<1> QED
  BY <1>1, <1>2

LEMMA FilesStep ==
    ASSUME Inv, [Next]_vars, task # NoTask
    PROVE  files' = files \/ Persisted
<1>1. ASSUME NEW t \in Tasks, StartTask(t) PROVE FALSE
  BY <1>1 DEF StartTask
<1>2. ASSUME Progress PROVE files' = files \/ Persisted
  BY <1>2, CallFiles DEF Progress, NextScript, NextStage, ScriptReturns, StageDone, Persisted
<1>3. ASSUME NEW n \in DOMAIN chain, NodeConfirms(n) \/ NodeDrops(n) PROVE files' = files
  BY <1>3 DEF NodeConfirms, NodeDrops
<1>4. Crash \/ UNCHANGED vars => files' = files
  BY DEF Crash, vars
<1> QED
  BY <1>1, <1>2, <1>3, <1>4, CallFiles DEF Next

\* A task changes no checkpoint of another network or of a script that it does not run, and a
\* task in run mode changes none (deployer.ts:445-447, deploy.ts:81-83).
THEOREM OwnCheckpointOnly == Spec => OnlyOwnCheckpoint
<1>1. ASSUME Inv, [Next]_vars, task # NoTask, NEW s \in Script, NEW net \in Network,
             files'[s][net] # files[s][net]
      PROVE  Writes /\ s = script /\ net = task.net
  <2>1. Persisted
    BY <1>1, FilesStep
  <2>2. files \in [Script -> Checkpoints] /\ script \in Script
    BY <1>1, <2>1 DEF Inv, Types, Persisted
  <2>3. s = script
    BY <1>1, <2>1, <2>2 DEF Persisted
  <2>4. files'[s] = mem.stripped
    BY <2>1, <2>2, <2>3 DEF Persisted
  <2>5. net = task.net
    BY <1>1, <2>1, <2>3, <2>4 DEF Inv, OwnPart, Persisted
  <2> QED
    BY <2>1, <2>3, <2>5 DEF Persisted
<1>2. Inv /\ [Next]_vars =>
          [task # NoTask =>
              \A s \in Script, net \in Network :
                  files'[s][net] # files[s][net] => Writes /\ s = script /\ net = task.net]_vars
  BY <1>1
<1> QED
  BY <1>2, InvAlways, PTL DEF Spec, OnlyOwnCheckpoint

LEMMA CallEnds ==
    ASSUME Inv, NEW i \in DOMAIN calls, CallStep(i) \/ NodeError(i) \/ AnswerLost(i),
           Writes, script' # script
    PROVE  OwnError \/ Persisted
<1>1. ASSUME Call(i).op \in {"throw", "optin", "fund", "kv"}, calls[i].step # "done" PROVE OwnError
  BY <1>1 DEF OwnError
<1>2. ASSUME Call(i).op \in {"update", "group"}, calls[i].step = "start" PROVE OwnError
  BY <1>2 DEF OwnError
<1>3. CASE CallStep(i)
  <2>1. Refuse(i) => OwnError
    BY <1>1 DEF Refuse, At
  <2>2. Begin(i) => Persisted
    BY ThrowFiles DEF Begin, Quietly, StillRunning
  <2>3. BeginUpdate(i) => OwnError
    BY <1>2 DEF BeginUpdate, At
  <2>4. BeginOptIn(i) => OwnError
    BY <1>1 DEF BeginOptIn, At
  <2>5. ASSUME MakeTx(i) PROVE OwnError \/ Persisted
    <3>1. CASE calls[i].step = "start"
      BY <1>2, <2>5, <3>1 DEF MakeTx
    <3>2. CASE calls[i].step = "making"
      <4>1. CallOK(Call(i), calls[i], task.net, chain, mem.preceding) /\ calls[i] \in CallState
        BY CallIs DEF Inv, CallsOK
      <4>2. calls[i].made + 1 # 1
        BY <3>2, <4>1 DEF CallOK, CallState
      <4> QED
        BY <1>3, <2>5, <4>2, ThrowFiles DEF MakeTx, Quietly, StillRunning
    <3> QED
      BY <2>5, <3>1, <3>2 DEF MakeTx, At
  <2>6. AddCheckpointKV(i) => OwnError
    BY <1>1 DEF AddCheckpointKV, At
  <2>7. ~(BeginFund(i) \/ OptIn(i) \/ SignLsig(i) \/ Send(i) \/ Confirmed(i) \/ RecordTx(i))
    BY DEF BeginFund, OptIn, Quietly, StillRunning, SignLsig, Send, Confirmed, RecordTx
  <2> QED
    BY <1>3, <2>1, <2>2, <2>3, <2>4, <2>5, <2>6, <2>7 DEF CallStep
<1>4. CASE NodeError(i) \/ AnswerLost(i)
  <2>1. calls[i].step # "done" /\ Fails(i)
    BY <1>4 DEF NodeError, AnswerLost, At
  <2>2. CASE Call(i).op \in {"optin", "fund"}
    BY <1>1, <2>1, <2>2
  <2>3. CASE Call(i).op \notin {"optin", "fund"}
    BY <2>1, <2>3, ThrowFiles DEF Fails, Persists
  <2> QED
    BY <2>2, <2>3
<1> QED
  BY <1>3, <1>4

\* When a script of a deploy task ends, also by an error of the deployer, its file has everything
\* it had deployed; only an error of its own and a kill lose it (deploy.ts:81-83,
\* deployer.ts:445-447, tx.ts:254-258).
THEOREM ToldKept == Spec => EndKeepsTold
<1>1. ASSUME Inv, [Next]_vars, script # NoScript, Writes, script' # script,
             last'.outcome # "crashed", ~OwnError
      PROVE  Persisted
  <2>1. ASSUME NEW t \in Tasks, StartTask(t) PROVE FALSE
    BY <1>1, <2>1 DEF StartTask, Inv, Located
  <2>2. ASSUME Progress PROVE Persisted
    <3>1. ~NextScript /\ ~NextStage
      BY <1>1 DEF NextScript, NextStage
    <3>2. ScriptReturns => Persisted
      BY <1>1 DEF ScriptReturns, Persisted
    <3>3. ASSUME NEW i \in DOMAIN calls, CallStep(i) PROVE Persisted
      BY <1>1, <3>3, CallEnds
    <3> QED
      BY <2>2, <3>1, <3>2, <3>3 DEF Progress
  <2>3. ASSUME NEW n \in DOMAIN chain, NodeConfirms(n) \/ NodeDrops(n) PROVE FALSE
    BY <1>1, <2>3 DEF NodeConfirms, NodeDrops, local
  <2>4. ASSUME NEW i \in DOMAIN calls, NodeError(i) \/ AnswerLost(i) PROVE Persisted
    BY <1>1, <2>4, CallEnds
  <2>5. ~Crash
    BY <1>1 DEF Crash, LeaveTask
  <2>6. ~UNCHANGED vars
    BY <1>1 DEF vars, local
  <2> QED
    BY <1>1, <2>1, <2>2, <2>3, <2>4, <2>5, <2>6 DEF Next
<1>2. ASSUME Inv, Persisted, NEW d \in told
      PROVE  /\ Lookup(files'[script], task.net, d[1]) # Absent
             /\ Lookup(files'[script], task.net, d[1]).id = d[2]
  <2>1. files'[script] = mem.stripped
    BY <1>2 DEF Persisted, Inv, Types
  <2> QED
    BY <1>2, <2>1 DEF Inv, OwnPart, Persisted
<1>3. Inv /\ [Next]_vars =>
          [(script # NoScript /\ Writes /\ script' # script /\ last'.outcome # "crashed" /\ ~OwnError) =>
              \A d \in told : /\ Lookup(files'[script], task.net, d[1]) # Absent
                              /\ Lookup(files'[script], task.net, d[1]).id = d[2]]_vars
  BY <1>1, <1>2
<1> QED
  BY <1>3, InvAlways, PTL DEF Spec, EndKeepsTold

-----------------------------------------------------------------------------
(* What every behaviour keeps when scripts do not interfere *)

\* An entry says under which name its index was deployed, or updated.
Truthful(C, net, n, entry) ==
    IF n \in Lsigs THEN entry.id = <<0, 0>>
    ELSE LET t == entry.id[1]
             k == entry.id[2]
         IN  /\ t \in DOMAIN C /\ C[t].net = net /\ C[t].status = "confirmed"
             /\ k \in DOMAIN C[t].txns /\ C[t].txns[k].type = "deploy"
             /\ \/ C[t].txns[k].name = n
                \/ \E r, s \in Direct : C[t].txns[k].name \in Updates(r) /\ n \in UpdatesTo(s)
\* A checkpoint of the script s.
Sound(C, s, cps) ==
    \A net \in Network, n \in Name :
        Lookup(cps, net, n) # Absent =>
            s \in Direct /\ n \in Registers(s) /\ net \in Nets /\ Truthful(C, net, n, Lookup(cps, net, n))
\* No file but that of s has the name.
OnlyIn(s, n) == \A r \in Script \ {s} : n \notin Names(files[r])

FilesSound ==
    /\ \A s \in Script : Sound(chain, s, files[s])
    /\ \A s \in Script : \A n \in Names(files[s]) : OnlyIn(s, n)
\* A repo that serves the files on a network, of which the scripts of seen have been loaded: what
\* scripts can read is on the chain, the guard against deploying twice knows every file, and a
\* script that was loaded is read as its file has it.
Reads(repo, fs, C, net, seen) ==
    /\ \A n \in Name : Lookup(repo.preceding, net, n) # Absent =>
           Truthful(C, net, n, Lookup(repo.preceding, net, n))
    /\ \A s \in Script, n \in Name :
           Lookup(fs[s], net, n) # Absent => Lookup(repo.all, net, n) # Absent
    /\ \A s \in seen, n \in Name :
           Lookup(fs[s], net, n) # Absent => Lookup(repo.preceding, net, n) = Lookup(fs[s], net, n)
MemReads == task # NoTask => Reads(mem, files, chain, task.net, Direct \ (dir \cup {script}))
\* The scripts of scripts/ up to the running one have been loaded.
Loaded == script # NoScript => \A s \in dir : script < s
\* The running script's own checkpoint.
OwnSound ==
    script # NoScript =>
        /\ Sound(chain, script, mem.stripped)
        /\ \A n \in Name : Lookup(mem.stripped, task.net, n) # Absent =>
               Lookup(mem.all, task.net, n) # Absent /\ OnlyIn(script, n)
\* What a call is going to deploy is in no other script's file.
PendingOwn ==
    \A i \in DOMAIN calls : Writes => \A n \in Pending(Call(i), calls[i]) : OnlyIn(script, n)
\* An opt-in asks for what the files of earlier scripts have.
Asks(c, asset) ==
    \A s \in Direct : s < script =>
        LET recorded == Lookup(files[s], task.net, c.txns[1].name)
        IN  recorded # Absent => asset = recorded.id
AsksRecorded ==
    \A i \in DOMAIN calls :
        Call(i).op = "optin" /\ calls[i].step = "ready" /\ ~calls[i].failed =>
            Asks(Call(i), calls[i].asset)

SoundInv == FilesSound /\ MemReads /\ Loaded /\ OwnSound /\ PendingOwn /\ AsksRecorded

-----------------------------------------------------------------------------
(* What is sound stays so while the chain grows *)

LEMMA TruthGrows ==
    ASSUME NEW C, NEW D, Grown(C, D), NEW net, NEW n, NEW entry, Truthful(C, net, n, entry)
    PROVE  Truthful(D, net, n, entry)
BY DEF Truthful, Grown

LEMMA SoundGrows ==
    ASSUME NEW C, NEW D, Grown(C, D), NEW s, NEW cps, Sound(C, s, cps)
    PROVE  Sound(D, s, cps)
BY TruthGrows DEF Sound

LEMMA ReadsGrows ==
    ASSUME NEW C, NEW D, Grown(C, D), NEW repo, NEW fs, NEW net, NEW seen, NEW fewer, fewer \subseteq seen,
           Reads(repo, fs, C, net, seen)
    PROVE  Reads(repo, fs, D, net, fewer)
BY TruthGrows DEF Reads

LEMMA FilesStaySound ==
    ASSUME FilesSound, UNCHANGED files, Grown(chain, chain')
    PROVE  FilesSound'
<1>1. \A s \in Script : Sound(chain', s, files'[s])
  BY SoundGrows DEF FilesSound
<1> QED
  BY <1>1 DEF FilesSound, OnlyIn

\* Some files are emptied.
LEMMA FewerSound ==
    ASSUME FilesSound, UNCHANGED chain, \A s \in Script : files'[s] \in {files[s], EmptyCheckpoints}
    PROVE  FilesSound'
<1>1. \A s \in Script, n \in Name : n \in Names(files'[s]) => n \in Names(files[s])
  BY EmptyLooks DEF Names
<1>2. \A s \in Script : Sound(chain', s, files'[s])
  BY EmptyLooks DEF FilesSound, Sound
<1> QED
  BY <1>1, <1>2 DEF FilesSound, OnlyIn, Names

LEMMA FilesLoad ==
    ASSUME FilesSound
    PROVE  Loadable(files)
<1>1. \A r, s \in Script, n \in Name : n \in Names(files[r]) /\ n \in Names(files[s]) => r = s
  BY DEF FilesSound, OnlyIn
<1> QED
  BY <1>1, OneEach

LEMMA LoadReads ==
    ASSUME NEW fs \in [Script -> Checkpoints], NEW C, NEW net \in Network
    PROVE  Reads(LoadCheckpointsRecursive(fs), fs, C, net, {})
<1>1. ASSUME NEW s \in Script, NEW n \in Name, Lookup(fs[s], net, n) # Absent
      PROVE  Lookup(Merged(fs, Script), net, n) # Absent
  BY <1>1, MergedHas
<1> QED
  BY <1>1, LoadType, EmptyLooks DEF Reads

LEMMA RepoForReads ==
    ASSUME Types, FilesSound, NEW net \in Network, NEW s \in Script,
           Reads(mem, files, chain, net, Direct \ dir)
    PROVE  Reads(RepoFor(s), files, chain, net, Direct \ (dir \ SplitAfter(s)))
<1> DEFINE now(n) == Lookup(RepoFor(s).preceding, net, n)
<1>1. \A n \in Name :
          /\ \/ now(n) = Lookup(mem.preceding, net, n)
             \/ now(n) # Absent /\ \E t \in SplitAfter(s) \cup {s} : now(n) = Lookup(files[t], net, n)
          /\ \A t \in SplitAfter(s) \cup {s} : Lookup(files[t], net, n) # Absent =>
                 now(n) # Absent /\ \E u \in SplitAfter(s) \cup {s} : now(n) = Lookup(files[u], net, n)
          /\ Lookup(mem.all, net, n) # Absent => Lookup(RepoFor(s).all, net, n) # Absent
  BY RepoForLooks
<1>2. SplitAfter(s) \cup {s} \subseteq Script /\ Direct \subseteq Script
  BY BodyAssumption DEF Types, SplitAfter
<1> HIDE DEF now
<1>3. ASSUME NEW t \in Script, NEW u \in Script, NEW n \in Name,
             Lookup(files[t], net, n) # Absent, Lookup(files[u], net, n) # Absent
      PROVE  t = u
  BY <1>3 DEF FilesSound, OnlyIn, Names
<1>4. ASSUME NEW n \in Name, now(n) # Absent
      PROVE  Truthful(chain, net, n, now(n))
  BY <1>1, <1>2, <1>4 DEF Reads, FilesSound, Sound
<1>5. ASSUME NEW t \in Direct \ (dir \ SplitAfter(s)), NEW n \in Name, Lookup(files[t], net, n) # Absent
      PROVE  now(n) = Lookup(files[t], net, n)
  <2>1. CASE t \in SplitAfter(s)
    BY <1>1, <1>2, <1>3, <1>5, <2>1
  <2>2. CASE t \in Direct \ dir
    <3>1. Lookup(mem.preceding, net, n) = Lookup(files[t], net, n)
      BY <1>5, <2>2 DEF Reads
    <3> QED
      BY <1>1, <1>2, <1>3, <1>5, <3>1
  <2> QED
    BY <2>1, <2>2
<1> QED
  BY <1>1, <1>4, <1>5 DEF Reads, now

-----------------------------------------------------------------------------
(* Tasks and scripts *)

LEMMA InitSound == Init => SoundInv
<1> SUFFICES ASSUME Init PROVE SoundInv
  OBVIOUS
<1>1. FilesSound
  BY EmptyLooks DEF Init, FilesSound, Sound, OnlyIn, Names
<1> QED
  BY <1>1, NoCalls DEF Init, SoundInv, MemReads, Loaded, OwnSound, PendingOwn, AsksRecorded

LEMMA LeaveSound ==
    ASSUME FilesSound', NEW t, NEW outcome, LeaveTask(t, outcome)
    PROVE  SoundInv'
BY NoCalls DEF LeaveTask, SoundInv, MemReads, Loaded, OwnSound, PendingOwn, AsksRecorded

LEMMA GoesOnSound ==
    ASSUME FilesSound', Inv, NEW repo, NEW newDir, GoesOn(repo, newDir),
           Reads(repo, files', chain', task.net, Direct \ newDir)
    PROVE  SoundInv'
<1>1. Reads(repo, files', chain', task.net, Direct \ (newDir \cup {NoScript}))
  BY SameGrown, ReadsGrows
<1> QED
  BY <1>1, NoCalls DEF GoesOn, SoundInv, MemReads, Loaded, OwnSound, PendingOwn, AsksRecorded

LEMMA AdvanceSound ==
    ASSUME FilesSound', Inv, queue # << >>, files' \in [Script -> Checkpoints],
           NEW repo, NEW newDir, NEW newFiles, newFiles = files', Advance(repo, newDir, newFiles),
           Reads(repo, files', chain', task.net, Direct \ newDir)
    PROVE  SoundInv'
<1>1. task.net \in Network
  BY TasksAssumption DEF Inv, Types, Located, IsTask
<1>2. Reads(LoadCheckpointsRecursive(files'), files', chain', task.net, Direct \ Direct)
  BY <1>1, LoadReads
<1> QED
  BY <1>2, AdvanceIs, LeaveSound, GoesOnSound

LEMMA StartTaskSound ==
    ASSUME Inv, SoundInv, NEW t \in Tasks, StartTask(t)
    PROVE  SoundInv'
<1>1. FilesSound'
  BY FewerSound DEF StartTask, SoundInv
<1>2. files' \in [Script -> Checkpoints]
  BY EmptyLooks DEF StartTask, Inv, Types
<1>3. CASE LeaveTask(t, "failed")
  BY <1>1, <1>3, LeaveSound
<1>4. CASE /\ task' = t /\ dir' = Direct /\ mem' = LoadCheckpointsRecursive(files')
           /\ UNCHANGED <<script, calls>>
  <2>1. script = NoScript /\ calls = << >>
    BY DEF StartTask, Inv, Located
  <2>2. t.net \in Network
    BY TasksAssumption DEF IsTask
  <2>3. Reads(mem', files', chain', t.net, {})
    BY <1>2, <1>4, <2>2, LoadReads
  <2>4. Direct \ (dir' \cup {script'}) = {}
    BY <1>4
  <2>5. MemReads'
    BY <1>4, <2>3, <2>4 DEF MemReads
  <2> QED
    BY <1>1, <1>4, <2>1, <2>5, NoCalls DEF SoundInv, Loaded, OwnSound, PendingOwn, AsksRecorded
<1> QED
  BY <1>3, <1>4 DEF StartTask

LEMMA NextScriptSound ==
    ASSUME Inv, SoundInv, NextScript
    PROVE  SoundInv'
<1> DEFINE s == Head(queue)
<1>1. queue # << >> /\ script = NoScript /\ files' = files /\ chain' = chain
  BY NextScriptIs
<1>2. /\ task \in Tasks /\ task # NoTask /\ task.net \in Network /\ s \in Script
      /\ files' \in [Script -> Checkpoints] /\ told = {} /\ dir \subseteq Direct /\ Direct \subseteq Script
  BY <1>1, TailIn, TasksAssumption, BodyAssumption DEF Inv, Types, Located, IsTask
<1>3. FilesSound'
  BY <1>1, SameGrown, FilesStaySound DEF SoundInv
<1>4. Direct \ (dir \cup {script}) = Direct \ dir
  BY <1>1, <1>2, NothingAssumption
<1>5. Reads(RepoFor(s), files, chain, task.net, Direct \ (dir \ SplitAfter(s)))
  BY <1>2, <1>4, RepoForReads DEF SoundInv, MemReads, Inv
<1>6. CASE LeaveTask(task, "failed")
  BY <1>3, <1>6, LeaveSound
<1>7. CASE Advance(RepoFor(s), dir \ SplitAfter(s), files)
  BY <1>1, <1>2, <1>3, <1>5, <1>7, AdvanceSound
<1>8. CASE Starts(s)
  <2>1. /\ script' = s /\ calls' = Fresh(s, 1) /\ task' = task
        /\ mem' = RepoFor(s) /\ dir' = dir \ SplitAfter(s)
    BY <1>8 DEF Starts
  <2>2. \A i \in DOMAIN calls' : calls'[i].step = "start"
    BY <1>2, <2>1, FreshIs
  <2>3. MemReads'
    <3>1. Reads(RepoFor(s), files, chain, task.net, Direct \ (dir' \cup {s}))
      BY <1>5, <2>1, SameGrown, ReadsGrows
    <3> QED
      BY <1>1, <2>1, <3>1 DEF MemReads
  <2>4. Loaded'
    <3>1. \A d \in dir \ SplitAfter(s) : d \in Nat /\ s \in Nat /\ ~(d <= s)
      BY <1>2, ScriptAssumption DEF SplitAfter
    <3>2. \A d \in dir \ SplitAfter(s) : s < d
      BY <3>1
    <3> QED
      BY <2>1, <3>2 DEF Loaded
  <2>5. OwnSound'
    <3>1. mem'.stripped = files[s]
      BY <1>2, <2>1, RepoForLooks DEF Inv
    <3>2. Sound(chain, s, files[s])
      BY <1>2 DEF SoundInv, FilesSound
    <3>3. ASSUME NEW n \in Name, Lookup(files[s], task.net, n) # Absent
          PROVE  /\ Lookup(mem'.all, task.net, n) # Absent
                 /\ \A r \in Script \ {s} : n \notin Names(files[r])
      <4>1. n \in Names(files[s])
        BY <1>2, <3>3 DEF Names
      <4> QED
        BY <1>2, <1>5, <2>1, <3>3, <4>1 DEF Reads, SoundInv, FilesSound, OnlyIn
    <3> QED
      BY <1>1, <2>1, <3>1, <3>2, <3>3 DEF OwnSound, OnlyIn
  <2>6. PendingOwn' /\ AsksRecorded'
    <3>1. \A c, st : st.step = "start" => Pending(c, st) = {}
      BY DEF Pending, Checked, Midway
    <3> QED
      BY <2>2, <3>1 DEF PendingOwn, AsksRecorded
  <2> QED
    BY <1>3, <2>3, <2>4, <2>5, <2>6 DEF SoundInv
<1> QED
  BY <1>6, <1>7, <1>8, NextScriptIs

LEMMA NextStageSound ==
    ASSUME Inv, SoundInv, NextStage
    PROVE  SoundInv'
<1>1. /\ script \in Script /\ stage \in Nat
      /\ calls' = Fresh(script, stage + 1)
      /\ UNCHANGED <<files, chain, task, dir, mem, script>>
  BY DEF NextStage, StageDone, Inv, Types
<1>2. \A i \in DOMAIN calls' : calls'[i].step = "start"
  BY <1>1, FreshIs
<1>3. PendingOwn' /\ AsksRecorded'
  <2>1. \A c, st : st.step = "start" => Pending(c, st) = {}
    BY DEF Pending, Checked, Midway
  <2> QED
    BY <1>2, <2>1 DEF PendingOwn, AsksRecorded
<1>4. FilesSound'
  BY <1>1, SameGrown, FilesStaySound DEF SoundInv
<1>5. MemReads' /\ Loaded' /\ OwnSound'
  BY <1>1 DEF SoundInv, MemReads, Loaded, OwnSound, OnlyIn
<1> QED
  BY <1>3, <1>4, <1>5 DEF SoundInv

\* The running script's file is written.
LEMMA PersistedSound ==
    ASSUME Inv, SoundInv, Persisted, Grown(chain, chain')
    PROVE  /\ FilesSound' /\ files' \in [Script -> Checkpoints]
           /\ Reads(mem, files', chain', task.net, Direct \ dir)
<1>1. /\ script \in Script /\ script # NoScript /\ task # NoTask /\ task.net \in Network
      /\ mem.stripped \in Checkpoints /\ files \in [Script -> Checkpoints]
      /\ dir \subseteq Script /\ Direct \subseteq Script
  BY TasksAssumption, BodyAssumption DEF Persisted, Inv, Types, Located, IsTask, Repo
<1>2. /\ files' \in [Script -> Checkpoints] /\ files'[script] = mem.stripped
      /\ \A r \in Script \ {script} : files'[r] = files[r]
  BY <1>1 DEF Persisted
<1>3. \A net \in Network, n \in Name :
          net # task.net => Lookup(mem.stripped, net, n) = Lookup(files[script], net, n)
  BY <1>1 DEF Inv, OwnPart, Lookup
<1>4. \A n \in Names(mem.stripped) : OnlyIn(script, n)
  <2> SUFFICES ASSUME NEW n \in Name, NEW net \in Network, Lookup(mem.stripped, net, n) # Absent
               PROVE  OnlyIn(script, n)
    BY DEF Names
  <2>1. CASE net = task.net
    BY <1>1, <2>1 DEF SoundInv, OwnSound
  <2>2. CASE net # task.net
    <3>1. n \in Names(files[script])
      BY <1>3, <2>2 DEF Names
    <3> QED
      BY <1>1, <3>1 DEF SoundInv, FilesSound
  <2> QED
    BY <2>1, <2>2
<1>5. \A s \in Script : Sound(chain', s, files'[s])
  BY <1>1, <1>2, SoundGrows DEF SoundInv, FilesSound, OwnSound
<1>6. ASSUME NEW r \in Script, NEW s \in Script, r # s, NEW n \in Name,
             n \in Names(files'[r]), n \in Names(files'[s])
      PROVE  FALSE
  <2>1. CASE r = script
    BY <1>2, <1>4, <1>6, <2>1 DEF OnlyIn
  <2>2. CASE s = script
    BY <1>2, <1>4, <1>6, <2>2 DEF OnlyIn
  <2>3. CASE r # script /\ s # script
    BY <1>2, <1>6, <2>3 DEF SoundInv, FilesSound, OnlyIn
  <2> QED
    BY <2>1, <2>2, <2>3
<1>7. FilesSound'
  BY <1>5, <1>6 DEF FilesSound, OnlyIn, Names
<1>8. Reads(mem, files, chain', task.net, Direct \ (dir \cup {script}))
  BY <1>1, ReadsGrows DEF SoundInv, MemReads
<1>9. Reads(mem, files', chain', task.net, Direct \ dir)
  <2>1. \A n \in Name : Lookup(mem.stripped, task.net, n) # Absent =>
            /\ Lookup(mem.all, task.net, n) # Absent
            /\ Lookup(mem.preceding, task.net, n) = Lookup(mem.stripped, task.net, n)
    BY <1>1 DEF SoundInv, OwnSound, Inv, OwnPart
  <2> QED
    BY <1>1, <1>2, <1>8, <2>1 DEF Reads
<1> QED
  BY <1>2, <1>7, <1>9

LEMMA ScriptReturnsSound ==
    ASSUME Inv, SoundInv, ScriptReturns
    PROVE  SoundInv'
<1>1. /\ script # NoScript /\ queue # << >> /\ UNCHANGED chain /\ Advance(mem, dir, files')
      /\ task # NoTask
  BY DEF ScriptReturns, StageDone, Inv, Located
<1>2. CASE Writes
  BY <1>1, <1>2, SameGrown, PersistedSound, AdvanceSound DEF ScriptReturns, Persisted
<1>3. CASE ~Writes
  <2>1. files' = files
    BY <1>3 DEF ScriptReturns
  <2>2. mem.stripped = files[script]
    BY <1>1, <1>3 DEF Inv, OwnPart
  <2>3. FilesSound'
    BY <1>1, <2>1, SameGrown, FilesStaySound DEF SoundInv
  <2>4. Reads(mem, files', chain', task.net, Direct \ dir)
    BY <1>1, <2>1, <2>2 DEF Reads, SoundInv, MemReads, Inv, OwnPart
  <2> QED
    BY <1>1, <2>1, <2>3, <2>4, AdvanceSound DEF Inv, Types
<1> QED
  BY <1>2, <1>3

-----------------------------------------------------------------------------
(* Calls *)

LEMMA CallInScript ==
    ASSUME Inv, NEW i \in DOMAIN calls
    PROVE  Call(i) \in CallsIn(script)
BY CallIs DEF Inv, Located, CallsIn

\* A deploy task runs scripts of scripts/.
LEMMA DirectRuns ==
    ASSUME Inv, script # NoScript, Writes
    PROVE  script \in Direct /\ task \in Tasks /\ task.net \in Nets /\ task.net \in Network
BY TasksAssumption, TailIn DEF Inv, Types, Located, Nets, IsTask

\* The call i moves to st.
LEMMA MoveSound ==
    ASSUME Inv, SoundInv, NEW i \in DOMAIN calls, NEW st,
           calls' = [calls EXCEPT ![i] = st], StillRunning,
           FilesSound', \A r \in Script \ {script} : files'[r] = files[r],
           Reads(mem', files', chain', task.net, Direct \ (dir \cup {script})), OwnSound',
           Writes => \A n \in Pending(Call(i), st) : OnlyIn(script, n),
           Call(i).op = "optin" /\ st.step = "ready" /\ ~st.failed => Asks(Call(i), st.asset)
    PROVE  SoundInv'
<1> USE DEF StillRunning
<1>1. /\ script \in Script /\ Direct \subseteq Script /\ Script \subseteq Nat
      /\ DOMAIN calls' = DOMAIN calls
  BY CallIs, BodyAssumption, ScriptAssumption
<1>2. MemReads' /\ Loaded'
  BY DEF MemReads, Loaded, SoundInv
<1>3. ASSUME NEW n, OnlyIn(script, n)
      PROVE  OnlyIn(script, n)'
  BY <1>3 DEF OnlyIn
<1>4. script' = script /\ task' = task /\ \A s \in Direct : s < script => files'[s] = files[s]
  BY <1>1
<1>5. \A j \in DOMAIN calls : calls'[j] = IF j = i THEN st ELSE calls[j]
  BY DEF Inv, Types
<1>6. \A j \in DOMAIN calls : Call(j)' = Call(j)
  BY DEF Call
<1>7. PendingOwn'
  <2> SUFFICES ASSUME NEW j \in DOMAIN calls, Writes, NEW n \in Pending(Call(j), calls'[j])
               PROVE  OnlyIn(script, n)'
    BY <1>1, <1>6 DEF PendingOwn, Writes
  <2>1. OnlyIn(script, n)
    BY <1>5 DEF SoundInv, PendingOwn
  <2> QED
    BY <1>3, <2>1
<1>8. AsksRecorded'
  <2> SUFFICES ASSUME NEW j \in DOMAIN calls,
                      Call(j).op = "optin" /\ calls'[j].step = "ready" /\ ~calls'[j].failed,
                      NEW s \in Direct, s < script,
                      Lookup(files[s], task.net, Call(j).txns[1].name) # Absent
               PROVE  calls'[j].asset = Lookup(files[s], task.net, Call(j).txns[1].name).id
    BY <1>1, <1>4, <1>6 DEF AsksRecorded, Asks
  <2>1. Asks(Call(j), calls'[j].asset)
    BY <1>5 DEF SoundInv, AsksRecorded
  <2> QED
    BY <2>1 DEF Asks
<1> QED
  BY <1>2, <1>7, <1>8 DEF SoundInv

\* The call moves, and the files and the memory stay.
LEMMA QuietMoveSound ==
    ASSUME Inv, SoundInv, NEW i \in DOMAIN calls, NEW st,
           calls' = [calls EXCEPT ![i] = st], StillRunning, UNCHANGED <<files, mem>>,
           Grown(chain, chain'),
           Writes => \A n \in Pending(Call(i), st) : OnlyIn(script, n),
           Call(i).op = "optin" /\ st.step = "ready" /\ ~st.failed => Asks(Call(i), st.asset)
    PROVE  SoundInv'
<1>1. script # NoScript /\ task # NoTask
  BY CallIs, NothingAssumption
<1>2. FilesSound'
  BY FilesStaySound DEF SoundInv
<1>3. Reads(mem', files', chain', task.net, Direct \ (dir \cup {script}))
  BY <1>1, ReadsGrows DEF SoundInv, MemReads
<1>4. OwnSound'
  <2>1. Sound(chain', script, mem.stripped)
    BY <1>1, SoundGrows DEF SoundInv, OwnSound
  <2> QED
    BY <1>1, <2>1 DEF SoundInv, OwnSound, OnlyIn, StillRunning
<1> QED
  BY <1>2, <1>3, <1>4, MoveSound

LEMMA ThrowSound ==
    ASSUME Inv, SoundInv, NEW i \in DOMAIN calls, NEW persists, Throw(i, persists), Grown(chain, chain')
    PROVE  SoundInv'
<1>1. /\ script # NoScript /\ task # NoTask /\ calls[i] \in CallState
      /\ files' = files \/ Persisted
  BY CallIs, NothingAssumption, ThrowFiles
<1>2. FilesSound'
  BY <1>1, PersistedSound, FilesStaySound DEF SoundInv
<1>3. CASE ~Call(i).caught
  BY <1>2, <1>3, LeaveSound DEF Throw
<1>4. CASE Call(i).caught
  <2> DEFINE st == [calls[i] EXCEPT !.step = "done"]
  <2>1. st.step = "done" /\ calls' = [calls EXCEPT ![i] = st] /\ StillRunning /\ UNCHANGED mem
    BY <1>1, <1>4 DEF CallState, Throw, Step
  <2> HIDE DEF st
  <2>2. Pending(Call(i), st) = {}
    BY <2>1 DEF Pending, Checked, Midway
  <2>3. CASE files' = files
    BY <1>1, <2>1, <2>2, <2>3, QuietMoveSound
  <2>4. CASE Persisted
    <3>1. \A r \in Script \ {script} : files'[r] = files[r]
      BY <2>4 DEF Persisted, Inv, Types
    <3>2. Reads(mem', files', chain', task.net, Direct \ (dir \cup {script}))
      BY <2>1, <2>4, PersistedSound, SameGrown, ReadsGrows
    <3>3. OwnSound'
      <4>1. Sound(chain', script, mem.stripped)
        BY <1>1, SoundGrows DEF SoundInv, OwnSound
      <4> QED
        BY <1>1, <2>1, <3>1, <4>1 DEF SoundInv, OwnSound, OnlyIn, StillRunning
    <3> QED
      BY <1>2, <2>1, <2>2, <3>1, <3>2, <3>3, MoveSound
  <2> QED
    BY <1>1, <2>3, <2>4
<1> QED
  BY <1>3, <1>4

\* An opt-in by a name that scripts can read asks for what the files of earlier scripts have.
LEMMA ReadsAsked ==
    ASSUME Inv, SoundInv, script \in Script, NEW c, c.txns[1].name \in Name
    PROVE  /\ Def(c.txns[1].name) # Absent => Asks(c, Def(c.txns[1].name).id)
           /\ Def(c.txns[1].name) = Absent => \A asset : Asks(c, asset)
<1> DEFINE n == c.txns[1].name
<1>1. task # NoTask /\ script # NoScript
  BY NothingAssumption DEF Inv, Located
<1>2. ASSUME NEW s \in Direct, s < script, Lookup(files[s], task.net, n) # Absent
      PROVE  Def(n) = Lookup(files[s], task.net, n)
  <2>1. dir \subseteq Script /\ Direct \subseteq Script /\ Script \subseteq Nat
    BY BodyAssumption, ScriptAssumption DEF Inv, Types
  <2>2. s \in Direct \ (dir \cup {script})
    BY <1>1, <1>2, <2>1 DEF SoundInv, Loaded
  <2> QED
    BY <1>1, <1>2, <2>2 DEF SoundInv, MemReads, Reads, Def
<1> QED
  BY <1>2 DEF Asks

LEMMA OptInByNumberSound ==
    ASSUME Inv, SoundInv, NEW i \in DOMAIN calls, Call(i).op = "optin", NEW failed \in BOOLEAN,
           OptInByNumber(i, failed), Grown(chain, chain'),
           ~failed => Def(Call(i).txns[1].name) = Absent
    PROVE  SoundInv'
<1>1. CASE Call(i).number = NoNumber
  BY <1>1, ThrowSound DEF OptInByNumber
<1>2. CASE Call(i).number # NoNumber
  <2> DEFINE st == [calls[i] EXCEPT !.step = "ready", !.made = 1, !.asset = Call(i).number, !.failed = failed]
  <2>1. calls[i] \in CallState /\ IsCall(Call(i)) /\ script \in Script /\ task.net \in Network
    BY CallIs
  <2>2. st.step = "ready" /\ st.failed = failed
    BY <2>1 DEF CallState
  <2>3. calls' = [calls EXCEPT ![i] = st] /\ UNCHANGED <<files, mem>> /\ StillRunning
    BY <1>2 DEF OptInByNumber
  <2> HIDE DEF st
  <2>4. Pending(Call(i), st) = {}
    <3>1. Call(i).txns[1].type = "optin" /\ Len(Call(i).txns) = 1 /\ Call(i).txns \in Seq(Txn)
      BY <2>1 DEF IsCall, Sends
    <3> QED
      BY <3>1 DEF Pending, Checked
  <2>5. ASSUME ~failed PROVE Asks(Call(i), st.asset)
    <3>1. Call(i).txns[1].name \in Name
      <4>1. Call(i).txns[1] \in Txn
        BY <2>1 DEF IsCall, Sends
      <4> QED
        BY <4>1 DEF Txn
    <3> QED
      BY <2>1, <2>5, <3>1, ReadsAsked
  <2> QED
    BY <2>2, <2>3, <2>4, <2>5, QuietMoveSound
<1> QED
  BY <1>1, <1>2

LEMMA RegisterSound ==
    ASSUME Inv, SoundInv, NEW i \in DOMAIN calls, NEW st,
           calls' = [calls EXCEPT ![i] = st], StillRunning, UNCHANGED <<files, chain>>, Writes,
           \A n \in Pending(Call(i), st) : OnlyIn(script, n), st.step # "ready",
           NEW name \in Name, NEW entry \in Entry, mem' = Register(mem, task.net, name, entry),
           name \in Registers(script), OnlyIn(script, name), Truthful(chain, task.net, name, entry)
    PROVE  SoundInv'
<1>1. /\ script # NoScript /\ script \in Direct /\ task.net \in Nets /\ task.net \in Network /\ task # NoTask
  BY CallIs, DirectRuns, NothingAssumption
<1>2. /\ WithEntry(mem.stripped, mem'.stripped, task.net, name, entry)
      /\ WithEntry(mem.preceding, mem'.preceding, task.net, name, entry)
      /\ WithEntry(mem.all, mem'.all, task.net, name, entry)
  BY <1>1, RegisterLooks DEF Inv, Types
<1>3. entry # Absent
  BY AbsentAssumption
<1>4. \A x \in Name : <<task.net, x>> # <<task.net, name>> <=> x # name
  OBVIOUS
<1>5. /\ Lookup(mem'.stripped, task.net, name) = entry /\ Lookup(mem'.preceding, task.net, name) = entry
      /\ Lookup(mem'.all, task.net, name) = entry
      /\ \A x \in Name \ {name} :
             /\ Lookup(mem'.stripped, task.net, x) = Lookup(mem.stripped, task.net, x)
             /\ Lookup(mem'.preceding, task.net, x) = Lookup(mem.preceding, task.net, x)
             /\ Lookup(mem'.all, task.net, x) = Lookup(mem.all, task.net, x)
  BY <1>1, <1>2, <1>4 DEF WithEntry
<1>6. \A net \in Network, x \in Name : net # task.net =>
          Lookup(mem'.stripped, net, x) = Lookup(mem.stripped, net, x)
  BY <1>2 DEF WithEntry
<1>7. Sound(chain, script, mem'.stripped)
  <2> SUFFICES ASSUME NEW net \in Network, NEW x \in Name, Lookup(mem'.stripped, net, x) # Absent
               PROVE  /\ x \in Registers(script) /\ net \in Nets
                      /\ Truthful(chain, net, x, Lookup(mem'.stripped, net, x))
    BY <1>1 DEF Sound
  <2>1. CASE net = task.net /\ x = name
    BY <1>1, <1>5, <2>1
  <2>2. CASE ~(net = task.net /\ x = name)
    <3>1. Lookup(mem'.stripped, net, x) = Lookup(mem.stripped, net, x)
      BY <1>5, <1>6, <2>2
    <3> QED
      BY <1>1, <3>1 DEF SoundInv, OwnSound, Sound
  <2> QED
    BY <2>1, <2>2
<1>8. Reads(mem', files, chain, task.net, Direct \ (dir \cup {script}))
  <2>1. \A s \in Direct \ (dir \cup {script}) : Lookup(files[s], task.net, name) = Absent
    BY <1>1, BodyAssumption DEF OnlyIn, Names
  <2> QED
    BY <1>1, <1>3, <1>5, <2>1 DEF SoundInv, MemReads, Reads
<1>9. OwnSound'
  BY <1>1, <1>3, <1>5, <1>7 DEF SoundInv, OwnSound, OnlyIn, StillRunning
<1>10. FilesSound'
  BY SameGrown, FilesStaySound DEF SoundInv
<1>11. Reads(mem', files', chain', task.net, Direct \ (dir \cup {script}))
  BY <1>8
<1> QED
  BY <1>9, <1>10, <1>11, MoveSound

\* What is deployed under a name that no file has on this network is in no other script's file.
LEMMA DeploysOwn ==
    ASSUME Separate, Inv, SoundInv, script # NoScript, Writes, NEW n \in Deploys(script), ~Defined(n)
    PROVE  OnlyIn(script, n)
<1>1. script \in Direct /\ task.net \in Nets /\ task.net \in Network /\ task # NoTask
  BY DirectRuns DEF Inv, Located
<1>2. n \in Name /\ n \in Registers(script)
  BY DEF Deploys, Registers
<1> SUFFICES ASSUME NEW r \in Script \ {script}, NEW net \in Network, Lookup(files[r], net, n) # Absent
             PROVE  FALSE
  BY <1>2 DEF OnlyIn, Names
<1>3. r \in Direct /\ n \in Registers(r) /\ net \in Nets
  BY <1>2 DEF SoundInv, FilesSound, Sound
<1>4. n \in Deploys(r)
  BY <1>1, <1>2, <1>3 DEF Separate, Registers
<1>5. net = task.net
  BY <1>1, <1>2, <1>3, <1>4 DEF Separate
<1> QED
  BY <1>1, <1>2, <1>5 DEF Defined, IsDefined, SoundInv, MemReads, Reads

\* What is deleted or updated to as well.
LEMMA ChangesOwn ==
    ASSUME Separate, Inv, SoundInv, script # NoScript, Writes, NEW n \in Deletes(script) \cup UpdatesTo(script)
    PROVE  OnlyIn(script, n)
<1>1. script \in Direct
  BY DirectRuns
<1> SUFFICES ASSUME NEW r \in Script \ {script}, NEW net \in Network, Lookup(files[r], net, n) # Absent,
                    n \in Name
             PROVE  FALSE
  BY DEF OnlyIn, Names
<1>2. r \in Direct /\ n \in Registers(r)
  BY DEF SoundInv, FilesSound, Sound
<1> QED
  BY <1>1, <1>2 DEF Separate

LEMMA RefuseSound == ASSUME Inv, SoundInv, NEW i \in DOMAIN calls, Refuse(i) PROVE SoundInv'
BY SameGrown, ThrowSound DEF Refuse

\* A step of the call alone.
LEMMA StepSound ==
    ASSUME Inv, SoundInv, NEW i \in DOMAIN calls, NEW step, Step(i, step), Quietly,
           Call(i).op # "optin" \/ step # "ready",
           Writes => \A n \in Pending(Call(i), [calls[i] EXCEPT !.step = step]) : OnlyIn(script, n)
    PROVE  SoundInv'
<1> DEFINE st == [calls[i] EXCEPT !.step = step]
<1>1. st.step = step /\ calls' = [calls EXCEPT ![i] = st]
  BY CallIs DEF CallState, Step
<1>2. StillRunning /\ UNCHANGED <<files, mem>> /\ Grown(chain, chain')
  BY SameGrown DEF Quietly
<1> HIDE DEF st
<1>3. Writes => \A n \in Pending(Call(i), st) : OnlyIn(script, n)
  BY DEF st
<1> QED
  BY <1>1, <1>2, <1>3, QuietMoveSound

LEMMA BeginSound ==
    ASSUME Separate, Inv, SoundInv, NEW i \in DOMAIN calls, Begin(i)
    PROVE  SoundInv'
<1> DEFINE c == Call(i)
           name == IF c.op = "lsig" THEN c.name ELSE c.txns[1].name
           st == [calls[i] EXCEPT !.step = "ready"]
<1>1. /\ IsCall(c) /\ c \in CallsIn(script) /\ script # NoScript /\ Writes
      /\ c.op \in {"deploy", "lsig"}
  BY CallIs, CallInScript, NothingAssumption DEF Begin
<1>2. CASE Defined(name)
  <2>1. Throw(i, TRUE) /\ UNCHANGED chain
    BY <1>2 DEF Begin
  <2> QED
    BY <2>1, SameGrown, ThrowSound
<1>3. CASE ~Defined(name)
  <2>1. name \in Deploys(script) /\ Pending(c, st) \subseteq {name}
    <3>1. CASE c.op = "lsig"
      BY <1>1, <3>1, LsigsAssumption DEF Deploys, IsCall, Pending
    <3>2. CASE c.op = "deploy"
      <4>1. /\ Sends(c) /\ c.txns \in Seq(Txn) /\ Len(c.txns) = 1 /\ DOMAIN c.txns = {1}
            /\ c.txns[1].type = "deploy"
        BY <1>1, <3>2 DEF IsCall, Sends
      <4>2. c.txns[1] \in Txn
        BY <4>1
      <4>3. c.txns[1].name \in Name
        BY <4>2 DEF Txn
      <4>4. HasTxn(script, "deploy", c.txns[1].name)
        BY <1>1, <4>1 DEF HasTxn
      <4> QED
        BY <3>2, <4>1, <4>3, <4>4 DEF Deploys, Pending, Checked
    <3> QED
      BY <1>1, <3>1, <3>2
  <2>2. OnlyIn(script, name)
    BY <1>1, <1>3, <2>1, DeploysOwn
  <2>3. Step(i, "ready") /\ Quietly
    BY <1>3 DEF Begin
  <2> HIDE DEF st, name
  <2>4. \A n \in Pending(c, [calls[i] EXCEPT !.step = "ready"]) : OnlyIn(script, n)
    BY <2>1, <2>2 DEF st
  <2> QED
    BY <1>1, <2>3, <2>4, StepSound
<1> QED
  BY <1>2, <1>3

LEMMA BeginUpdateSound ==
    ASSUME Inv, SoundInv, NEW i \in DOMAIN calls, BeginUpdate(i)
    PROVE  SoundInv'
<1>1. IsCall(Call(i)) /\ Call(i).op = "update" /\ Sends(Call(i))
  BY CallIs DEF BeginUpdate, Sends
<1>2. \A st : Pending(Call(i), st) = {}
  BY <1>1 DEF IsCall, Pending, Checked
<1>3. CASE Throw(i, FALSE) /\ UNCHANGED chain
  BY <1>3, SameGrown, ThrowSound
<1>4. CASE Step(i, "ready") /\ Quietly
  BY <1>1, <1>2, <1>4, StepSound
<1> QED
  BY <1>3, <1>4 DEF BeginUpdate

LEMMA BeginFundSound ==
    ASSUME Inv, SoundInv, NEW i \in DOMAIN calls, BeginFund(i)
    PROVE  SoundInv'
<1>1. IsCall(Call(i)) /\ Call(i).op = "fund"
  BY CallIs DEF BeginFund
<1>2. \A st : Pending(Call(i), st) = {}
  BY <1>1 DEF IsCall, Pending, Checked
<1> QED
  BY <1>1, <1>2, StepSound DEF BeginFund

LEMMA OptInSound ==
    ASSUME Inv, SoundInv, NEW i \in DOMAIN calls, OptIn(i)
    PROVE  SoundInv'
<1>1. calls[i] \in CallState /\ CallOK(Call(i), calls[i], task.net, chain, mem.preceding)
  BY CallIs DEF Inv, CallsOK
<1>2. Call(i).op = "deploy" /\ Step(i, "done") /\ Quietly
  BY <1>1 DEF OptIn, At, CallOK
<1>3. [calls[i] EXCEPT !.step = "done"].step = "done"
  BY <1>1 DEF CallState
<1>4. Pending(Call(i), [calls[i] EXCEPT !.step = "done"]) = {}
  BY <1>2, <1>3 DEF Pending, Checked, Midway
<1> QED
  BY <1>2, <1>4, StepSound

LEMMA BeginOptInSound ==
    ASSUME Inv, SoundInv, NEW i \in DOMAIN calls, BeginOptIn(i)
    PROVE  SoundInv'
<1> DEFINE n == Call(i).txns[1].name
           st == [calls[i] EXCEPT !.step = "ready", !.asset = Def(n).id]
<1>1. /\ Call(i).op = "optin" /\ IsCall(Call(i)) /\ Sends(Call(i)) /\ UNCHANGED chain
      /\ calls[i] \in CallState /\ script \in Script
  BY CallIs DEF BeginOptIn, Sends
<1>2. n \in Name /\ Len(Call(i).txns) = 1 /\ Call(i).txns[1].type = "optin" /\ DOMAIN Call(i).txns = {1}
  <2>1. Call(i).txns \in Seq(Txn) /\ Len(Call(i).txns) = 1
    BY <1>1 DEF IsCall
  <2>2. Call(i).txns[1] \in Txn
    BY <2>1
  <2> QED
    BY <1>1, <2>1, <2>2 DEF IsCall, Txn
<1>3. \A x : Pending(Call(i), x) = {}
  BY <1>1, <1>2 DEF Pending, Checked
<1>4. CASE Throw(i, FALSE)
  BY <1>1, <1>4, SameGrown, ThrowSound
<1>5. CASE Def(n) = Absent /\ OptInByNumber(i, FALSE)
  BY <1>1, <1>5, SameGrown, OptInByNumberSound
<1>6. CASE Def(n) # Absent /\ OptsIn(i, Def(n).id) /\ Quietly
  <2>1. calls' = [calls EXCEPT ![i] = st] /\ st.asset = Def(n).id
    BY <1>1, <1>6 DEF OptsIn, CallState
  <2>2. Asks(Call(i), Def(n).id)
    BY <1>1, <1>2, <1>6, ReadsAsked
  <2> HIDE DEF st, n
  <2> QED
    BY <1>3, <1>6, <2>1, <2>2, SameGrown, QuietMoveSound DEF Quietly
<1> QED
  BY <1>4, <1>5, <1>6 DEF BeginOptIn

\* The next transaction of a group is all that is new.
LEMMA MadeOneMore ==
    ASSUME Inv, NEW i \in DOMAIN calls, calls[i].step \in {"start", "making"}, Call(i).op = "group",
           NEW st, st = [calls[i] EXCEPT !.made = calls[i].made + 1,
                             !.step = IF calls[i].made + 1 = Len(Call(i).txns) THEN "ready" ELSE "making"]
    PROVE  LET t == Call(i).txns[calls[i].made + 1]
           IN  /\ t.name \in Name /\ calls[i].made + 1 \in DOMAIN Call(i).txns
               /\ \A n \in Pending(Call(i), st) :
                      \/ n = t.name /\ t.type = "deploy"
                      \/ calls[i].step = "making" /\ n \in Pending(Call(i), calls[i])
<1> DEFINE c == Call(i)
           k == calls[i].made + 1
           t == c.txns[k]
           step == IF k = Len(c.txns) THEN "ready" ELSE "making"
<1>1. /\ IsCall(c) /\ Sends(c) /\ calls[i] \in CallState /\ c.txns \in Seq(Txn)
      /\ CallOK(c, calls[i], task.net, chain, mem.preceding)
  BY CallIs DEF Sends, IsCall, Inv, CallsOK
<1>2. k \in DOMAIN c.txns /\ k \in Nat
  BY <1>1 DEF CallOK, IsCall, CallState
<1>3. t.name \in Name
  <2>1. t \in Txn
    BY <1>1, <1>2
  <2> QED
    BY <2>1 DEF Txn
<1>4. st.made = k /\ st.step = step /\ step \in {"ready", "making"}
  BY <1>1 DEF CallState
<1>5. \A j \in Checked(c, st) : j = k \/ (calls[i].step = "making" /\ j \in Checked(c, calls[i]))
  <2>1. \A j \in Checked(c, st) : j \in DOMAIN c.txns /\ j <= k
    <3>1. step = "ready" => k = Len(c.txns)
      OBVIOUS
    <3> QED
      BY <1>1, <1>4, <3>1 DEF Checked
  <2>2. \A j \in DOMAIN c.txns : j <= k => j <= calls[i].made \/ j = k
    BY <1>1 DEF CallState
  <2>3. calls[i].step = "making" => \A j \in DOMAIN c.txns : j <= calls[i].made => j \in Checked(c, calls[i])
    BY <1>1 DEF Checked, Midway
  <2>4. calls[i].step = "start" => \A j \in DOMAIN c.txns : j <= k => j = k
    BY <1>1 DEF CallOK, CallState
  <2> QED
    BY <2>1, <2>2, <2>3, <2>4
<1> HIDE DEF k
<1>6. ASSUME NEW n \in Pending(c, st)
      PROVE  \/ n = t.name /\ t.type = "deploy"
             \/ calls[i].step = "making" /\ n \in Pending(c, calls[i])
  <2>1. PICK j \in Checked(c, st) : c.txns[j].type = "deploy" /\ c.txns[j].name = n
    BY <1>6 DEF Pending
  <2>2. CASE j = k
    BY <2>1, <2>2
  <2>3. CASE calls[i].step = "making" /\ j \in Checked(c, calls[i])
    BY <2>1, <2>3 DEF Pending
  <2> QED
    BY <1>5, <2>1, <2>2, <2>3
<1> QED
  BY <1>2, <1>3, <1>6 DEF k

LEMMA MakeTxSound ==
    ASSUME Separate, Inv, SoundInv, NEW i \in DOMAIN calls, MakeTx(i)
    PROVE  SoundInv'
<1> DEFINE c == Call(i)
           k == calls[i].made + 1
           t == c.txns[k]
           step == IF k = Len(c.txns) THEN "ready" ELSE "making"
           st == [calls[i] EXCEPT !.made = k, !.step = step]
<1>1. /\ c.op = "group" /\ calls[i].step \in {"start", "making"} /\ c \in CallsIn(script)
      /\ script # NoScript /\ Sends(c)
  BY CallIs, CallInScript, NothingAssumption DEF MakeTx, At, Sends
<1>2. CASE (Throw(i, FALSE) \/ Throw(i, TRUE)) /\ UNCHANGED chain
  BY <1>2, SameGrown, ThrowSound
<1>3. CASE /\ ~(t.type = "deploy" /\ Defined(t.name))
           /\ calls' = [calls EXCEPT ![i].made = k, ![i].step = step] /\ Quietly
  <2>1. calls' = [calls EXCEPT ![i] = st]
    BY <1>3
  <2>2. /\ t.name \in Name /\ k \in DOMAIN c.txns
        /\ \A n \in Pending(c, st) : \/ n = t.name /\ t.type = "deploy"
                                     \/ calls[i].step = "making" /\ n \in Pending(c, calls[i])
    BY <1>1, MadeOneMore
  <2>3. ASSUME Writes, t.type = "deploy" PROVE OnlyIn(script, t.name)
    <3>1. HasTxn(script, "deploy", t.name)
      BY <1>1, <2>2, <2>3 DEF HasTxn
    <3>2. t.name \in Deploys(script)
      BY <2>2, <3>1 DEF Deploys
    <3> QED
      BY <1>1, <1>3, <2>3, <3>2, DeploysOwn
  <2> HIDE DEF st, k
  <2>4. Writes => \A n \in Pending(c, st) : OnlyIn(script, n)
    BY <2>2, <2>3 DEF SoundInv, PendingOwn
  <2> QED
    BY <1>1, <1>3, <2>1, <2>4, SameGrown, QuietMoveSound DEF Quietly
<1> QED
  BY <1>2, <1>3 DEF MakeTx

LEMMA AddCheckpointKVSound ==
    ASSUME Inv, SoundInv, NEW i \in DOMAIN calls, AddCheckpointKV(i)
    PROVE  SoundInv'
<1> DEFINE found == GetMetadata(mem, task.net, Call(i).key)
           st == [calls[i] EXCEPT !.step = "done"]
<1>1. /\ script # NoScript /\ task # NoTask /\ task.net \in Network /\ calls[i] \in CallState
      /\ Call(i).key \in Key /\ Call(i).value \in Value
  BY CallIs, NothingAssumption DEF AddCheckpointKV, IsCall
<1>2. CASE Throw(i, FALSE) /\ UNCHANGED chain
  BY <1>2, SameGrown, ThrowSound
<1>3. CASE /\ mem' = IF found = Absent THEN PutMetadata(mem, task.net, Call(i).key, Call(i).value) ELSE mem
           /\ Step(i, "done") /\ UNCHANGED <<files, chain, told>> /\ StillRunning
  <2>1. calls' = [calls EXCEPT ![i] = st] /\ st.step = "done"
    BY <1>1, <1>3 DEF Step, CallState
  <2> HIDE DEF st
  <2>2. Pending(Call(i), st) = {}
    BY <2>1 DEF Pending, Checked, Midway
  <2>3. \A net \in Network, n \in Name :
            /\ Lookup(mem'.stripped, net, n) = Lookup(mem.stripped, net, n)
            /\ Lookup(mem'.preceding, net, n) = Lookup(mem.preceding, net, n)
            /\ Lookup(mem'.all, net, n) = Lookup(mem.all, net, n)
    <3>1. CASE found = Absent
      BY <1>1, <1>3, <3>1, PutMetadataLooks DEF Inv, Types, WithSameEntries
    <3>2. CASE found # Absent
      BY <1>3, <3>2
    <3> QED
      BY <3>1, <3>2
  <2>4. FilesSound'
    BY <1>3, SameGrown, FilesStaySound DEF SoundInv
  <2>5. Reads(mem', files', chain', task.net, Direct \ (dir \cup {script}))
    BY <1>1, <1>3, <2>3 DEF SoundInv, MemReads, Reads
  <2>6. OwnSound'
    BY <1>1, <1>3, <2>3 DEF SoundInv, OwnSound, OnlyIn, Sound, StillRunning
  <2> QED
    BY <1>3, <2>1, <2>2, <2>4, <2>5, <2>6, MoveSound
<1> QED
  BY <1>2, <1>3 DEF AddCheckpointKV

LEMMA SignLsigSound ==
    ASSUME Inv, SoundInv, NEW i \in DOMAIN calls, SignLsig(i)
    PROVE  SoundInv'
<1> DEFINE c == Call(i)
           entry == [id |-> <<0, 0>>, deleted |-> FALSE]
           st == [calls[i] EXCEPT !.step = "done"]
<1>1. /\ c.op = "lsig" /\ calls[i].step = "ready" /\ Writes /\ calls[i] \in CallState /\ IsCall(c)
      /\ c \in CallsIn(script) /\ script # NoScript
  BY CallIs, CallInScript, NothingAssumption DEF SignLsig, At, Inv, CallsOK
<1>2. calls' = [calls EXCEPT ![i] = st] /\ st.step = "done"
  BY <1>1 DEF SignLsig, Step, CallState
<1> HIDE DEF st
<1>3. c.name \in Lsigs /\ c.name \in Name /\ c.name \in Registers(script)
  BY <1>1, LsigsAssumption DEF IsCall, Registers, Deploys
<1>4. entry \in Entry /\ entry.id = <<0, 0>> /\ mem' = Register(mem, task.net, c.name, entry)
  BY DEF Entry, Id, SignLsig
<1> HIDE DEF entry
<1>5. OnlyIn(script, c.name)
  <2>1. c.name \in Pending(c, calls[i])
    BY <1>1 DEF Pending
  <2> QED
    BY <1>1, <2>1 DEF SoundInv, PendingOwn
<1>6. Truthful(chain, task.net, c.name, entry)
  BY <1>3, <1>4 DEF Truthful
<1>7. Pending(c, st) = {}
  BY <1>2 DEF Pending, Checked, Midway
<1>8. StillRunning /\ UNCHANGED <<files, chain>>
  BY DEF SignLsig
<1> QED
  BY <1>1, <1>2, <1>3, <1>4, <1>5, <1>6, <1>7, <1>8, RegisterSound

LEMMA SendSound ==
    ASSUME Inv, SoundInv, NEW i \in DOMAIN calls, Send(i)
    PROVE  SoundInv'
<1> DEFINE st == [calls[i] EXCEPT !.step = "sent", !.tx = Len(chain) + 1]
<1>1. /\ calls[i].step = "ready" /\ Sends(Call(i)) /\ calls[i] \in CallState
      /\ UNCHANGED <<files, mem>> /\ StillRunning /\ Call(i).op # "lsig"
  BY CallIs DEF Send, At, Sends
<1>2. calls' = [calls EXCEPT ![i] = st] /\ st.step = "sent"
  BY <1>1 DEF Send, CallState
<1>3. Grown(chain, chain')
  BY <1>1, AcceptedIs DEF Send
<1> HIDE DEF st
<1>4. Pending(Call(i), st) \subseteq Pending(Call(i), calls[i])
  BY <1>1, <1>2 DEF Pending, Checked, Midway
<1>5. Writes => \A n \in Pending(Call(i), st) : OnlyIn(script, n)
  BY <1>4 DEF SoundInv, PendingOwn
<1> QED
  BY <1>1, <1>2, <1>3, <1>5, QuietMoveSound

\* An index that a node confirmed.
LEMMA ConfirmedTrue ==
    ASSUME NEW C, NEW t \in DOMAIN C, NEW k \in DOMAIN C[t].txns, NEW net, C[t].net = net,
           C[t].status = "confirmed", C[t].txns[k].type = "deploy", C[t].txns[k].name \notin Lsigs
    PROVE  Truthful(C, net, C[t].txns[k].name, [id |-> <<t, k>>, deleted |-> FALSE])
BY DEF Truthful

LEMMA ConfirmedSound ==
    ASSUME Separate, Inv, SoundInv, NEW i \in DOMAIN calls, Confirmed(i)
    PROVE  SoundInv'
<1> DEFINE c == Call(i)
           tx == calls[i].tx
<1>1. /\ calls[i].step = "sent" /\ chain[tx].status = "confirmed" /\ UNCHANGED <<files, chain>> /\ StillRunning
      /\ calls[i] \in CallState /\ IsCall(c) /\ c \in CallsIn(script) /\ script # NoScript
      /\ task.net \in Network /\ task # NoTask
      /\ CallOK(c, calls[i], task.net, chain, mem.preceding) /\ (c.op = "deploy" => Writes)
  BY CallIs, CallInScript, NothingAssumption DEF Confirmed, At, Inv, CallsOK
<1>2. /\ Sends(c) /\ tx \in DOMAIN chain /\ tx \in Nat /\ c.txns \in Seq(Txn)
      /\ chain[tx].txns = c.txns /\ chain[tx].net = task.net
  BY <1>1 DEF CallOK, CallState, IsCall
<1>3. ASSUME NEW step, Step(i, step), step \in {"opting", "done"}
      PROVE  \E st : calls' = [calls EXCEPT ![i] = st] /\ st.step = step /\ Pending(c, st) = {}
  <2> DEFINE st == [calls[i] EXCEPT !.step = step]
  <2>1. st.step = step /\ calls' = [calls EXCEPT ![i] = st]
    BY <1>1, <1>3 DEF CallState, Step
  <2> HIDE DEF st
  <2>2. Pending(c, st) = {}
    BY <1>2, <1>3, <2>1 DEF Pending, Checked, Midway, Sends
  <2> QED
    BY <2>1, <2>2
<1>4. ASSUME c.op \in {"deploy", "update"}
      PROVE  /\ DOMAIN c.txns = {1} /\ c.txns[1] \in Txn /\ c.txns[1].type = c.op
             /\ c.txns[1].name \in Name \ Lsigs
  <2>1. Len(c.txns) = 1 /\ c.txns[1].type = c.op
    BY <1>1, <1>4 DEF IsCall
  <2>2. c.txns[1] \in Txn
    BY <1>2, <2>1
  <2> QED
    BY <1>2, <2>1, <2>2 DEF Txn
<1>5. CASE c.op = "deploy" /\ Recorded(c.txns[1].name, <<tx, 1>>)
           /\ Step(i, IF c.optIns THEN "opting" ELSE "done")
  <2> DEFINE name == c.txns[1].name
             entry == [id |-> <<tx, 1>>, deleted |-> FALSE]
  <2>1. name \in Name \ Lsigs /\ c.txns[1].type = "deploy" /\ DOMAIN c.txns = {1}
    BY <1>4, <1>5
  <2>2. HasTxn(script, "deploy", name)
    BY <1>1, <1>2, <2>1 DEF HasTxn
  <2>3. name \in Registers(script)
    BY <2>1, <2>2 DEF Registers, Deploys
  <2>4. name \in Pending(c, calls[i])
    BY <1>1, <1>2, <1>5, <2>1 DEF Pending, Checked, Midway
  <2>5. OnlyIn(script, name)
    BY <1>1, <1>5, <2>4 DEF SoundInv, PendingOwn
  <2>6. Truthful(chain, task.net, name, entry)
    BY <1>1, <1>2, <2>1, ConfirmedTrue
  <2>7. entry \in Entry /\ mem' = Register(mem, task.net, name, entry)
    BY <1>2, <1>5 DEF Entry, Id, Recorded
  <2> HIDE DEF entry, name
  <2>8. PICK st : calls' = [calls EXCEPT ![i] = st] /\ Pending(c, st) = {} /\ st.step # "ready"
    BY <1>3, <1>5
  <2> QED
    BY <1>1, <1>5, <2>1, <2>3, <2>5, <2>6, <2>7, <2>8, RegisterSound
<1>6. CASE c.op = "update" /\ Writes /\ Recorded(c.txns[1].newName, Def(c.txns[1].name).id) /\ Step(i, "done")
  <2> DEFINE name == c.txns[1].name
             new == c.txns[1].newName
             entry == [id |-> Def(name).id, deleted |-> FALSE]
  <2>1. name \in Name \ Lsigs /\ c.txns[1] \in Txn /\ c.txns[1].type = "update" /\ DOMAIN c.txns = {1}
    BY <1>4, <1>6
  <2>2. new \in Name \ Lsigs
    BY <2>1 DEF Txn
  <2>3. name \in Updates(script) /\ new \in UpdatesTo(script) /\ new \in Registers(script)
    <3>1. HasTxn(script, "update", name)
      BY <1>1, <1>2, <2>1 DEF HasTxn
    <3> QED
      BY <1>1, <1>6, <2>1, <2>2, <3>1 DEF Updates, UpdatesTo, Registers
  <2>4. OnlyIn(script, new)
    BY <1>1, <1>6, <2>3, ChangesOwn
  <2>5. Def(name) # Absent
    <3>1. 1 \in Checked(c, calls[i])
      BY <1>1, <1>2, <2>1 DEF Checked, Midway
    <3>2. name \in Uses(c, calls[i])
      BY <1>6, <2>1, <3>1 DEF Uses
    <3> QED
      BY <1>1, <3>2 DEF CallOK, Def
  <2>6. Def(name) \in Entry
    BY <1>1, <2>1, <2>5, LookupType DEF Def, Inv, Types, Repo
  <2>7. Truthful(chain, task.net, name, Def(name))
    BY <1>1, <2>1, <2>5 DEF SoundInv, MemReads, Reads, Def
  <2>8. entry \in Entry /\ entry.id = Def(name).id /\ mem' = Register(mem, task.net, new, entry)
    BY <1>6, <2>6 DEF Entry, Recorded
  <2> HIDE DEF entry, name, new
  <2>9. script \in Direct
    BY <1>1, <1>6, DirectRuns
  <2>10. Truthful(chain, task.net, new, entry)
    BY <2>1, <2>2, <2>3, <2>7, <2>8, <2>9 DEF Truthful
  <2>11. PICK st : calls' = [calls EXCEPT ![i] = st] /\ Pending(c, st) = {} /\ st.step # "ready"
    BY <1>3, <1>6
  <2> QED
    BY <1>1, <1>6, <2>2, <2>3, <2>4, <2>8, <2>10, <2>11, RegisterSound
<1>7. CASE Step(i, "done") /\ UNCHANGED <<mem, told>>
  <2>1. PICK st : calls' = [calls EXCEPT ![i] = st] /\ Pending(c, st) = {} /\ st.step # "ready"
    BY <1>3, <1>7
  <2> QED
    BY <1>1, <1>7, <2>1, SameGrown, QuietMoveSound
<1>8. CASE /\ c.op = "group" /\ Writes
           /\ calls' = [calls EXCEPT ![i].step = "recording", ![i].made = 0]
           /\ UNCHANGED <<mem, told>>
  <2> DEFINE st == [calls[i] EXCEPT !.step = "recording", !.made = 0]
  <2>1. st.step = "recording" /\ st.made = 0 /\ calls' = [calls EXCEPT ![i] = st]
    BY <1>1, <1>8 DEF CallState
  <2> HIDE DEF st
  <2>2. Pending(c, st) \subseteq Pending(c, calls[i])
    BY <1>1, <1>2, <1>8, <2>1 DEF Pending, Checked, Midway
  <2>3. \A n \in Pending(c, st) : OnlyIn(script, n)
    BY <1>8, <2>2 DEF SoundInv, PendingOwn
  <2> QED
    BY <1>1, <1>8, <2>1, <2>3, SameGrown, QuietMoveSound
<1> QED
  BY <1>5, <1>6, <1>7, <1>8 DEF Confirmed

\* A deletion is recorded under the name it was asked for: a name that has the same index was
\* updated to, or is that name.
LEMMA OneKey ==
    ASSUME Separate, NEW C, NEW net, NEW n \in Name \ Lsigs, NEW key \in Name,
           NEW a, NEW b, a.id = b.id, 0 \notin DOMAIN C,
           Truthful(C, net, n, a), Truthful(C, net, key, b),
           NEW s \in Direct, n \in Deletes(s)
    PROVE  key = n
<1>1. key \notin Lsigs
  <2> SUFFICES ASSUME key \in Lsigs PROVE FALSE
    OBVIOUS
  <2>1. b.id = <<0, 0>>
    BY DEF Truthful
  <2>2. a.id[1] \in DOMAIN C
    BY DEF Truthful
  <2>3. <<0, 0>>[1] = 0
    OBVIOUS
  <2> QED
    BY <2>1, <2>2, <2>3
<1> DEFINE d == C[a.id[1]].txns[a.id[2]].name
<1>2. d = n \/ \E r, u \in Direct : d \in Updates(r) /\ n \in UpdatesTo(u)
  BY DEF Truthful
<1>3. d = key \/ \E r, u \in Direct : d \in Updates(r) /\ key \in UpdatesTo(u)
  BY <1>1 DEF Truthful
<1> HIDE DEF d
<1>4. d = n
  BY <1>2 DEF Separate
<1> QED
  BY <1>3, <1>4 DEF Separate

\* What is deleted is recorded under the name it was asked for.
LEMMA DeletedKey ==
    ASSUME Separate, Inv, SoundInv, NEW i \in DOMAIN calls, calls[i].step = "recording",
           NEW t, t = Call(i).txns[calls[i].made + 1], t.type = "delete",
           NEW key \in KeysOfIndex(mem, task.net, Def(t.name).id)
    PROVE  /\ key = t.name /\ key \in Name /\ key \in Deletes(script) /\ OnlyIn(script, key)
           /\ Def(key) \in Entry /\ Truthful(chain, task.net, key, Def(key))
<1> DEFINE c == Call(i)
           k == calls[i].made + 1
<1>1. /\ calls[i] \in CallState /\ IsCall(c) /\ Writes /\ CallOK(c, calls[i], task.net, chain, mem.preceding)
      /\ script # NoScript /\ task.net \in Network /\ task # NoTask /\ c \in CallsIn(script)
  BY CallIs, CallInScript, NothingAssumption DEF Inv, CallsOK, Located
<1>2. /\ c.op = "group" /\ c.txns \in Seq(Txn) /\ Sends(c) /\ k \in DOMAIN c.txns
  BY <1>1 DEF CallOK, IsCall, Sends, CallState
<1>3. t \in Txn /\ t.name \in Name \ Lsigs /\ t = c.txns[k]
  BY <1>2 DEF Txn
<1>4. script \in Direct
  BY <1>1, DirectRuns
<1>5. key \in Name /\ Def(key) # Absent /\ Def(key).id = Def(t.name).id
  BY DEF KeysOfIndex, Def
<1>6. Def(key) \in Entry
  BY <1>1, <1>5, LookupType DEF Def, Inv, Types, Repo
<1>7. Def(t.name) # Absent
  <2>1. k \in Checked(c, calls[i])
    BY <1>1, <1>2 DEF Checked, Midway
  <2>2. t.name \in Uses(c, calls[i])
    BY <1>2, <1>3, <2>1 DEF Uses
  <2> QED
    BY <1>1, <2>2 DEF CallOK, Def
<1>8. Truthful(chain, task.net, t.name, Def(t.name)) /\ Truthful(chain, task.net, key, Def(key))
  BY <1>1, <1>3, <1>5, <1>7 DEF SoundInv, MemReads, Reads, Def
<1>9. t.name \in Deletes(script)
  <2>1. HasTxn(script, "delete", t.name)
    BY <1>1, <1>2, <1>3 DEF HasTxn
  <2> QED
    BY <1>3, <2>1 DEF Deletes
<1>10. 0 \notin DOMAIN chain
  BY DEF Inv, Types
<1>11. key = t.name
  BY <1>3, <1>4, <1>5, <1>8, <1>9, <1>10, OneKey
<1>12. OnlyIn(script, key)
  BY <1>1, <1>9, <1>11, ChangesOwn
<1> QED
  BY <1>5, <1>6, <1>8, <1>9, <1>11, <1>12

LEMMA RecordTxSound ==
    ASSUME Separate, Inv, SoundInv, NEW i \in DOMAIN calls, RecordTx(i)
    PROVE  SoundInv'
<1> DEFINE c == Call(i)
           k == calls[i].made + 1
           t == c.txns[k]
           tx == calls[i].tx
           step == IF k = Len(c.txns) THEN "done" ELSE "recording"
           st == [calls[i] EXCEPT !.made = k, !.step = step]
<1>1. /\ calls[i].step = "recording" /\ UNCHANGED <<files, chain>> /\ StillRunning
      /\ calls' = [calls EXCEPT ![i] = st] /\ calls[i] \in CallState /\ IsCall(c)
      /\ script # NoScript /\ task.net \in Network /\ task # NoTask /\ c \in CallsIn(script)
  BY CallIs, CallInScript, NothingAssumption DEF RecordTx, At, Inv, Located
<1>2. Writes /\ CallOK(c, calls[i], task.net, chain, mem.preceding)
  BY <1>1 DEF Inv, CallsOK
<1>3. /\ c.op = "group" /\ c.txns \in Seq(Txn) /\ Sends(c)
      /\ k \in 1..Len(c.txns) /\ k \in DOMAIN c.txns /\ k \in Nat /\ calls[i].made \in Nat
      /\ tx \in DOMAIN chain /\ tx \in Nat /\ chain[tx].txns = c.txns /\ chain[tx].net = task.net
      /\ chain[tx].status = "confirmed"
  BY <1>1, <1>2 DEF CallOK, IsCall, Sends, CallState
<1>4. t \in Txn /\ t.name \in Name \ Lsigs
  BY <1>3 DEF Txn
<1>5. st.step = step /\ st.made = k /\ step # "ready"
  <2>1. step \in {"done", "recording"}
    OBVIOUS
  <2> HIDE DEF k, step
  <2> QED
    BY <1>1, <1>3, <2>1 DEF CallState
<1>6. script \in Direct
  BY <1>1, <1>2, DirectRuns
<1> HIDE DEF st
<1>7. Pending(c, st) \subseteq Pending(c, calls[i])
  <2>1. \A j \in DOMAIN c.txns : j > k => j > calls[i].made
    BY <1>3
  <2>2. step = "recording" \/ step = "done"
    OBVIOUS
  <2> HIDE DEF k, step
  <2>3. CASE step = "done"
    BY <1>3, <1>5, <2>3 DEF Pending, Checked, Midway
  <2>4. CASE step = "recording"
    BY <1>1, <1>3, <1>5, <2>1, <2>4 DEF Pending, Checked, Midway
  <2> QED
    BY <2>2, <2>3, <2>4
<1>8. \A n \in Pending(c, st) : OnlyIn(script, n)
  BY <1>2, <1>7 DEF SoundInv, PendingOwn
<1>9. CASE t.type = "deploy" /\ Recorded(t.name, <<tx, k>>)
  <2> DEFINE entry == [id |-> <<tx, k>>, deleted |-> FALSE]
  <2>1. HasTxn(script, "deploy", t.name)
    BY <1>1, <1>3, <1>9 DEF HasTxn
  <2>2. t.name \in Registers(script)
    BY <1>4, <2>1 DEF Registers, Deploys
  <2>3. t.name \in Pending(c, calls[i])
    <3>1. k \in Checked(c, calls[i]) /\ k > calls[i].made
      BY <1>1, <1>3 DEF Checked, Midway
    <3> QED
      BY <1>1, <1>3, <1>9, <3>1 DEF Pending
  <2>4. OnlyIn(script, t.name)
    BY <1>2, <2>3 DEF SoundInv, PendingOwn
  <2>5. Truthful(chain, task.net, t.name, entry)
    BY <1>3, <1>4, <1>9, ConfirmedTrue
  <2>6. entry \in Entry /\ mem' = Register(mem, task.net, t.name, entry)
    BY <1>3, <1>9 DEF Entry, Id, Recorded
  <2> HIDE DEF entry, t
  <2> QED
    BY <1>1, <1>2, <1>4, <1>5, <1>8, <2>2, <2>4, <2>5, <2>6, RegisterSound
<1>10. ASSUME t.type = "delete",
              NEW key \in KeysOfIndex(mem, task.net, Def(t.name).id),
              mem' = Register(mem, task.net, key, [Def(key) EXCEPT !.deleted = TRUE])
       PROVE  SoundInv'
  <2> DEFINE entry == [Def(key) EXCEPT !.deleted = TRUE]
  <2>1. /\ key \in Name /\ key \in Deletes(script) /\ OnlyIn(script, key)
        /\ Def(key) \in Entry /\ Truthful(chain, task.net, key, Def(key))
    BY <1>1, <1>10, DeletedKey
  <2>2. entry \in Entry /\ entry.id = Def(key).id
    BY <2>1 DEF Entry
  <2> HIDE DEF entry, t
  <2>3. key \in Registers(script) /\ Truthful(chain, task.net, key, entry)
    BY <2>1, <2>2 DEF Registers, Truthful
  <2>4. mem' = Register(mem, task.net, key, entry)
    BY <1>10 DEF entry
  <2> QED
    BY <1>1, <1>2, <1>5, <1>8, <2>1, <2>2, <2>3, <2>4, RegisterSound
<1>11. CASE UNCHANGED mem
  BY <1>1, <1>5, <1>8, <1>11, SameGrown, QuietMoveSound
<1> QED
  BY <1>9, <1>10, <1>11 DEF RecordTx

-----------------------------------------------------------------------------
(* Nodes, faults, and the whole next-state relation *)

LEMMA FailsSound ==
    ASSUME Inv, SoundInv, NEW i \in DOMAIN calls, Fails(i), Grown(chain, chain')
    PROVE  SoundInv'
BY OptInByNumberSound, ThrowSound DEF Fails

LEMMA ChainSound ==
    ASSUME Inv, SoundInv, UNCHANGED <<files, task, local, last>>, Grown(chain, chain')
    PROVE  SoundInv'
<1> USE DEF local
<1>1. FilesSound'
  BY FilesStaySound DEF SoundInv
<1>2. MemReads'
  BY ReadsGrows DEF SoundInv, MemReads
<1>3. OwnSound'
  <2>1. ASSUME script # NoScript PROVE Sound(chain', script, mem.stripped)
    BY <2>1, SoundGrows DEF SoundInv, OwnSound
  <2> QED
    BY <2>1 DEF SoundInv, OwnSound, OnlyIn
<1>4. Loaded' /\ PendingOwn' /\ AsksRecorded'
  BY DEF SoundInv, Loaded, PendingOwn, AsksRecorded, Call, Writes, OnlyIn, Asks
<1> QED
  BY <1>1, <1>2, <1>3, <1>4 DEF SoundInv

LEMMA SettleSound ==
    ASSUME Inv, SoundInv, NEW n \in DOMAIN chain, NodeConfirms(n) \/ NodeDrops(n)
    PROVE  SoundInv'
<1>1. chain \in Seq(Batch)
  BY DEF Inv, Types
<1>2. PICK status \in {"confirmed", "dropped"} :
          /\ chain[n].status = "pending" /\ chain' = [chain EXCEPT ![n].status = status]
          /\ UNCHANGED <<files, task, local, last>>
  BY DEF NodeConfirms, NodeDrops
<1>3. Grown(chain, chain')
  BY <1>1, <1>2, SettleGrown
<1> QED
  BY <1>2, <1>3, ChainSound

LEMMA CrashSound == ASSUME SoundInv, Crash PROVE SoundInv'
<1>1. FilesSound'
  BY SameGrown, FilesStaySound DEF SoundInv, Crash
<1> QED
  BY <1>1, LeaveSound DEF Crash

LEMMA CallStepSound ==
    ASSUME Separate, Inv, SoundInv, NEW i \in DOMAIN calls, CallStep(i)
    PROVE  SoundInv'
BY RefuseSound, BeginSound, BeginUpdateSound, BeginOptInSound, BeginFundSound, MakeTxSound,
   AddCheckpointKVSound, SignLsigSound, SendSound, ConfirmedSound, RecordTxSound, OptInSound DEF CallStep

LEMMA SoundNext == ASSUME Separate, Inv, SoundInv, [Next]_vars PROVE SoundInv'
<1>1. ASSUME NEW t \in Tasks, StartTask(t) PROVE SoundInv'
  BY <1>1, StartTaskSound
<1>2. CASE Progress
  BY <1>2, CallStepSound, NextScriptSound, NextStageSound, ScriptReturnsSound DEF Progress
<1>3. ASSUME NEW n \in DOMAIN chain, NodeConfirms(n) \/ NodeDrops(n) PROVE SoundInv'
  BY <1>3, SettleSound
<1>4. ASSUME NEW i \in DOMAIN calls, NodeError(i) PROVE SoundInv'
  BY <1>4, SameGrown, FailsSound DEF NodeError
<1>5. ASSUME NEW i \in DOMAIN calls, AnswerLost(i) PROVE SoundInv'
  BY <1>5, AcceptedIs, FailsSound DEF AnswerLost
<1>6. CASE Crash
  BY <1>6, CrashSound
<1>7. CASE UNCHANGED vars
  <2>1. UNCHANGED <<files, task, local, last>> /\ UNCHANGED chain
    BY <1>7 DEF vars
  <2> QED
    BY <2>1, SameGrown, ChainSound
<1> QED
  BY <1>1, <1>2, <1>3, <1>4, <1>5, <1>6, <1>7 DEF Next

LEMMA SoundAlways == ASSUME Separate PROVE Spec => [](Inv /\ SoundInv)
<1>1. Init => Inv /\ SoundInv
  BY InitInv, InitSound
<1>2. (Inv /\ SoundInv) /\ [Next]_vars => (Inv /\ SoundInv)'
  BY InvNext, SoundNext
<1> QED
  BY <1>1, <1>2, PTL DEF Spec

-----------------------------------------------------------------------------
(* What the files are good for *)

\* When no script changes what another one registers, every interleaving, failure and kill leaves
\* files that the next task can load (script-checkpoints.ts:98-117, deployer.ts:432-440).
THEOREM AlwaysLoadable == ASSUME Separate PROVE Spec => []FilesLoadable
<1>1. SoundInv => FilesLoadable
  BY FilesLoad DEF SoundInv, FilesLoadable
<1> QED
  BY <1>1, SoundAlways, PTL

\* A call adds to the chain when it sends.
LEMMA SendOnly ==
    ASSUME NEW i \in DOMAIN calls, CallStep(i), chain' # chain
    PROVE  calls[i].step = "ready" /\ Sends(Call(i)) /\ chain' = Accepted(i) /\ UNCHANGED files
BY DEF CallStep, Refuse, Begin, BeginUpdate, BeginOptIn, BeginFund, MakeTx, AddCheckpointKV, SignLsig, Send,
       Confirmed, RecordTx, OptIn, Quietly, At

\* Nodes take what a call sends, and settle it.
LEMMA ChainStep ==
    ASSUME Inv, [Next]_vars, chain' # chain
    PROVE  \/ \E i \in DOMAIN calls : calls[i].step = "ready" /\ Sends(Call(i)) /\ chain' = Accepted(i)
           \/ \E n \in DOMAIN chain :
                  /\ chain[n].status = "pending"
                  /\ \E status \in {"confirmed", "dropped"} :
                         chain' = [chain EXCEPT ![n] = [chain[n] EXCEPT !.status = status]]
<1> DEFINE Taken == \E i \in DOMAIN calls :
                        calls[i].step = "ready" /\ Sends(Call(i)) /\ chain' = Accepted(i)
           Settled == \E n \in DOMAIN chain :
                          /\ chain[n].status = "pending"
                          /\ \E status \in {"confirmed", "dropped"} :
                                 chain' = [chain EXCEPT ![n] = [chain[n] EXCEPT !.status = status]]
<1>1. ASSUME NEW t \in Tasks, StartTask(t) PROVE FALSE
  BY <1>1 DEF StartTask
<1>2. ASSUME Progress PROVE Taken
  BY <1>2, SendOnly DEF Progress, NextScript, NextStage, ScriptReturns
<1>3. ASSUME NEW n \in DOMAIN chain, NodeConfirms(n) \/ NodeDrops(n) PROVE Settled
  BY <1>3 DEF NodeConfirms, NodeDrops
<1>4. ASSUME NEW i \in DOMAIN calls, NodeError(i) PROVE FALSE
  BY <1>4 DEF NodeError
<1>5. ASSUME NEW i \in DOMAIN calls, AnswerLost(i) PROVE Taken
  BY <1>5 DEF AnswerLost, At
<1>6. ~Crash /\ ~UNCHANGED vars
  BY DEF Crash, vars
<1> QED
  BY <1>1, <1>2, <1>3, <1>4, <1>5, <1>6 DEF Next

\* An opt-in by a name that an earlier script's file records goes to the recorded index, also
\* when the name reads as a number; only after an error of the call does the number count
\* (deployer.ts:190, 209-220).
THEOREM OptInsAsked == ASSUME Separate PROVE Spec => OptInMeansRecorded
<1> DEFINE Meant(C, D) ==
             LET new == D[Len(D)]
             IN  (new.txns # << >> /\ new.txns[1].type = "optin") =>
                     \A s \in {s \in Direct : s < script} :
                         LET recorded == Lookup(files[s], new.net, new.txns[1].name)
                         IN  recorded # Absent =>
                                 \/ new.asset = recorded.id
                                 \/ \E i \in DOMAIN calls : calls[i].failed /\ calls[i].asset = new.asset
<1>1. ASSUME Inv, SoundInv, NEW i \in DOMAIN calls, calls[i].step = "ready", Sends(Call(i)),
             chain' = Accepted(i)
      PROVE  Meant(chain, chain')
  <2> DEFINE new == chain'[Len(chain')]
  <2>1. new.net = task.net /\ new.txns = Call(i).txns /\ new.asset = calls[i].asset
    BY <1>1, AcceptedIs
  <2>2. IsCall(Call(i))
    BY CallIs, <1>1
  <2> SUFFICES ASSUME Call(i).txns # << >>, Call(i).txns[1].type = "optin",
                      NEW s \in Direct, s < script,
                      Lookup(files[s], task.net, Call(i).txns[1].name) # Absent, ~calls[i].failed
               PROVE  calls[i].asset = Lookup(files[s], task.net, Call(i).txns[1].name).id
    <3> HIDE DEF new
    <3> QED
      BY <2>1 DEF new
  <2>3. Call(i).op = "optin"
    <3>1. Call(i).txns \in Seq(Txn) /\ 1 \in DOMAIN Call(i).txns
      BY <1>1, <2>2 DEF IsCall
    <3> QED
      BY <1>1, <2>2, <3>1 DEF IsCall, Sends
  <2> QED
    BY <1>1, <2>3 DEF SoundInv, AsksRecorded, Asks
<1>2. ASSUME Inv, [Next]_vars, Len(chain') > Len(chain)
      PROVE  \E i \in DOMAIN calls : calls[i].step = "ready" /\ Sends(Call(i)) /\ chain' = Accepted(i)
  <2>1. chain \in Seq(Batch)
    BY <1>2 DEF Inv, Types
  <2>2. chain' # chain /\ \A n \in DOMAIN chain : chain' # [chain EXCEPT ![n] = chain'[n]]
    BY <1>2, <2>1
  <2> QED
    BY <1>2, <2>2, ChainStep
<1>3. (Inv /\ SoundInv) /\ [Next]_vars => [Len(chain') > Len(chain) => Meant(chain, chain')]_vars
  BY <1>1, <1>2
<1> QED
  BY <1>3, SoundAlways, PTL DEF Spec, OptInMeansRecorded

-----------------------------------------------------------------------------
(* What is going to be deployed is not known yet *)

Unknown ==
    \A i \in DOMAIN calls :
        calls[i].step \in {"making", "ready"} =>
            \A n \in Pending(Call(i), calls[i]) : Lookup(mem.all, task.net, n) = Absent

LEMMA PendingMakes ==
    ASSUME NEW c, IsCall(c), NEW st
    PROVE  Pending(c, st) \subseteq Makes(c) /\ Pending(c, st) \subseteq Name
<1>1. Checked(c, st) \subseteq DOMAIN c.txns /\ (Checked(c, st) # {} => Sends(c))
  BY DEF Checked
<1>2. c.op = "update" => Pending(c, st) = {}
  BY <1>1 DEF IsCall, Sends, Pending
<1>3. Pending(c, st) \subseteq Makes(c)
  BY <1>1, <1>2 DEF Pending, Makes
<1> QED
  BY <1>3, UsesNames

\* The call i moves to st, and at most registers what it makes.
LEMMA MoveUnknown ==
    ASSUME Disjoint, Inv, Unknown, NEW i \in DOMAIN calls, NEW st,
           calls' = [calls EXCEPT ![i] = st], StillRunning,
           \A n \in Name \ Makes(Call(i)) :
               Lookup(mem.all, task.net, n) = Absent => Lookup(mem'.all, task.net, n) = Absent,
           st.step \in {"making", "ready"} =>
               \A n \in Pending(Call(i), st) : Lookup(mem'.all, task.net, n) = Absent
    PROVE  Unknown'
<1> USE DEF StillRunning
<1>1. DOMAIN calls' = DOMAIN calls /\ \A j \in DOMAIN calls : calls'[j] = IF j = i THEN st ELSE calls[j]
  BY DEF Inv, Types
<1>2. \A j \in DOMAIN calls : Call(j)' = Call(j)
  BY DEF Call
<1> SUFFICES ASSUME NEW j \in DOMAIN calls, calls'[j].step \in {"making", "ready"},
                    NEW n \in Pending(Call(j), calls'[j])
             PROVE  Lookup(mem'.all, task.net, n) = Absent
  BY <1>1, <1>2 DEF Unknown
<1>3. CASE j = i
  BY <1>1, <1>3
<1>4. CASE j # i
  <2>1. n \in Makes(Call(j)) /\ n \in Name
    BY CallIs, PendingMakes
  <2>2. n \notin Makes(Call(i))
    BY <1>4, <2>1, CallIs DEF Disjoint, Call, Inv, Located
  <2>3. Lookup(mem.all, task.net, n) = Absent
    BY <1>1, <1>4 DEF Unknown
  <2> QED
    BY <2>1, <2>2, <2>3
<1> QED
  BY <1>3, <1>4

LEMMA LeaveUnknown == ASSUME NEW t, NEW outcome, LeaveTask(t, outcome) PROVE Unknown'
BY NoCalls DEF LeaveTask, Unknown

LEMMA ThrowUnknown ==
    ASSUME Disjoint, Inv, Unknown, NEW i \in DOMAIN calls, NEW persists, Throw(i, persists)
    PROVE  Unknown'
<1>1. CASE ~Call(i).caught
  BY <1>1, LeaveUnknown DEF Throw
<1>2. CASE Call(i).caught
  <2> DEFINE st == [calls[i] EXCEPT !.step = "done"]
  <2>1. st.step = "done" /\ calls' = [calls EXCEPT ![i] = st] /\ StillRunning /\ UNCHANGED mem
    BY <1>2, CallIs DEF Throw, Step, CallState
  <2> HIDE DEF st
  <2> QED
    BY <2>1, MoveUnknown
<1> QED
  BY <1>1, <1>2

LEMMA OptInByNumberUnknown ==
    ASSUME Disjoint, Inv, Unknown, NEW i \in DOMAIN calls, Call(i).op = "optin", NEW failed,
           OptInByNumber(i, failed)
    PROVE  Unknown'
<1>1. CASE Call(i).number = NoNumber
  BY <1>1, ThrowUnknown DEF OptInByNumber
<1>2. CASE Call(i).number # NoNumber
  <2> DEFINE st == [calls[i] EXCEPT !.step = "ready", !.made = 1, !.asset = Call(i).number, !.failed = failed]
  <2>1. calls' = [calls EXCEPT ![i] = st] /\ UNCHANGED mem /\ StillRunning
    BY <1>2 DEF OptInByNumber
  <2> HIDE DEF st
  <2>2. Pending(Call(i), st) = {}
    <3>1. IsCall(Call(i))
      BY CallIs
    <3> QED
      BY <3>1 DEF Pending, Checked, IsCall, Sends
  <2> QED
    BY <2>1, <2>2, MoveUnknown
<1> QED
  BY <1>1, <1>2

\* The call moves to a step in which it has nothing to send.
LEMMA PastUnknown ==
    ASSUME Disjoint, Inv, Unknown, NEW i \in DOMAIN calls, NEW st, calls' = [calls EXCEPT ![i] = st],
           StillRunning, st.step \notin {"making", "ready"} \/ Pending(Call(i), st) = {},
           UNCHANGED mem \/ \E n \in Name, entry \in Entry :
                                n \in Makes(Call(i)) /\ mem' = Register(mem, task.net, n, entry)
    PROVE  Unknown'
<1>1. task.net \in Network /\ mem \in Repo
  BY CallIs DEF Inv, Types
<1>2. ASSUME NEW x \in Name \ Makes(Call(i)), Lookup(mem.all, task.net, x) = Absent
      PROVE  Lookup(mem'.all, task.net, x) = Absent
  <2>1. CASE UNCHANGED mem
    BY <1>2, <2>1
  <2>2. ASSUME NEW n \in Name, NEW entry \in Entry, n \in Makes(Call(i)), mem' = Register(mem, task.net, n, entry)
        PROVE  Lookup(mem'.all, task.net, x) = Absent
    <3>1. WithEntry(mem.all, mem'.all, task.net, n, entry)
      BY <1>1, <2>2, RegisterLooks
    <3>2. <<task.net, x>> # <<task.net, n>>
      BY <1>2, <2>2
    <3> QED
      BY <1>1, <1>2, <3>1, <3>2 DEF WithEntry
  <2> QED
    BY <2>1, <2>2
<1> QED
  BY <1>2, MoveUnknown

LEMMA BeginUnknown ==
    ASSUME Disjoint, Inv, Unknown, NEW i \in DOMAIN calls, Begin(i)
    PROVE  Unknown'
<1> DEFINE c == Call(i)
           name == IF c.op = "lsig" THEN c.name ELSE c.txns[1].name
           st == [calls[i] EXCEPT !.step = "ready"]
<1>1. IsCall(c) /\ c.op \in {"deploy", "lsig"}
  BY CallIs DEF Begin
<1>2. CASE Defined(name)
  <2>1. Throw(i, TRUE)
    BY <1>2 DEF Begin
  <2> QED
    BY <2>1, ThrowUnknown
<1>3. CASE ~Defined(name)
  <2>1. calls' = [calls EXCEPT ![i] = st] /\ StillRunning /\ UNCHANGED mem
    BY <1>3 DEF Begin, Step, Quietly
  <2>2. Pending(c, st) \subseteq {name}
    BY <1>1 DEF IsCall, Pending, Checked, Sends
  <2>3. \A n \in Pending(c, st) : Lookup(mem'.all, task.net, n) = Absent
    BY <1>3, <2>1, <2>2 DEF Defined, IsDefined
  <2> HIDE DEF st
  <2> QED
    BY <2>1, <2>3, MoveUnknown
<1> QED
  BY <1>2, <1>3

LEMMA MakeTxUnknown ==
    ASSUME Disjoint, Inv, Unknown, NEW i \in DOMAIN calls, MakeTx(i)
    PROVE  Unknown'
<1> DEFINE c == Call(i)
           k == calls[i].made + 1
           t == c.txns[k]
           step == IF k = Len(c.txns) THEN "ready" ELSE "making"
           st == [calls[i] EXCEPT !.made = k, !.step = step]
<1>1. CASE Throw(i, FALSE) \/ Throw(i, TRUE)
  BY <1>1, ThrowUnknown
<1>2. CASE /\ ~(t.type = "deploy" /\ Defined(t.name))
           /\ calls' = [calls EXCEPT ![i].made = k, ![i].step = step] /\ Quietly
  <2>1. calls' = [calls EXCEPT ![i] = st] /\ StillRunning /\ UNCHANGED mem
    BY <1>2 DEF Quietly
  <2>2. ASSUME NEW n \in Pending(c, st) PROVE Lookup(mem.all, task.net, n) = Absent
    <3>1. \/ n = t.name /\ t.type = "deploy"
          \/ calls[i].step = "making" /\ n \in Pending(c, calls[i])
      BY <2>2, MadeOneMore DEF MakeTx, At
    <3>2. CASE n = t.name /\ t.type = "deploy"
      BY <1>2, <3>2 DEF Defined, IsDefined
    <3>3. CASE calls[i].step = "making" /\ n \in Pending(c, calls[i])
      BY <3>3 DEF Unknown
    <3> QED
      BY <3>1, <3>2, <3>3
  <2> HIDE DEF st
  <2> QED
    BY <2>1, <2>2, MoveUnknown
<1> QED
  BY <1>1, <1>2 DEF MakeTx

LEMMA AddCheckpointKVUnknown ==
    ASSUME Disjoint, Inv, Unknown, NEW i \in DOMAIN calls, AddCheckpointKV(i)
    PROVE  Unknown'
<1> DEFINE found == GetMetadata(mem, task.net, Call(i).key)
           st == [calls[i] EXCEPT !.step = "done"]
<1>1. task.net \in Network /\ calls[i] \in CallState /\ Call(i).key \in Key /\ Call(i).value \in Value
  BY CallIs DEF AddCheckpointKV, IsCall
<1>2. CASE Throw(i, FALSE)
  BY <1>2, ThrowUnknown
<1>3. CASE /\ mem' = IF found = Absent THEN PutMetadata(mem, task.net, Call(i).key, Call(i).value) ELSE mem
           /\ Step(i, "done") /\ StillRunning
  <2>1. calls' = [calls EXCEPT ![i] = st] /\ st.step = "done"
    BY <1>1, <1>3 DEF Step, CallState
  <2> HIDE DEF st
  <2>2. \A n \in Name : Lookup(mem'.all, task.net, n) = Lookup(mem.all, task.net, n)
    <3>1. CASE found = Absent
      BY <1>1, <1>3, <3>1, PutMetadataLooks DEF Inv, Types, WithSameEntries
    <3>2. CASE found # Absent
      BY <1>3, <3>2
    <3> QED
      BY <3>1, <3>2
  <2> QED
    BY <1>3, <2>1, <2>2, MoveUnknown
<1> QED
  BY <1>2, <1>3 DEF AddCheckpointKV

LEMMA ConfirmedUnknown ==
    ASSUME Disjoint, Inv, Unknown, NEW i \in DOMAIN calls, Confirmed(i)
    PROVE  Unknown'
<1> DEFINE c == Call(i)
           tx == calls[i].tx
<1>1. /\ calls[i].step = "sent" /\ StillRunning /\ calls[i] \in CallState /\ IsCall(c)
      /\ task.net \in Network /\ CallOK(c, calls[i], task.net, chain, mem.preceding)
  BY CallIs DEF Confirmed, At, Inv, CallsOK
<1>2. Sends(c) /\ tx \in Nat /\ c.txns \in Seq(Txn)
  BY <1>1 DEF CallOK, CallState, IsCall
<1>3. ASSUME NEW step, Step(i, step), step \in {"opting", "done"}
      PROVE  \E st : calls' = [calls EXCEPT ![i] = st] /\ st.step \notin {"making", "ready"}
  <2> DEFINE st == [calls[i] EXCEPT !.step = step]
  <2>1. st.step = step /\ calls' = [calls EXCEPT ![i] = st]
    BY <1>1, <1>3 DEF CallState, Step
  <2> QED
    BY <1>3, <2>1
<1>4. ASSUME c.op \in {"deploy", "update"}
      PROVE  1 \in DOMAIN c.txns /\ c.txns[1] \in Txn /\ c.txns[1].type = c.op /\ c.txns[1].name \in Name
  <2>1. Len(c.txns) = 1 /\ c.txns[1].type = c.op
    BY <1>1, <1>4 DEF IsCall
  <2>2. c.txns[1] \in Txn
    BY <1>2, <2>1
  <2> QED
    BY <1>2, <2>1, <2>2 DEF Txn
<1>5. CASE c.op = "deploy" /\ Recorded(c.txns[1].name, <<tx, 1>>)
           /\ Step(i, IF c.optIns THEN "opting" ELSE "done")
  <2>1. c.txns[1].name \in Makes(c) /\ c.txns[1].name \in Name
    BY <1>2, <1>4, <1>5 DEF Makes
  <2>2. [id |-> <<tx, 1>>, deleted |-> FALSE] \in Entry
    BY <1>2 DEF Entry, Id
  <2>3. PICK st : calls' = [calls EXCEPT ![i] = st] /\ st.step \notin {"making", "ready"}
    BY <1>3, <1>5
  <2> QED
    BY <1>1, <1>5, <2>1, <2>2, <2>3, PastUnknown DEF Recorded
<1>6. CASE c.op = "update" /\ Recorded(c.txns[1].newName, Def(c.txns[1].name).id) /\ Step(i, "done")
  <2> DEFINE name == c.txns[1].name
             new == c.txns[1].newName
  <2>1. new \in Makes(c) /\ new \in Name /\ name \in Name
    <3>1. c.txns[1] \in Txn /\ c.txns[1].type = "update"
      BY <1>4, <1>6
    <3> QED
      BY <1>4, <1>6, <3>1 DEF Makes, Txn
  <2>2. Def(name) # Absent
    <3>1. 1 \in Checked(c, calls[i])
      BY <1>1, <1>2, <1>4, <1>6 DEF Checked, Midway
    <3>2. name \in Uses(c, calls[i])
      BY <1>4, <1>6, <3>1 DEF Uses
    <3> QED
      BY <1>1, <3>2 DEF CallOK, Def
  <2>3. Def(name).id \in Id
    BY <1>1, <2>1, <2>2, LookupType DEF Def, Inv, Types, Repo, Entry
  <2>4. [id |-> Def(name).id, deleted |-> FALSE] \in Entry
    BY <2>3 DEF Entry
  <2>5. PICK st : calls' = [calls EXCEPT ![i] = st] /\ st.step \notin {"making", "ready"}
    BY <1>3, <1>6
  <2> QED
    BY <1>1, <1>6, <2>1, <2>4, <2>5, PastUnknown DEF Recorded
<1>7. CASE Step(i, "done") /\ UNCHANGED <<mem, told>>
  <2>1. PICK st : calls' = [calls EXCEPT ![i] = st] /\ st.step \notin {"making", "ready"}
    BY <1>3, <1>7
  <2> QED
    BY <1>1, <1>7, <2>1, PastUnknown
<1>8. CASE /\ calls' = [calls EXCEPT ![i].step = "recording", ![i].made = 0]
           /\ UNCHANGED <<mem, told>>
  <2> DEFINE st == [calls[i] EXCEPT !.step = "recording", !.made = 0]
  <2>1. st.step = "recording" /\ calls' = [calls EXCEPT ![i] = st]
    BY <1>1, <1>8 DEF CallState
  <2> HIDE DEF st
  <2> QED
    BY <1>1, <1>8, <2>1, PastUnknown
<1> QED
  BY <1>5, <1>6, <1>7, <1>8 DEF Confirmed

LEMMA RecordTxUnknown ==
    ASSUME Separate, Disjoint, Inv, SoundInv, Unknown, NEW i \in DOMAIN calls, RecordTx(i)
    PROVE  Unknown'
<1> DEFINE c == Call(i)
           k == calls[i].made + 1
           t == c.txns[k]
           tx == calls[i].tx
           step == IF k = Len(c.txns) THEN "done" ELSE "recording"
           st == [calls[i] EXCEPT !.made = k, !.step = step]
<1>1. /\ calls[i].step = "recording" /\ StillRunning
      /\ calls' = [calls EXCEPT ![i] = st] /\ calls[i] \in CallState /\ IsCall(c) /\ task.net \in Network
      /\ CallOK(c, calls[i], task.net, chain, mem.preceding)
  BY CallIs DEF RecordTx, At, Inv, CallsOK
<1>2. /\ c.op = "group" /\ c.txns \in Seq(Txn) /\ Sends(c) /\ k \in DOMAIN c.txns /\ k \in Nat /\ tx \in Nat
  BY <1>1 DEF CallOK, IsCall, Sends, CallState
<1>3. t \in Txn /\ t.name \in Name
  BY <1>2 DEF Txn
<1>4. st.step \notin {"making", "ready"}
  <2>1. step \in {"done", "recording"}
    OBVIOUS
  <2> HIDE DEF k, step
  <2> QED
    BY <1>1, <2>1 DEF CallState
<1> HIDE DEF st
<1>5. t.type \in {"deploy", "delete"} => t.name \in Makes(c)
  BY <1>2 DEF Makes
<1>6. CASE t.type = "deploy" /\ Recorded(t.name, <<tx, k>>)
  <2>1. [id |-> <<tx, k>>, deleted |-> FALSE] \in Entry
    BY <1>2 DEF Entry, Id
  <2> HIDE DEF t
  <2> QED
    BY <1>1, <1>3, <1>4, <1>5, <1>6, <2>1, PastUnknown DEF Recorded
<1>7. ASSUME t.type = "delete",
             NEW key \in KeysOfIndex(mem, task.net, Def(t.name).id),
             mem' = Register(mem, task.net, key, [Def(key) EXCEPT !.deleted = TRUE])
      PROVE  Unknown'
  <2>1. key = t.name /\ Def(key) \in Entry
    BY <1>1, <1>7, DeletedKey
  <2>2. [Def(key) EXCEPT !.deleted = TRUE] \in Entry
    BY <2>1 DEF Entry
  <2> HIDE DEF t
  <2> QED
    BY <1>1, <1>3, <1>4, <1>5, <1>7, <2>1, <2>2, PastUnknown
<1>8. CASE UNCHANGED mem
  BY <1>1, <1>4, <1>8, PastUnknown
<1> QED
  BY <1>6, <1>7, <1>8 DEF RecordTx

LEMMA CallStepUnknown ==
    ASSUME Separate, Disjoint, Inv, SoundInv, Unknown, NEW i \in DOMAIN calls, CallStep(i)
    PROVE  Unknown'
<1>1. calls[i] \in CallState /\ IsCall(Call(i))
  BY CallIs
<1>2. ASSUME NEW step, Step(i, step)
      PROVE  /\ calls' = [calls EXCEPT ![i] = [calls[i] EXCEPT !.step = step]]
             /\ [calls[i] EXCEPT !.step = step].step = step
  BY <1>1, <1>2 DEF Step, CallState
<1>3. Refuse(i) => Unknown'
  BY ThrowUnknown DEF Refuse
<1>4. ASSUME Call(i).op \in {"update", "fund"}, Step(i, "ready"), Quietly PROVE Unknown'
  <2>1. \A st : Pending(Call(i), st) = {}
    BY <1>1, <1>4 DEF IsCall, Pending, Checked, Sends
  <2> QED
    BY <1>2, <1>4, <2>1, PastUnknown DEF Quietly
<1>5. BeginUpdate(i) \/ BeginFund(i) => Unknown'
  BY <1>4, ThrowUnknown DEF BeginUpdate, BeginFund
<1>6. ASSUME BeginOptIn(i) PROVE Unknown'
  <2> DEFINE id == Def(Call(i).txns[1].name).id
             st == [calls[i] EXCEPT !.step = "ready", !.asset = id]
  <2>1. Call(i).op = "optin"
    BY <1>6 DEF BeginOptIn
  <2>2. CASE OptsIn(i, id) /\ Quietly
    <3>1. calls' = [calls EXCEPT ![i] = st]
      BY <2>2 DEF OptsIn
    <3> HIDE DEF st
    <3>2. Pending(Call(i), st) = {}
      BY <1>1, <2>1 DEF IsCall, Pending, Checked, Sends
    <3> QED
      BY <2>2, <3>1, <3>2, PastUnknown DEF Quietly
  <2> QED
    BY <1>6, <2>1, <2>2, ThrowUnknown, OptInByNumberUnknown DEF BeginOptIn
<1>7. ASSUME SignLsig(i) PROVE Unknown'
  <2>1. Call(i).name \in Name /\ Call(i).name \in Makes(Call(i))
    BY <1>1, <1>7, LsigsAssumption DEF SignLsig, IsCall, Makes
  <2> DEFINE entry == [id |-> <<0, 0>>, deleted |-> FALSE]
             st == [calls[i] EXCEPT !.step = "done"]
  <2>2. entry \in Entry
    BY DEF Entry, Id
  <2>3. mem' = Register(mem, task.net, Call(i).name, entry) /\ StillRunning /\ Step(i, "done")
    BY <1>7 DEF SignLsig
  <2>4. calls' = [calls EXCEPT ![i] = st] /\ st.step = "done"
    BY <1>2, <2>3
  <2> HIDE DEF entry, st
  <2> QED
    BY <2>1, <2>2, <2>3, <2>4, PastUnknown
<1>8. ASSUME Send(i) PROVE Unknown'
  <2> DEFINE st == [calls[i] EXCEPT !.step = "sent", !.tx = Len(chain) + 1]
  <2>1. calls' = [calls EXCEPT ![i] = st] /\ st.step = "sent" /\ UNCHANGED mem /\ StillRunning
    BY <1>1, <1>8 DEF Send, CallState
  <2> HIDE DEF st
  <2> QED
    BY <2>1, PastUnknown
<1>9. ASSUME OptIn(i) PROVE Unknown'
  <2> DEFINE st == [calls[i] EXCEPT !.step = "done"]
  <2>1. calls' = [calls EXCEPT ![i] = st] /\ st.step = "done"
    BY <1>2, <1>9 DEF OptIn
  <2> HIDE DEF st
  <2> QED
    BY <1>9, <2>1, PastUnknown DEF OptIn, Quietly
<1> QED
  BY <1>3, <1>5, <1>6, <1>7, <1>8, <1>9, BeginUnknown, MakeTxUnknown, AddCheckpointKVUnknown,
     ConfirmedUnknown, RecordTxUnknown DEF CallStep

LEMMA FreshUnknown ==
    ASSUME NEW s \in Script, NEW g \in Nat, calls' = Fresh(s, g)
    PROVE  Unknown'
BY FreshIs DEF Unknown

LEMMA AdvanceUnknown ==
    ASSUME NEW repo, NEW newDir, NEW newFiles, Advance(repo, newDir, newFiles)
    PROVE  Unknown'
BY AdvanceIs, LeaveUnknown, NoCalls DEF GoesOn, Unknown

LEMMA UnknownNext == ASSUME Separate, Disjoint, Inv, SoundInv, Unknown, [Next]_vars PROVE Unknown'
<1>1. ASSUME NEW t \in Tasks, StartTask(t) PROVE Unknown'
  <2>1. calls = << >>
    BY <1>1 DEF StartTask, Inv, Located
  <2> QED
    BY <1>1, <2>1, LeaveUnknown, NoCalls DEF StartTask, Unknown
<1>2. CASE NextScript
  <2>1. Head(queue) \in Script
    BY <1>2, TailIn DEF NextScript, Inv, Types
  <2> QED
    BY <1>2, <2>1, NextScriptIs, LeaveUnknown, AdvanceUnknown, FreshUnknown DEF Starts
<1>3. NextStage => Unknown'
  BY FreshUnknown DEF NextStage, StageDone, Inv, Types
<1>4. ScriptReturns => Unknown'
  BY AdvanceUnknown DEF ScriptReturns
<1>5. ASSUME NEW i \in DOMAIN calls, NodeError(i) \/ AnswerLost(i) PROVE Unknown'
  BY <1>5, ThrowUnknown, OptInByNumberUnknown DEF NodeError, AnswerLost, Fails
<1>6. ASSUME NEW n \in DOMAIN chain, NodeConfirms(n) \/ NodeDrops(n) PROVE UNCHANGED <<task, local>>
  BY <1>6 DEF NodeConfirms, NodeDrops
<1>7. UNCHANGED <<task, local>> => Unknown'
  BY DEF Unknown, local, Call
<1>8. Crash => Unknown'
  BY LeaveUnknown DEF Crash
<1>9. UNCHANGED vars => Unknown'
  BY <1>7 DEF vars
<1> QED
  BY <1>1, <1>2, <1>3, <1>4, <1>5, <1>6, <1>7, <1>8, <1>9, CallStepUnknown DEF Next, Progress

LEMMA UnknownAlways == ASSUME Separate, Disjoint PROVE Spec => [](Inv /\ SoundInv /\ Unknown)
<1>1. Init => Inv /\ SoundInv /\ Unknown
  BY InitInv, InitSound, NoCalls DEF Init, Unknown
<1>2. (Inv /\ SoundInv /\ Unknown) /\ [Next]_vars => (Inv /\ SoundInv /\ Unknown)'
  BY InvNext, SoundNext, UnknownNext
<1> QED
  BY <1>1, <1>2, PTL DEF Spec

-----------------------------------------------------------------------------
(* The files and the chain are a registry *)

Book == [s \in Script |-> [net \in Network |-> [n \in Name \ Lsigs |->
            RecordOf(Lookup(files[s], net, n))]]]
Sent == [n \in DOMAIN chain |-> [net |-> chain[n].net, status |-> chain[n].status,
                                 names |-> DeployedNames(chain[n].txns)]]

\* A name is recorded when the file has it.
LEMMA RecordedIs ==
    ASSUME NEW fs \in [Script -> Checkpoints], NEW s \in Script, NEW net \in Network, NEW n \in Name
    PROVE  RecordOf(Lookup(fs[s], net, n)) = Absent <=> Lookup(fs[s], net, n) = Absent
<1>1. Lookup(fs[s], net, n) \in Entry \cup {Absent}
  BY LookupType
<1> QED
  BY <1>1, AbsentAssumption DEF RecordOf, Entry

LEMMA AppendTakes ==
    ASSUME NEW S, NEW old \in Seq(S), NEW x \in S
    PROVE  LET new == Append(old, x)
           IN  Len(new) = Len(old) + 1 /\ SubSeq(new, 1, Len(old)) = old /\ new[Len(new)] = x
<1> DEFINE new == Append(old, x)
<1>1. new \in Seq(S) /\ Len(new) = Len(old) + 1 /\ \A n \in 1..Len(old) : new[n] = old[n]
  OBVIOUS
<1>2. SubSeq(new, 1, Len(old)) = old
  OBVIOUS
<1> QED
  BY <1>1, <1>2

\* What a node takes is in no file.
LEMMA SendTakes ==
    ASSUME Inv, SoundInv, Unknown, NEW i \in DOMAIN calls, calls[i].step = "ready", Sends(Call(i)),
           chain' = Accepted(i)
    PROVE  Deployed!Take
<1> DEFINE batch == [net |-> task.net, status |-> "pending", names |-> DeployedNames(Call(i).txns)]
<1>1. chain \in Seq(Batch) /\ files \in [Script -> Checkpoints] /\ task # NoTask /\ task.net \in Network
  BY CallIs, NothingAssumption DEF Inv, Types
<1>2. chain' \in Seq(Batch) /\ Len(chain') = Len(chain) + 1
      /\ \A n \in DOMAIN chain : chain'[n] = chain[n]
  BY AcceptedIs
<1>3. Sent' = Append(Sent, batch)
  <2>1. Sent'[Len(chain')] = batch
    BY <1>1, <1>2, AcceptedIs DEF Sent
  <2>2. \A n \in DOMAIN chain : Sent'[n] = Sent[n]
    BY <1>1, <1>2 DEF Sent
  <2>3. DOMAIN Sent' = 1..(Len(chain) + 1) /\ DOMAIN Sent = 1..Len(chain)
    BY <1>1, <1>2 DEF Sent
  <2> QED
    BY <1>1, <1>2, <2>1, <2>2, <2>3 DEF Sent
<1>4. ASSUME NEW k \in DOMAIN batch.names, NEW s \in Script, batch.names[k] # Absent
      PROVE  Book[s][batch.net][batch.names[k]] = Absent
  <2> DEFINE n == Call(i).txns[k].name
  <2>1. k \in DOMAIN Call(i).txns /\ Call(i).txns[k].type = "deploy" /\ batch.names[k] = n
    BY <1>4 DEF DeployedNames
  <2>2. IsCall(Call(i))
    BY CallIs
  <2>3. n \in Name \ Lsigs
    <3>1. Call(i).txns[k] \in Txn
      BY <2>1, <2>2 DEF IsCall
    <3> QED
      BY <3>1 DEF Txn
  <2>4. n \in Pending(Call(i), calls[i])
    BY <2>1 DEF Pending, Checked, Midway, Sends
  <2>5. Lookup(mem.all, task.net, n) = Absent
    BY <2>4 DEF Unknown
  <2>6. Lookup(files[s], task.net, n) = Absent
    BY <1>1, <2>3, <2>5 DEF SoundInv, MemReads, Reads
  <2> QED
    BY <1>1, <2>1, <2>3, <2>6, RecordedIs DEF Book
<1>5. Len(Sent') = Len(Sent) + 1 /\ SubSeq(Sent', 1, Len(Sent)) = Sent /\ Sent'[Len(Sent')] = batch
  <2> HIDE DEF batch
  <2> DEFINE Sort == {Sent[n] : n \in DOMAIN Sent} \cup {batch}
  <2>1. DOMAIN Sent = 1..Len(chain) /\ Len(chain) \in Nat
    BY <1>1 DEF Sent
  <2>2. Sent \in Seq(Sort) /\ batch \in Sort
    BY <2>1 DEF Sent
  <2> HIDE DEF Sort
  <2> QED
    BY <1>3, <2>2, AppendTakes
<1>6. batch.status = "pending"
  OBVIOUS
<1> HIDE DEF batch
<1>7. LET new == Sent'[Len(Sent')]
      IN  /\ new.status = "pending"
          /\ \A k \in DOMAIN new.names, s \in Script :
                 new.names[k] # Absent => ~(Book[s][new.net][new.names[k]] # Absent)
  BY <1>4, <1>5, <1>6
<1>8. Len(Sent') = Len(Sent) + 1 /\ SubSeq(Sent', 1, Len(Sent)) = Sent
  BY <1>5
<1> QED
  BY <1>7, <1>8 DEF Deployed!Take, Deployed!Recorded, Book, Sent


\* What a node settles was pending.
LEMMA NodeSettles ==
    ASSUME Inv, NEW n \in DOMAIN chain, chain[n].status = "pending",
           NEW status \in {"confirmed", "dropped"}, chain' = [chain EXCEPT ![n] = [chain[n] EXCEPT !.status = status]]
    PROVE  \E b \in DOMAIN Sent : Deployed!Settle(b)
<1> DEFINE b == [chain[n] EXCEPT !.status = status]
<1>1. chain \in Seq(Batch) /\ chain[n] \in Batch
  BY DEF Inv, Types
<1>2. b.status = status /\ b.net = chain[n].net /\ b.txns = chain[n].txns
  BY <1>1 DEF Batch
<1>3. DOMAIN chain' = DOMAIN chain /\ chain'[n] = b /\ \A m \in DOMAIN chain \ {n} : chain'[m] = chain[m]
  BY <1>1
<1> HIDE DEF b
<1>4. Sent' = [Sent EXCEPT ![n].status = status]
  BY <1>2, <1>3 DEF Sent
<1>5. n \in DOMAIN Sent /\ Sent[n].status = "pending"
  BY DEF Sent
<1>6. \E s \in {"confirmed", "dropped"} : Sent' = [Sent EXCEPT ![n].status = s]
  BY <1>4
<1> QED
  BY <1>5, <1>6 DEF Deployed!Settle, Sent

LEMMA NodesImplement ==
    ASSUME Inv, SoundInv, Unknown, [Next]_vars
    PROVE  [Deployed!NodeNext]_Sent
<1>1. CASE chain' = chain
  BY <1>1 DEF Sent
<1>2. CASE chain' # chain
  BY <1>2, ChainStep, SendTakes, NodeSettles DEF Deployed!NodeNext, Sent
<1> QED
  BY <1>1, <1>2

\* What a script persists has been deployed, under a name that no other file has.
LEMMA PersistWrites ==
    ASSUME Inv, SoundInv, Persisted
    PROVE  Deployed!Write(script, task.net)
<1>1. /\ files \in [Script -> Checkpoints] /\ script \in Script /\ mem \in Repo
      /\ task.net \in Network /\ files' \in [Script -> Checkpoints]
      /\ files'[script] = mem.stripped /\ mem.stripped \in Checkpoints
      /\ \A r \in Script \ {script} : files'[r] = files[r]
      /\ \A net \in Network \ {task.net} : files'[script][net] = files[script][net]
  <2>1. task \in Tasks
    BY NothingAssumption DEF Inv, Types, Located, Persisted
  <2>2. task.net \in Network
    BY <2>1, TasksAssumption DEF IsTask
  <2>3. mem.stripped \in Checkpoints
    BY DEF Inv, Types, Repo
  <2> QED
    BY <2>2, <2>3 DEF Inv, Types, OwnPart, Persisted
<1>2. ASSUME NEW r \in Script, NEW m \in Network, <<r, m>> # <<script, task.net>>
      PROVE  Book'[r][m] = Book[r][m]
  <2>1. files'[r][m] = files[r][m]
    BY <1>1, <1>2
  <2> QED
    BY <2>1 DEF Book, Lookup
<1>3. ASSUME NEW n \in Name \ Lsigs
      PROVE  \/ Book'[script][task.net][n] = Book[script][task.net][n]
             \/ /\ Deployed!IsDeployed(task.net, Book'[script][task.net][n])
                /\ \A r \in Script \ {script} : ~(Book[r][task.net][n] # Absent)
  <2> DEFINE entry == Lookup(mem.stripped, task.net, n)
  <2>1. Book'[script][task.net][n] = RecordOf(entry)
    BY <1>1 DEF Book
  <2>2. CASE entry = Absent
    <3>1. Lookup(files[script], task.net, n) = Absent
      BY <2>2 DEF Inv, OwnPart, Persisted
    <3> QED
      BY <1>1, <2>1, <2>2, <3>1 DEF Book
  <2>3. CASE entry # Absent
    <3>1. Truthful(chain, task.net, n, entry) /\ OnlyIn(script, n)
      BY <1>1, <2>3 DEF SoundInv, OwnSound, Sound, Persisted
    <3>2. \A r \in Script \ {script} : Lookup(files[r], task.net, n) = Absent
      BY <1>1, <3>1 DEF OnlyIn, Names
    <3>3. \A r \in Script \ {script} : ~(Book[r][task.net][n] # Absent)
      BY <1>1, <3>2 DEF Book, RecordOf
    <3>4. Deployed!IsDeployed(task.net, entry.id)
      <4> DEFINE t == entry.id[1]
                 k == entry.id[2]
      <4>1. /\ t \in DOMAIN chain /\ chain[t].net = task.net /\ chain[t].status = "confirmed"
            /\ k \in DOMAIN chain[t].txns /\ chain[t].txns[k].type = "deploy"
        BY <3>1 DEF Truthful
      <4>2. chain[t].txns[k].name # Absent
        <5>1. chain[t] \in Batch
          BY <4>1 DEF Inv, Types
        <5>2. chain[t].txns[k] \in Txn
          BY <4>1, <5>1 DEF Batch
        <5> QED
          BY <5>2, AbsentAssumption DEF Txn
      <4>3. entry.id # Absent
        BY <1>1, <2>3, LookupType, AbsentAssumption DEF Entry
      <4>4. DeployedNames(chain[t].txns)[k] # Absent
        BY <4>1, <4>2 DEF DeployedNames
      <4>5. t \in DOMAIN Sent /\ Sent[t].net = task.net /\ Sent[t].status = "confirmed" /\ Sent[t].names[k] # Absent
        BY <4>1, <4>4 DEF Sent
      <4> HIDE DEF entry
      <4> QED
        BY <4>3, <4>5 DEF Deployed!IsDeployed, Sent
    <3> QED
      BY <2>1, <2>3, <3>3, <3>4 DEF RecordOf
  <2> QED
    BY <2>2, <2>3
<1> QED
  BY <1>2, <1>3 DEF Deployed!Write, Deployed!Recorded, Book

\* A task with --force empties the files of its scripts.
LEMMA StartForgets ==
    ASSUME Inv, NEW t \in Tasks, StartTask(t)
    PROVE  Deployed!Forget
<1>1. \A s \in Script : files'[s] \in {files[s], EmptyCheckpoints}
  BY DEF StartTask
<1>2. ASSUME NEW s \in Script
      PROVE  Book'[s] = Book[s] \/ \A net \in Network, n \in Name \ Lsigs : Book'[s][net][n] = Absent
  <2>1. CASE files'[s] = files[s]
    BY <2>1 DEF Book
  <2>2. CASE files'[s] = EmptyCheckpoints
    BY <2>2, EmptyLooks DEF Book, RecordOf
  <2> QED
    BY <1>1, <2>1, <2>2
<1> QED
  BY <1>2 DEF Deployed!Forget, Book

LEMMA FilesImplement ==
    ASSUME Inv, SoundInv, [Next]_vars
    PROVE  [Deployed!BookNext]_Book
<1>1. CASE files' = files
  BY <1>1 DEF Book
<1>2. ASSUME NEW t \in Tasks, StartTask(t) PROVE Deployed!BookNext
  BY <1>2, StartForgets DEF Deployed!BookNext
<1>3. CASE Persisted
  <2>1. script \in Script /\ task.net \in Network
    <3>1. task \in Tasks
      BY <1>3, NothingAssumption DEF Inv, Types, Located, Persisted
    <3> QED
      BY <1>3, <3>1, TasksAssumption DEF Inv, Types, Persisted, IsTask
  <2> QED
    BY <1>3, <2>1, PersistWrites DEF Deployed!BookNext
<1>4. CASE task = NoTask
  <2>1. queue = << >> /\ script = NoScript /\ calls = << >>
    BY <1>4 DEF Inv, Located
  <2>2. ~Progress
    BY <2>1 DEF Progress, NextScript, NextStage, ScriptReturns, StageDone
  <2>3. ASSUME NEW n \in DOMAIN chain, NodeConfirms(n) \/ NodeDrops(n) PROVE files' = files
    BY <2>3 DEF NodeConfirms, NodeDrops
  <2>4. Crash \/ UNCHANGED vars => files' = files
    BY DEF Crash, vars
  <2> QED
    BY <1>1, <1>2, <2>1, <2>2, <2>3, <2>4 DEF Next
<1> QED
  BY <1>1, <1>3, <1>4, FilesStep

\* The files and the chain together are a registry: whatever the interleaving and the faults, a
\* file names only assets and applications that are on the chain of its network, forgets none of
\* them but by --force, and what a file has is never deployed again (deployer.ts:432-440,
\* 487-497, tx.ts:165-174, script-checkpoints.ts:204-271).
THEOREM RegistryImplemented == ASSUME Separate, Disjoint PROVE Spec => ImplementsRegistry
<1>1. Init => Deployed!Init
  <2> SUFFICES ASSUME Init PROVE Deployed!Init
    OBVIOUS
  <2>1. Book = [s \in Script |-> [net \in Network |-> [n \in Name \ Lsigs |-> Absent]]]
    BY EmptyLooks DEF Init, Book, RecordOf
  <2>2. Sent = << >>
    BY DEF Init, Sent
  <2> QED
    BY <2>1, <2>2 DEF Deployed!Init, Book, Sent
<1>2. (Inv /\ SoundInv /\ Unknown) /\ [Next]_vars => [Deployed!NodeNext]_Sent
  BY NodesImplement
<1>3. (Inv /\ SoundInv /\ Unknown) /\ [Next]_vars => [Deployed!BookNext]_Book
  BY FilesImplement
<1> QED
  BY <1>1, <1>2, <1>3, UnknownAlways, PTL DEF Spec, ImplementsRegistry, Deployed!Spec, Sent, Book

-----------------------------------------------------------------------------
(* Scripts see no later script *)

\* A sorted part of the queue follows the directory.
InOrder ==
    /\ script # NoScript => dir = {d \in Direct : d > script}
    /\ \A j, k \in DOMAIN queue : queue[j] = queue[k] => j = k
    /\ script = NoScript /\ queue # << >> =>
           dir = Direct \/ \E s \in Script : dir = {d \in Direct : d > s} /\ Head(queue) > s
\* What scripts can read is their own or in a file that has been loaded.
SeesLoaded ==
    task # NoTask =>
        \A n \in Name : Lookup(mem.preceding, task.net, n) # Absent =>
            \/ script # NoScript /\ Lookup(mem.stripped, task.net, n) # Absent
            \/ \E s \in Script \ dir : Lookup(files[s], task.net, n) # Absent

LEMMA LeaveSees == ASSUME NEW t, NEW outcome, LeaveTask(t, outcome) PROVE (InOrder /\ SeesLoaded)'
BY NoCalls DEF LeaveTask, InOrder, SeesLoaded

LEMMA SplitOrder ==
    ASSUME NestedLast, Inv, InOrder, script = NoScript, queue # << >>
    PROVE  dir \ SplitAfter(Head(queue)) = {d \in Direct : d > Head(queue)}
<1> DEFINE s == Head(queue)
<1>1. s \in Script /\ Direct \subseteq Script /\ Script \subseteq Nat /\ s \in Nat
  BY TailIn, BodyAssumption, ScriptAssumption DEF Inv, Types
<1>2. PICK from \in Script \cup {s} : dir = Direct \/ (dir = {d \in Direct : d > from} /\ s > from)
  BY DEF InOrder
<1>3. from \in Nat
  BY <1>1, <1>2
<1> HIDE DEF s
<1>4. ASSUME s \in dir PROVE dir \ SplitAfter(s) = {d \in Direct : d > s}
  <2>1. \A d \in Direct : d \in Nat
    BY <1>1
  <2>2. SplitAfter(s) = {d \in dir : d <= s}
    BY <1>4 DEF SplitAfter
  <2>3. \A d \in Direct : d \in dir \ SplitAfter(s) <=> d > s
    BY <1>1, <1>2, <1>3, <2>1, <2>2
  <2> QED
    BY <1>2, <2>3
<1>5. ASSUME s \notin dir PROVE dir \ SplitAfter(s) = {d \in Direct : d > s}
  <2>1. s \notin Direct
    BY <1>2, <1>5
  <2>2. \A d \in Direct : ~(d > s)
    <3>1. \A d \in Direct : d < s /\ d \in Nat
      BY <1>1, <2>1 DEF NestedLast
    <3> QED
      BY <1>1, <3>1
  <2> QED
    BY <1>5, <2>2 DEF SplitAfter
<1> QED
  BY <1>4, <1>5 DEF s

\* What the task goes on with after the script s.
LEMMA AdvanceOrder ==
    ASSUME Inv, InOrder, queue # << >>, NEW repo, NEW newDir, NEW newFiles, Advance(repo, newDir, newFiles),
           newDir = {d \in Direct : d > Head(queue)}
    PROVE  InOrder'
<1>1. queue \in Seq(Script) /\ Script \subseteq Nat
  BY ScriptAssumption DEF Inv, Types
<1>2. ASSUME NEW r, NEW d, Tail(queue) # << >>, GoesOn(r, d)
      PROVE  \A j, k \in DOMAIN queue' : queue'[j] = queue'[k] => j = k
  <2>1. queue' = Tail(queue)
    BY <1>2 DEF GoesOn
  <2>2. \A k \in DOMAIN Tail(queue) : k + 1 \in DOMAIN queue /\ Tail(queue)[k] = queue[k + 1] /\ k \in Nat
    BY <1>1
  <2> SUFFICES ASSUME NEW j \in DOMAIN Tail(queue), NEW k \in DOMAIN Tail(queue), Tail(queue)[j] = Tail(queue)[k]
               PROVE  j = k
    BY <2>1
  <2>3. j + 1 = k + 1
    BY <2>2 DEF InOrder
  <2> QED
    BY <2>2, <2>3
<1>3. ASSUME Tail(queue) # << >>, Head(Tail(queue)) >= Head(queue), GoesOn(repo, newDir) PROVE InOrder'
  <2>1. queue' = Tail(queue) /\ dir' = newDir /\ script' = NoScript
    BY <1>3 DEF GoesOn
  <2>2. /\ Head(queue) \in Nat /\ Head(Tail(queue)) \in Nat /\ Head(queue) \in Script
        /\ Head(Tail(queue)) # Head(queue)
    <3>1. /\ Head(queue) \in Script /\ Head(queue) = queue[1] /\ 1 \in DOMAIN queue
          /\ 2 \in DOMAIN queue /\ Head(Tail(queue)) = queue[2]
      BY <1>1, <1>3, TailIn
    <3>2. Head(Tail(queue)) \in Script
      BY <1>1, <3>1
    <3>3. queue[1] # queue[2]
      BY <3>1 DEF InOrder
    <3> QED
      BY <1>1, <3>1, <3>2, <3>3
  <2>3. Head(queue') > Head(queue)
    BY <1>3, <2>1, <2>2
  <2> QED
    BY <1>2, <1>3, <2>1, <2>2, <2>3 DEF InOrder
<1>4. ASSUME NEW r, Tail(queue) # << >>, GoesOn(r, Direct) PROVE InOrder'
  BY <1>2, <1>4 DEF InOrder, GoesOn
<1> QED
  BY <1>3, <1>4, AdvanceIs, LeaveSees

LEMMA StillOrder ==
    ASSUME InOrder, UNCHANGED <<queue, dir, script>>
    PROVE  InOrder'
BY DEF InOrder

\* A step of a call: what scripts can read more of is the running script's own.
MemSeen ==
    /\ \A n \in Name : Lookup(mem'.preceding, task.net, n) # Absent =>
           \/ Lookup(mem.preceding, task.net, n) # Absent
           \/ Lookup(mem'.stripped, task.net, n) # Absent
    /\ \A n \in Name : Lookup(mem.stripped, task.net, n) # Absent =>
           Lookup(mem'.stripped, task.net, n) # Absent

LEMMA RegisterSees ==
    ASSUME Inv, task.net \in Network, NEW n \in Name, NEW entry \in Entry, mem' = Register(mem, task.net, n, entry)
    PROVE  MemSeen
<1>1. mem \in Repo /\ entry # Absent
  BY AbsentAssumption DEF Inv, Types
<1>2. WithEntry(mem.stripped, mem'.stripped, task.net, n, entry) /\ WithEntry(mem.preceding, mem'.preceding, task.net, n, entry)
  BY <1>1, RegisterLooks
<1>3. ASSUME NEW x \in Name, x # n
      PROVE  /\ Lookup(mem'.preceding, task.net, x) = Lookup(mem.preceding, task.net, x)
             /\ Lookup(mem'.stripped, task.net, x) = Lookup(mem.stripped, task.net, x)
  <2>1. <<task.net, x>> # <<task.net, n>>
    BY <1>3
  <2> QED
    BY <1>2, <2>1 DEF WithEntry
<1>4. Lookup(mem'.stripped, task.net, n) # Absent
  BY <1>1, <1>2 DEF WithEntry
<1> QED
  BY <1>3, <1>4 DEF MemSeen

LEMMA ConfirmedSees == ASSUME Inv, NEW i \in DOMAIN calls, Confirmed(i) PROVE MemSeen
<1> DEFINE c == Call(i)
           tx == calls[i].tx
<1>1. /\ calls[i].step = "sent" /\ calls[i] \in CallState /\ IsCall(c)
      /\ task.net \in Network /\ CallOK(c, calls[i], task.net, chain, mem.preceding)
  BY CallIs DEF Confirmed, At, Inv, CallsOK
<1>2. Sends(c) /\ tx \in Nat /\ c.txns \in Seq(Txn)
  BY <1>1 DEF CallOK, CallState, IsCall
<1>3. ASSUME c.op \in {"deploy", "update"}
      PROVE  1 \in DOMAIN c.txns /\ c.txns[1] \in Txn /\ c.txns[1].type = c.op /\ c.txns[1].name \in Name
  <2>1. Len(c.txns) = 1 /\ c.txns[1].type = c.op
    BY <1>1, <1>3 DEF IsCall
  <2>2. c.txns[1] \in Txn
    BY <1>2, <2>1
  <2> QED
    BY <1>2, <2>1, <2>2 DEF Txn
<1>4. CASE c.op = "deploy" /\ Recorded(c.txns[1].name, <<tx, 1>>)
  <2>1. [id |-> <<tx, 1>>, deleted |-> FALSE] \in Entry
    BY <1>2 DEF Entry, Id
  <2> QED
    BY <1>1, <1>3, <1>4, <2>1, RegisterSees DEF Recorded
<1>5. CASE c.op = "update" /\ Recorded(c.txns[1].newName, Def(c.txns[1].name).id)
  <2> DEFINE name == c.txns[1].name
             new == c.txns[1].newName
  <2>1. new \in Name /\ name \in Name
    <3>1. c.txns[1] \in Txn /\ c.txns[1].type = "update"
      BY <1>3, <1>5
    <3> QED
      BY <1>3, <1>5, <3>1 DEF Txn
  <2>2. Def(name) # Absent
    <3>1. 1 \in Checked(c, calls[i])
      BY <1>1, <1>2, <1>3, <1>5 DEF Checked, Midway
    <3>2. name \in Uses(c, calls[i])
      BY <1>3, <1>5, <3>1 DEF Uses
    <3> QED
      BY <1>1, <3>2 DEF CallOK, Def
  <2>3. Def(name).id \in Id
    BY <1>1, <2>1, <2>2, LookupType DEF Def, Inv, Types, Repo, Entry
  <2>4. [id |-> Def(name).id, deleted |-> FALSE] \in Entry
    BY <2>3 DEF Entry
  <2> QED
    BY <1>1, <1>5, <2>1, <2>4, RegisterSees DEF Recorded
<1>6. CASE UNCHANGED mem
  BY <1>6 DEF MemSeen
<1> QED
  BY <1>4, <1>5, <1>6 DEF Confirmed

LEMMA RecordTxSees == ASSUME Inv, NEW i \in DOMAIN calls, RecordTx(i) PROVE MemSeen
<1> DEFINE c == Call(i)
           k == calls[i].made + 1
           t == c.txns[k]
<1>1. /\ calls[i].step = "recording" /\ calls[i] \in CallState /\ IsCall(c)
      /\ task.net \in Network /\ CallOK(c, calls[i], task.net, chain, mem.preceding)
  BY CallIs DEF RecordTx, At, Inv, CallsOK
<1>2. c.txns \in Seq(Txn) /\ k \in DOMAIN c.txns /\ calls[i].tx \in Nat /\ k \in Nat
  BY <1>1 DEF CallOK, IsCall, Sends, CallState
<1>3. t.name \in Name
  <2>1. t \in Txn
    BY <1>2
  <2> QED
    BY <2>1 DEF Txn
<1>4. CASE Recorded(t.name, <<calls[i].tx, k>>)
  <2>1. [id |-> <<calls[i].tx, k>>, deleted |-> FALSE] \in Entry
    BY <1>2 DEF Entry, Id
  <2> HIDE DEF t, k
  <2> QED
    BY <1>1, <1>3, <1>4, <2>1, RegisterSees DEF Recorded
<1>5. ASSUME NEW key \in KeysOfIndex(mem, task.net, Def(t.name).id),
             mem' = Register(mem, task.net, key, [Def(key) EXCEPT !.deleted = TRUE])
      PROVE  MemSeen
  <2>1. key \in Name /\ Def(key) # Absent
    BY <1>5 DEF KeysOfIndex, Def
  <2>2. Def(key) \in Entry
    BY <1>1, <2>1, LookupType DEF Def, Inv, Types, Repo
  <2>3. [Def(key) EXCEPT !.deleted = TRUE] \in Entry
    BY <2>2 DEF Entry
  <2> QED
    BY <1>1, <1>5, <2>1, <2>3, RegisterSees
<1>6. CASE UNCHANGED mem
  BY <1>6 DEF MemSeen
<1> QED
  BY <1>4, <1>5, <1>6 DEF RecordTx

LEMMA CallSees ==
    ASSUME Inv, NEW i \in DOMAIN calls, CallStep(i) \/ NodeError(i) \/ AnswerLost(i)
    PROVE  LeaveTask(task, "failed") \/ (StillRunning /\ MemSeen)
<1> DEFINE Goal == LeaveTask(task, "failed") \/ (StillRunning /\ MemSeen)
<1>1. UNCHANGED mem => MemSeen
  BY DEF MemSeen
<1>2. IsCall(Call(i)) /\ task.net \in Network /\ mem \in Repo
  BY CallIs DEF Inv, Types
<1>3. \A persists : Throw(i, persists) => Goal
  BY <1>1 DEF Throw
<1>4. \A failed : OptInByNumber(i, failed) => Goal
  BY <1>1, <1>3 DEF OptInByNumber
<1>5. Quietly => Goal
  BY <1>1 DEF Quietly
<1> HIDE DEF Goal
<1>6. Refuse(i) \/ Begin(i) \/ BeginUpdate(i) \/ BeginFund(i) \/ OptIn(i) \/ MakeTx(i) => Goal
  BY <1>3, <1>5 DEF Refuse, Begin, BeginUpdate, BeginFund, OptIn, MakeTx
<1>7. BeginOptIn(i) => Goal
  BY <1>3, <1>4, <1>5 DEF BeginOptIn
<1>8. ASSUME AddCheckpointKV(i) PROVE Goal
  <2>1. CASE \E persists : Throw(i, persists)
    BY <1>3, <2>1
  <2>2. CASE StillRunning /\ UNCHANGED mem
    BY <1>1, <2>2 DEF Goal
  <2>3. CASE StillRunning /\ mem' = PutMetadata(mem, task.net, Call(i).key, Call(i).value)
    <3>1. Call(i).key \in Key /\ Call(i).value \in Value
      BY <1>2, <1>8 DEF IsCall, AddCheckpointKV
    <3>2. /\ WithSameEntries(mem.stripped, mem'.stripped, task.net)
          /\ WithSameEntries(mem.preceding, mem'.preceding, task.net)
      BY <1>2, <2>3, <3>1, PutMetadataLooks
    <3>3. MemSeen
      BY <1>2, <3>2 DEF MemSeen, WithSameEntries
    <3> QED
      BY <2>3, <3>3 DEF Goal
  <2> QED
    BY <1>8, <2>1, <2>2, <2>3 DEF AddCheckpointKV
<1>9. ASSUME SignLsig(i) PROVE Goal
  <2>1. Call(i).name \in Name
    BY <1>2, <1>9, LsigsAssumption DEF SignLsig, IsCall
  <2>2. [id |-> <<0, 0>>, deleted |-> FALSE] \in Entry
    BY DEF Entry, Id
  <2> QED
    BY <1>2, <1>9, <2>1, <2>2, RegisterSees DEF SignLsig, Goal
<1>10. Confirmed(i) \/ RecordTx(i) => Goal
  BY ConfirmedSees, RecordTxSees DEF Goal, Confirmed, RecordTx
<1>11. Send(i) => Goal
  BY <1>1 DEF Send, Goal
<1>12. NodeError(i) \/ AnswerLost(i) => Goal
  BY <1>3, <1>4 DEF NodeError, AnswerLost, Fails
<1> QED
  BY <1>6, <1>7, <1>8, <1>9, <1>10, <1>11, <1>12 DEF CallStep, Goal

\* Files keep what has been loaded.
LEMMA KeptFiles ==
    ASSUME Inv, InOrder, task # NoTask, files' = files \/ Persisted, NEW n \in Name
    PROVE  /\ (\E s \in Script \ dir : Lookup(files[s], task.net, n) # Absent) =>
                  \E s \in Script \ dir : Lookup(files'[s], task.net, n) # Absent
           /\ script # NoScript /\ files' = [files EXCEPT ![script] = mem.stripped]
                  /\ Lookup(mem.stripped, task.net, n) # Absent =>
                  \E s \in Script \ dir : Lookup(files'[s], task.net, n) # Absent
<1>1. files \in [Script -> Checkpoints] /\ script \in Script \cup {NoScript} /\ Script \subseteq Nat
  BY ScriptAssumption DEF Inv, Types
<1>2. script # NoScript => script \in Script \ dir
  <2>1. script # NoScript => script \in Nat
    BY <1>1
  <2> QED
    BY <1>1, <2>1 DEF InOrder
<1>3. ASSUME Persisted, NEW s \in Script \ dir, Lookup(files[s], task.net, n) # Absent
      PROVE  Lookup(files'[s], task.net, n) # Absent
  <2>1. CASE s = script
    BY <1>1, <1>3, <2>1 DEF Inv, OwnPart, Persisted
  <2>2. CASE s # script
    BY <1>1, <1>3, <2>2 DEF Persisted
  <2> QED
    BY <2>1, <2>2
<1> QED
  BY <1>1, <1>2, <1>3

LEMMA OrderNext ==
    ASSUME NestedLast, Inv, InOrder, SeesLoaded, [Next]_vars
    PROVE  (InOrder /\ SeesLoaded)'
<1>1. ASSUME NEW t \in Tasks, StartTask(t) PROVE (InOrder /\ SeesLoaded)'
  <2>1. CASE ~Loadable(files')
    BY <1>1, <2>1, LeaveSees DEF StartTask
  <2>2. CASE Loadable(files')
    <3>1. /\ task' = t /\ queue' = t.list /\ dir' = Direct /\ script' = NoScript
          /\ mem' = LoadCheckpointsRecursive(files')
      BY <1>1, <2>2 DEF StartTask, Inv, Located
    <3>2. IsTask(t)
      BY TasksAssumption
    <3>3. InOrder'
      BY <3>1, <3>2 DEF InOrder, IsTask
    <3>4. \A n \in Name : Lookup(mem'.preceding, t.net, n) = Absent
      <4>1. files' \in [Script -> Checkpoints] /\ t.net \in Network
        BY <1>1, <3>2, EmptyLooks DEF StartTask, Inv, Types, IsTask
      <4> QED
        BY <3>1, <4>1, LoadType, EmptyLooks
    <3> QED
      BY <3>1, <3>3, <3>4 DEF SeesLoaded
  <2> QED
    BY <2>1, <2>2
<1>2. ASSUME NextScript PROVE (InOrder /\ SeesLoaded)'
  <2> DEFINE s == Head(queue)
             left == dir \ SplitAfter(s)
  <2>1. /\ queue # << >> /\ script = NoScript /\ UNCHANGED <<files, chain>> /\ s \in Script
        /\ task # NoTask /\ task.net \in Network /\ dir \subseteq Script
    <3>1. queue # << >> /\ script = NoScript /\ UNCHANGED <<files, chain>> /\ s \in Script
      BY <1>2, NextScriptIs, TailIn DEF Inv, Types
    <3>2. task \in Tasks /\ task # NoTask
      BY <3>1 DEF Inv, Types, Located
    <3> QED
      BY <3>1, <3>2, TasksAssumption, BodyAssumption DEF IsTask, Inv, Types
  <2>2. left = {d \in Direct : d > s}
    BY <2>1, SplitOrder
  <2>3. ASSUME NEW n \in Name, Lookup(RepoFor(s).preceding, task.net, n) # Absent
        PROVE  \E t \in Script \ left : Lookup(files[t], task.net, n) # Absent
    <3>1. CASE Lookup(mem.preceding, task.net, n) # Absent
      BY <2>1, <3>1 DEF SeesLoaded
    <3>2. ASSUME NEW t \in SplitAfter(s) \cup {s}, Lookup(files[t], task.net, n) # Absent
          PROVE  t \in Script \ left
      <4>1. SplitAfter(s) \subseteq dir
        BY DEF SplitAfter
      <4>2. s \in dir => s \in SplitAfter(s)
        <5> HIDE DEF s
        <5>1. s \in Nat
          BY <2>1, ScriptAssumption
        <5> QED
          BY <5>1 DEF SplitAfter
      <4> QED
        BY <2>1, <4>1, <4>2
    <3>3. \/ Lookup(RepoFor(s).preceding, task.net, n) = Lookup(mem.preceding, task.net, n)
          \/ \E t \in SplitAfter(s) \cup {s} : Lookup(RepoFor(s).preceding, task.net, n) = Lookup(files[t], task.net, n)
      BY <2>1, RepoForLooks DEF Inv
    <3> QED
      BY <2>3, <3>1, <3>2, <3>3
  <2>4. ASSUME Advance(RepoFor(s), left, files) PROVE (InOrder /\ SeesLoaded)'
    <3>1. InOrder'
      BY <2>1, <2>2, <2>4, AdvanceOrder
    <3>2. ASSUME GoesOn(RepoFor(s), left) PROVE SeesLoaded'
      BY <2>1, <2>3, <3>2 DEF GoesOn, SeesLoaded
    <3>3. ASSUME GoesOn(LoadCheckpointsRecursive(files), Direct) PROVE SeesLoaded'
      BY <2>1, <3>3, LoadType, EmptyLooks DEF GoesOn, SeesLoaded, Inv, Types
    <3> QED
      BY <2>4, <3>1, <3>2, <3>3, AdvanceIs, LeaveSees
  <2>5. ASSUME Starts(s) PROVE (InOrder /\ SeesLoaded)'
    <3>1. /\ script' = s /\ dir' = left /\ mem' = RepoFor(s) /\ s # NoScript
          /\ UNCHANGED <<task, queue>>
      BY <2>1, <2>5, NothingAssumption DEF Starts
    <3>2. InOrder'
      BY <2>2, <3>1 DEF InOrder
    <3> QED
      BY <2>1, <2>3, <3>1, <3>2 DEF SeesLoaded
  <2> QED
    BY <1>2, <2>4, <2>5, NextScriptIs, LeaveSees
<1>3. ASSUME NextStage PROVE (InOrder /\ SeesLoaded)'
  BY <1>3 DEF NextStage, InOrder, SeesLoaded
<1>4. ASSUME ScriptReturns PROVE (InOrder /\ SeesLoaded)'
  <2>1. /\ script # NoScript /\ queue # << >> /\ script = Head(queue) /\ dir = {d \in Direct : d > Head(queue)}
        /\ task # NoTask /\ Advance(mem, dir, files')
    BY <1>4 DEF ScriptReturns, StageDone, Inv, Located, InOrder
  <2>2. InOrder'
    BY <2>1, AdvanceOrder
  <2>3. ASSUME NEW n \in Name, Lookup(mem.preceding, task.net, n) # Absent
        PROVE  \E s \in Script \ dir : Lookup(files'[s], task.net, n) # Absent
    <3>1. files' = files \/ Persisted
      BY <1>4, <2>1 DEF ScriptReturns, Persisted
    <3>2. CASE \E s \in Script \ dir : Lookup(files[s], task.net, n) # Absent
      BY <2>1, <3>1, <3>2, KeptFiles
    <3>3. CASE Lookup(mem.stripped, task.net, n) # Absent
      <4>1. files' = [files EXCEPT ![script] = mem.stripped]
        BY <1>4, <2>1 DEF ScriptReturns, Inv, OwnPart, Types
      <4> QED
        BY <2>1, <3>1, <3>3, <4>1, KeptFiles
    <3> QED
      BY <2>1, <2>3, <3>2, <3>3 DEF SeesLoaded
  <2>4. ASSUME GoesOn(mem, dir) PROVE SeesLoaded'
    BY <2>1, <2>3, <2>4 DEF GoesOn, SeesLoaded
  <2>5. ASSUME GoesOn(LoadCheckpointsRecursive(files'), Direct) PROVE SeesLoaded'
    <3>1. files' \in [Script -> Checkpoints] /\ task.net \in Network
      <4>1. task \in Tasks
        BY <2>1 DEF Inv, Types
      <4> QED
        BY <1>4, <2>1, <4>1, Saved, TasksAssumption DEF ScriptReturns, Inv, Types, IsTask
    <3> QED
      BY <2>5, <3>1, LoadType, EmptyLooks DEF GoesOn, SeesLoaded
  <2> QED
    BY <2>1, <2>2, <2>4, <2>5, AdvanceIs, LeaveSees
<1>5. ASSUME NEW i \in DOMAIN calls, CallStep(i) \/ NodeError(i) \/ AnswerLost(i)
      PROVE  (InOrder /\ SeesLoaded)'
  <2>1. CASE LeaveTask(task, "failed")
    BY <2>1, LeaveSees
  <2>2. CASE StillRunning /\ MemSeen
    <3>1. UNCHANGED <<task, queue, dir, script>>
      BY <2>2 DEF StillRunning
    <3>2. InOrder'
      BY <3>1, StillOrder
    <3>3. task # NoTask /\ script # NoScript
      BY CallIs, NothingAssumption
    <3>4. files' = files \/ Persisted
      BY <1>5, CallFiles
    <3>5. ASSUME NEW n \in Name, Lookup(mem'.preceding, task.net, n) # Absent
          PROVE  \/ Lookup(mem'.stripped, task.net, n) # Absent
                 \/ \E s \in Script \ dir : Lookup(files'[s], task.net, n) # Absent
      <4>1. CASE Lookup(mem.preceding, task.net, n) # Absent
        <5>1. \/ Lookup(mem.stripped, task.net, n) # Absent
              \/ \E s \in Script \ dir : Lookup(files[s], task.net, n) # Absent
          BY <3>3, <4>1 DEF SeesLoaded
        <5> QED
          BY <2>2, <3>3, <3>4, <5>1, KeptFiles DEF MemSeen
      <4> QED
        BY <2>2, <3>5, <4>1 DEF MemSeen
    <3> QED
      BY <3>1, <3>2, <3>3, <3>5 DEF SeesLoaded
  <2> QED
    BY <1>5, <2>1, <2>2, CallSees
<1>6. ASSUME NEW n \in DOMAIN chain, NodeConfirms(n) \/ NodeDrops(n) PROVE UNCHANGED <<files, task, local>>
  BY <1>6 DEF NodeConfirms, NodeDrops
<1>7. UNCHANGED <<files, task, local>> => (InOrder /\ SeesLoaded)'
  BY DEF InOrder, SeesLoaded, local
<1>8. Crash => (InOrder /\ SeesLoaded)'
  BY LeaveSees DEF Crash
<1>9. UNCHANGED vars => (InOrder /\ SeesLoaded)'
  BY <1>7 DEF vars
<1> QED
  BY <1>1, <1>2, <1>3, <1>4, <1>5, <1>6, <1>7, <1>8, <1>9 DEF Next, Progress

\* A running script reads exactly the checkpoints of the scripts up to it in the directory: it sees
\* what earlier ones recorded and nothing of later ones (run.ts:34-45, 94-99,
\* docs/guide/execution-checkpoints.md:24).
THEOREM PastOnlySeen == ASSUME Separate, NestedLast PROVE Spec => []SeesPastOnly
<1>1. Init => InOrder /\ SeesLoaded
  BY DEF Init, InOrder, SeesLoaded
<1>2. (Inv /\ SoundInv) /\ (InOrder /\ SeesLoaded) /\ [Next]_vars => (InOrder /\ SeesLoaded)'
  BY OrderNext
<1>3. ASSUME Inv, SoundInv, InOrder, SeesLoaded PROVE SeesPastOnly
  <2> SUFFICES ASSUME script \in Direct, NEW s \in Direct \ {script}, NEW n \in Name,
                      Lookup(files[s], task.net, n) # Absent
               PROVE  Lookup(mem.preceding, task.net, n) =
                          IF s < script THEN Lookup(files[s], task.net, n) ELSE Absent
    BY DEF SeesPastOnly
  <2>1. /\ script # NoScript /\ script \in Script /\ s \in Script /\ script \in Nat /\ s \in Nat
        /\ task # NoTask /\ dir = {d \in Direct : d > script} /\ task.net \in Network
    <3>1. script \in Script /\ s \in Script
      BY BodyAssumption
    <3>2. script # NoScript
      BY <3>1, NothingAssumption
    <3>3. task # NoTask /\ task \in Tasks
      BY <1>3, <3>2 DEF Inv, Types, Located
    <3> QED
      BY <1>3, <3>1, <3>2, <3>3, ScriptAssumption, TasksAssumption DEF InOrder, IsTask
  <2>2. CASE s < script
    <3>1. s \in Direct \ (dir \cup {script})
      BY <2>1, <2>2
    <3> QED
      BY <1>3, <2>1, <2>2, <3>1 DEF SoundInv, MemReads, Reads
  <2>3. CASE s > script
    <3>1. s \in dir /\ n \in Names(files[s])
      BY <2>1, <2>3 DEF Names
    <3>2. Lookup(mem.stripped, task.net, n) = Absent
      BY <1>3, <2>1, <2>3, <3>1 DEF SoundInv, OwnSound, OnlyIn
    <3>3. \A r \in Script \ dir : Lookup(files[r], task.net, n) = Absent
      BY <1>3, <2>1, <3>1 DEF SoundInv, FilesSound, OnlyIn, Names
    <3>4. Lookup(mem.preceding, task.net, n) = Absent
      BY <1>3, <2>1, <3>2, <3>3 DEF SeesLoaded
    <3>5. ~(s < script)
      BY <2>1, <2>3
    <3> QED
      BY <3>4, <3>5
  <2> QED
    BY <2>1, <2>2, <2>3
<1>4. Inv /\ SoundInv /\ (InOrder /\ SeesLoaded) => SeesPastOnly
  BY <1>3
<1> QED
  BY <1>1, <1>2, <1>4, SoundAlways, PTL DEF Spec

-----------------------------------------------------------------------------
(* What is deployed twice was lost in between *)

\* Any two deployments of a name on a network are one.
OnceOn(C) ==
    \A t, u \in DOMAIN C : \A k \in DOMAIN C[t].txns, l \in DOMAIN C[u].txns :
        /\ C[t].net = C[u].net
        /\ C[t].txns[k].type = "deploy" /\ C[u].txns[l].type = "deploy"
        /\ C[t].txns[k].name = C[u].txns[l].name
        => t = u /\ k = l

LEMMA OnceCounts ==
    ASSUME Inv, OnceOn(chain)
    PROVE  DeployedOnce
<1> SUFFICES ASSUME NEW net \in Network, NEW n \in Name
             PROVE  Cardinality(Deployments(net, n)) <= 1
  BY DEF DeployedOnce
<1>1. PICK D : D = Deployments(net, n)
  OBVIOUS
<1>2. \A d \in D : \E t \in DOMAIN chain : \E k \in DOMAIN chain[t].txns :
          /\ d = <<t, k>> /\ chain[t].net = net
          /\ chain[t].txns[k].type = "deploy" /\ chain[t].txns[k].name = n
  <2> SUFFICES ASSUME NEW d \in D
               PROVE  \E t \in DOMAIN chain : \E k \in DOMAIN chain[t].txns :
                          /\ d = <<t, k>> /\ chain[t].net = net
                          /\ chain[t].txns[k].type = "deploy" /\ chain[t].txns[k].name = n
    OBVIOUS
  <2>1. PICK t \in DOMAIN chain :
            /\ chain[t].net = net
            /\ d \in {<<t, k>> : k \in {k \in DOMAIN chain[t].txns : DeployedNames(chain[t].txns)[k] = n}}
    BY <1>1 DEF Deployments
  <2>2. PICK k \in DOMAIN chain[t].txns : d = <<t, k>> /\ DeployedNames(chain[t].txns)[k] = n
    BY <2>1
  <2>3. n # Absent
    BY AbsentAssumption
  <2>4. chain[t].txns[k].type = "deploy" /\ chain[t].txns[k].name = n
    BY <2>2, <2>3 DEF DeployedNames
  <2> QED
    BY <2>1, <2>2, <2>4
<1>3. \A d, e \in D : d = e
  BY <1>2 DEF OnceOn
<1>4. CASE D = {}
  BY <1>1, <1>4, FS_EmptySet
<1>5. ASSUME NEW d \in D PROVE Cardinality(D) <= 1
  <2>1. D = {d}
    BY <1>3, <1>5
  <2>2. Cardinality({d}) = 1
    BY FS_Singleton
  <2> QED
    BY <2>1, <2>2
<1> QED
  BY <1>1, <1>4, <1>5

\* A call sends what nobody has sent.
LEMMA SendOnce ==
    ASSUME Disjoint, OnceInGroup, Inv, SoundInv, Unknown, NothingLost, OnceOn(chain),
           NEW i \in DOMAIN calls, calls[i].step = "ready", Sends(Call(i)), chain' = Accepted(i)
    PROVE  OnceOn(chain')
<1> DEFINE new == Len(chain) + 1
           c == Call(i)
<1>1. /\ chain \in Seq(Batch) /\ DOMAIN chain = 1..Len(chain) /\ Len(chain) \in Nat
      /\ task # NoTask /\ task.net \in Network /\ script \in Script
      /\ IsCall(c) /\ c \in CallsIn(script)
  BY CallIs, CallInScript, NothingAssumption DEF Inv, Types
<1>2. /\ DOMAIN chain' = DOMAIN chain \cup {new}
      /\ chain'[new].net = task.net /\ chain'[new].txns = c.txns
      /\ \A t \in DOMAIN chain : chain'[t] = chain[t]
  <2>1. chain' \in Seq(Batch) /\ Len(chain') = new
    BY AcceptedIs
  <2>2. DOMAIN chain' = DOMAIN chain \cup {new}
    BY <1>1, <2>1
  <2> QED
    BY <2>2, AcceptedIs
<1>3. ASSUME NEW t \in DOMAIN chain, chain[t].net = task.net, NEW k \in DOMAIN chain[t].txns,
             NEW l \in DOMAIN c.txns, chain[t].txns[k].type = "deploy", c.txns[l].type = "deploy",
             chain[t].txns[k].name = c.txns[l].name
      PROVE  FALSE
  <2> DEFINE n == c.txns[l].name
  <2>1. n \in Pending(c, calls[i])
    BY <1>3 DEF Pending, Checked, Midway, Sends
  <2>2. Lookup(mem.all, task.net, n) = Absent /\ n \in Name /\ n \in Makes(c)
    BY <1>1, <2>1, PendingMakes DEF Unknown
  <2>3. IsKept(t, k)
    BY <1>3 DEF NothingLost
  <2>4. ASSUME NEW s \in Script PROVE Lookup(files[s], task.net, n) = Absent
    BY <1>1, <2>2 DEF SoundInv, MemReads, Reads
  <2>5. Lookup(mem.stripped, task.net, n) = Absent
    BY <1>1, <2>2, NothingAssumption DEF SoundInv, OwnSound
  <2>6. PICK j \in DOMAIN calls : calls[j].tx = t /\ calls[j].step \in {"sent", "recording"}
    BY <1>3, <2>3, <2>4, <2>5 DEF IsKept
  <2>7. Sends(Call(j)) /\ chain[t].txns = Call(j).txns /\ IsCall(Call(j))
    BY <2>6, CallIs DEF Inv, CallsOK, CallOK
  <2>8. n \in Makes(Call(j))
    <3>1. /\ k \in DOMAIN Call(j).txns /\ Call(j).txns[k].type = "deploy"
          /\ Call(j).txns[k].name = n
      BY <1>3, <2>7
    <3>2. Call(j).op # "update" /\ Call(j).op # "lsig"
      BY <2>7, <3>1 DEF IsCall, Sends
    <3> QED
      BY <2>7, <3>1, <3>2 DEF Makes
  <2>9. i = j
    BY <2>2, <2>8, CallIs DEF Disjoint, Call, Inv, Located
  <2> QED
    BY <2>6, <2>9
<1>4. ASSUME NEW k \in DOMAIN c.txns, NEW l \in DOMAIN c.txns, c.txns[k].type = "deploy",
             c.txns[l].type = "deploy", c.txns[k].name = c.txns[l].name
      PROVE  k = l
  BY <1>1, <1>4 DEF OnceInGroup
<1> HIDE DEF c, new
<1> SUFFICES ASSUME NEW t \in DOMAIN chain', NEW u \in DOMAIN chain',
                    NEW k \in DOMAIN chain'[t].txns, NEW l \in DOMAIN chain'[u].txns,
                    chain'[t].net = chain'[u].net, chain'[t].txns[k].type = "deploy",
                    chain'[u].txns[l].type = "deploy",
                    chain'[t].txns[k].name = chain'[u].txns[l].name
             PROVE  t = u /\ k = l
  BY DEF OnceOn
<1>5. CASE t \in DOMAIN chain /\ u \in DOMAIN chain
  BY <1>2, <1>5 DEF OnceOn
<1>6. CASE t = new /\ u = new
  BY <1>2, <1>4, <1>6
<1>7. ~(t \in DOMAIN chain /\ u = new) /\ ~(t = new /\ u \in DOMAIN chain)
  BY <1>2, <1>3
<1> QED
  BY <1>2, <1>5, <1>6, <1>7

LEMMA SettleOnce ==
    ASSUME Inv, OnceOn(chain), NEW n \in DOMAIN chain, NEW status,
           chain' = [chain EXCEPT ![n] = [chain[n] EXCEPT !.status = status]]
    PROVE  OnceOn(chain')
<1>1. chain \in Seq(Batch) /\ chain[n] \in Batch
  BY DEF Inv, Types
<1>2. PICK b : b = [chain[n] EXCEPT !.status = status]
  OBVIOUS
<1>3. b.net = chain[n].net /\ b.txns = chain[n].txns
  BY <1>1, <1>2 DEF Batch
<1>4. DOMAIN chain' = DOMAIN chain
      /\ \A t \in DOMAIN chain : chain'[t].net = chain[t].net /\ chain'[t].txns = chain[t].txns
  BY <1>1, <1>2, <1>3
<1> QED
  BY <1>4 DEF OnceOn

LEMMA OnceNext ==
    ASSUME Disjoint, OnceInGroup, Inv, SoundInv, Unknown, NothingLost, OnceOn(chain), [Next]_vars
    PROVE  OnceOn(chain')
<1>1. CASE chain' = chain
  BY <1>1
<1> QED
  BY <1>1, ChainStep, SendOnce, SettleOnce

\* A name is deployed twice only after a deployment of it was lost: neither recorded in a file
\* nor by the script that is running, nor waited for (deployer.ts:432-440, 487-497,
\* docs/guide/deployer.md:12).
THEOREM OnlyLostTwice ==
    ASSUME Separate, Disjoint, OnceInGroup
    PROVE  Spec /\ []NothingLost => []DeployedOnce
<1>1. Init => OnceOn(chain)
  BY DEF Init, OnceOn
<1>2. (Inv /\ SoundInv /\ Unknown) /\ NothingLost /\ OnceOn(chain) /\ [Next]_vars => OnceOn(chain)'
  BY OnceNext
<1>3. Inv /\ OnceOn(chain) => DeployedOnce
  BY OnceCounts
<1> QED
  BY <1>1, <1>2, <1>3, UnknownAlways, PTL DEF Spec
-----------------------------------------------------------------------------
(* Careful users lose nothing *)

\* The scripts that are left are of the command line.
Listed == task # NoTask => \A k \in DOMAIN queue : \E j \in DOMAIN task.list : queue[k] = task.list[j]

LEMMA LeaveListed == ASSUME NEW t, NEW outcome, LeaveTask(t, outcome) PROVE Listed'
BY DEF LeaveTask, Listed

LEMMA CallListed ==
    ASSUME NEW i \in DOMAIN calls, CallStep(i) \/ NodeError(i) \/ AnswerLost(i)
    PROVE  StillRunning \/ LeaveTask(task, "failed")
BY DEF CallStep, NodeError, AnswerLost, Refuse, Begin, BeginUpdate, BeginOptIn, BeginFund, MakeTx,
       AddCheckpointKV, SignLsig, Send, Confirmed, RecordTx, OptIn, OptInByNumber, Throw, Quietly, Fails

LEMMA AdvanceListed ==
    ASSUME Inv, Listed, queue # << >>, NEW repo, NEW newDir, NEW newFiles, Advance(repo, newDir, newFiles)
    PROVE  Listed'
<1>1. CASE queue' = Tail(queue) /\ UNCHANGED task
  <2>1. \A k \in DOMAIN Tail(queue) : k + 1 \in DOMAIN queue /\ Tail(queue)[k] = queue[k + 1]
    BY TailIn DEF Inv, Types
  <2> QED
    BY <1>1, <2>1 DEF Listed
<1> QED
  BY <1>1, AdvanceIs, LeaveListed DEF GoesOn

LEMMA ListedNext == ASSUME Inv, Listed, [Next]_vars PROVE Listed'
<1>1. ASSUME NEW t \in Tasks, StartTask(t) PROVE Listed'
  BY <1>1, LeaveListed DEF StartTask, Listed
<1>2. ASSUME NextScript PROVE Listed'
  <2>1. UNCHANGED <<task, queue>> => Listed'
    BY DEF Listed
  <2> QED
    BY <1>2, <2>1, NextScriptIs, AdvanceListed, LeaveListed DEF Starts
<1>3. ASSUME ScriptReturns PROVE Listed'
  BY <1>3, AdvanceListed DEF ScriptReturns, StageDone, Inv, Located
<1>4. ASSUME UNCHANGED <<task, queue>> PROVE Listed'
  BY <1>4 DEF Listed
<1>5. NextStage => UNCHANGED <<task, queue>>
  BY DEF NextStage
<1>6. ASSUME NEW i \in DOMAIN calls, CallStep(i) \/ NodeError(i) \/ AnswerLost(i) PROVE Listed'
  BY <1>4, <1>6, CallListed, LeaveListed DEF StillRunning
<1>7. ASSUME NEW n \in DOMAIN chain, NodeConfirms(n) \/ NodeDrops(n) PROVE UNCHANGED <<task, queue>>
  BY <1>7 DEF NodeConfirms, NodeDrops, local
<1>8. Crash => Listed'
  BY LeaveListed DEF Crash
<1>9. UNCHANGED vars => UNCHANGED <<task, queue>>
  BY DEF vars, local
<1> QED
  BY <1>1, <1>2, <1>3, <1>4, <1>5, <1>6, <1>7, <1>8, <1>9 DEF Next, Progress

\* What is in a file stays there, and what the running script has registered is in its file when
\* that is written.
LEMMA FilesKeep ==
    ASSUME Inv, files' = files \/ Persisted, NEW net \in Network, NEW n \in Name
    PROVE  /\ \A s \in Script : Lookup(files[s], net, n) # Absent => Lookup(files'[s], net, n) # Absent
           /\ Persisted /\ net = task.net /\ Lookup(mem.stripped, net, n) # Absent =>
                  \E s \in Script : Lookup(files'[s], net, n) # Absent
<1>1. CASE files' = files /\ ~Persisted
  BY <1>1
<1>2. CASE Persisted
  <2>1. script \in Script /\ files'[script] = mem.stripped
        /\ \A s \in Script \ {script} : files'[s] = files[s]
    BY <1>2 DEF Persisted, Inv, Types
  <2>2. Lookup(files[script], net, n) # Absent => Lookup(mem.stripped, net, n) # Absent
    BY <1>2 DEF Persisted, Inv, OwnPart, Lookup
  <2> QED
    BY <2>1, <2>2
<1> QED
  BY <1>1, <1>2

\* A deployment on the chain.
IsDeployment(t, k) == t \in DOMAIN chain /\ k \in DOMAIN chain[t].txns /\ chain[t].txns[k].type = "deploy"
InFile(t, k) == \E s \in Script : Lookup(files[s], chain[t].net, chain[t].txns[k].name) # Absent
Awaited(i, t, k) ==
    calls[i].tx = t /\ (calls[i].step = "sent" \/ (calls[i].step = "recording" /\ calls[i].made < k))

LEMMA DeploymentIs ==
    ASSUME Inv, NEW t, NEW k, IsDeployment(t, k)
    PROVE  chain[t].net \in Network /\ chain[t].txns[k].name \in Name
<1>1. chain[t] \in Batch
  BY DEF IsDeployment, Inv, Types
<1>2. chain[t].txns[k] \in Txn
  BY <1>1 DEF IsDeployment, Batch
<1> QED
  BY <1>1, <1>2 DEF Batch, Txn

\* A call that is awaited deploys, and only a deploy task deploys.
LEMMA AwaitedDeploys ==
    ASSUME Inv, NEW i \in DOMAIN calls, NEW t, NEW k, IsDeployment(t, k), Awaited(i, t, k)
    PROVE  /\ chain[t].net = task.net /\ chain[t].txns = Call(i).txns
           /\ Call(i).op = "deploy" \/ DeploysInGroup(Call(i))
           /\ Call(i).op = "deploy" => Writes /\ calls[i].step = "sent"
<1>1. /\ chain[t].net = task.net /\ chain[t].txns = Call(i).txns /\ Sends(Call(i))
      /\ calls[i].step = "recording" => Call(i).op = "group"
      /\ calls[i].step = "sent" /\ Call(i).op = "deploy" => Writes
  BY DEF Awaited, Inv, CallsOK, CallOK
<1>2. IsCall(Call(i))
  BY CallIs
<1>3. Call(i).txns[k].type = "deploy" /\ k \in DOMAIN Call(i).txns
  BY <1>1 DEF IsDeployment
<1>4. Call(i).op \in {"deploy", "group"}
  <2>1. Call(i).op = "fund" => k \notin DOMAIN Call(i).txns
    BY <1>2 DEF IsCall
  <2>2. Call(i).op \in {"update", "optin"} => Len(Call(i).txns) = 1 /\ Call(i).txns \in Seq(Txn)
                                              /\ Call(i).txns[1].type = Call(i).op
    BY <1>2 DEF IsCall, Sends
  <2> QED
    BY <1>1, <1>3, <2>1, <2>2 DEF Sends
<1> QED
  BY <1>1, <1>3, <1>4 DEF DeploysInGroup, Awaited

\* Scripts in run mode deploy nothing.
LEMMA RunsDeployNothing ==
    ASSUME Careful, Inv, Listed, NEW i \in DOMAIN calls, ~Writes, NEW t, NEW k, IsDeployment(t, k)
    PROVE  ~Awaited(i, t, k)
<1> SUFFICES ASSUME Awaited(i, t, k) PROVE FALSE
  OBVIOUS
<1>1. DeploysInGroup(Call(i))
  BY AwaitedDeploys
<1>2. task \in Tasks /\ queue # << >> /\ script \in Script /\ script = Head(queue) /\ queue \in Seq(Script)
  BY CallIs, NothingAssumption DEF Inv, Types, Located
<1>3. task # NoTask /\ task.mode = "run"
  BY <1>2, TasksAssumption, NothingAssumption DEF IsTask, Writes
<1>4. PICK j \in DOMAIN task.list : script = task.list[j]
  BY <1>2, <1>3, TailIn DEF Listed
<1>5. Call(i) \in CallsIn(script)
  BY CallInScript
<1> QED
  BY <1>1, <1>2, <1>3, <1>4, <1>5 DEF Careful

\* All is in the files.
LEMMA FiledKept ==
    ASSUME \A t, k : IsDeployment(t, k) => InFile(t, k)
    PROVE  NothingLost
BY DEF NothingLost, IsKept, IsDeployment, InFile

LEMMA IdleFiled ==
    ASSUME Inv, NothingLost, script = NoScript, NEW t, NEW k, IsDeployment(t, k)
    PROVE  InFile(t, k)
BY NoCalls DEF NothingLost, IsKept, IsDeployment, InFile, Inv, Located

\* A script ends, and nothing is awaited.
LEMMA EndsKept ==
    ASSUME Inv, NothingLost, script # NoScript, UNCHANGED chain,
           Persisted \/ (~Writes /\ UNCHANGED files),
           \A t, k : IsDeployment(t, k) => \A i \in DOMAIN calls : ~Awaited(i, t, k)
    PROVE  NothingLost'
<1> SUFFICES ASSUME NEW t, NEW k, IsDeployment(t, k) PROVE InFile(t, k)'
  BY FiledKept DEF IsDeployment, NothingLost, IsKept, InFile
<1> DEFINE net == chain[t].net
           n == chain[t].txns[k].name
<1>1. net \in Network /\ n \in Name
  BY DeploymentIs
<1>2. IsKept(t, k)
  BY DEF NothingLost, IsDeployment
<1>3. InFile(t, k) \/ (net = task.net /\ Lookup(mem.stripped, net, n) # Absent)
  BY <1>2 DEF IsKept, InFile, Awaited
<1>4. ~Writes => mem.stripped = files[script] /\ script \in Script
  BY DEF Inv, Types, OwnPart
<1>5. InFile(t, k)' <=> \E s \in Script : Lookup(files'[s], net, n) # Absent
  BY DEF InFile
<1> HIDE DEF net, n
<1>6. \/ \E s \in Script : Lookup(files[s], net, n) # Absent
      \/ net = task.net /\ Lookup(mem.stripped, net, n) # Absent
  BY <1>3 DEF InFile, net, n
<1>7. CASE Persisted
  BY <1>1, <1>5, <1>6, <1>7, FilesKeep
<1>8. CASE ~Writes /\ UNCHANGED files
  BY <1>1, <1>4, <1>5, <1>6, <1>8
<1> QED
  BY <1>7, <1>8

\* The call i moves to st: what it waited for is registered.
LEMMA MoveKept ==
    ASSUME Inv, NothingLost, NEW i \in DOMAIN calls, NEW st, calls' = [calls EXCEPT ![i] = st],
           StillRunning, files' = files \/ Persisted, Grown(chain, chain'), mem' \in Repo,
           \A n \in Name : Lookup(mem.stripped, task.net, n) # Absent =>
                               Lookup(mem'.stripped, task.net, n) # Absent,
           NEW t, NEW k, IsDeployment(t, k), Awaited(i, t, k) => IsKept(t, k)'
    PROVE  IsKept(t, k)'
<1> USE DEF StillRunning
<1>1. /\ chain'[t].net = chain[t].net /\ chain'[t].txns = chain[t].txns
      /\ chain[t].net \in Network /\ chain[t].txns[k].name \in Name
  BY DeploymentIs DEF Grown, IsDeployment
<1>2. DOMAIN calls' = DOMAIN calls /\ \A j \in DOMAIN calls : j # i => calls'[j] = calls[j]
  BY DEF Inv, Types
<1>3. IsKept(t, k)
  BY DEF NothingLost, IsDeployment
<1>4. CASE InFile(t, k)
  <2>1. PICK s \in Script : Lookup(files[s], chain[t].net, chain[t].txns[k].name) # Absent
    BY <1>4 DEF InFile
  <2>2. Lookup(files'[s], chain[t].net, chain[t].txns[k].name) # Absent
    BY <1>1, <2>1, FilesKeep
  <2> QED
    BY <1>1, <2>2 DEF IsKept
<1>5. CASE /\ script # NoScript /\ chain[t].net = task.net
           /\ Lookup(mem.stripped, chain[t].net, chain[t].txns[k].name) # Absent
  <2>1. Lookup(mem'.stripped, chain[t].net, chain[t].txns[k].name) # Absent
    BY <1>1, <1>5
  <2> QED
    BY <1>1, <1>5, <2>1 DEF IsKept
<1>6. ASSUME NEW j \in DOMAIN calls, j # i, Awaited(j, t, k) PROVE IsKept(t, k)'
  <2>1. j \in DOMAIN calls' /\ Awaited(j, t, k)'
    BY <1>2, <1>6 DEF Awaited
  <2> QED
    BY <2>1 DEF IsKept, Awaited
<1> QED
  BY <1>3, <1>4, <1>5, <1>6 DEF IsKept, InFile, Awaited

\* The same, for a step that sends nothing.
LEMMA MoveAllKept ==
    ASSUME Inv, NothingLost, NEW i \in DOMAIN calls, NEW st, calls' = [calls EXCEPT ![i] = st],
           StillRunning, files' = files \/ Persisted, UNCHANGED chain, mem' \in Repo,
           \A n \in Name : Lookup(mem.stripped, task.net, n) # Absent =>
                               Lookup(mem'.stripped, task.net, n) # Absent,
           \A t, k : IsDeployment(t, k) /\ Awaited(i, t, k) => IsKept(t, k)'
    PROVE  NothingLost'
<1>1. \A t, k : IsDeployment(t, k) => IsKept(t, k)'
  BY MoveKept, SameGrown
<1> QED
  BY <1>1 DEF NothingLost, IsDeployment

\* The call i was not waiting.
LEMMA QuietKept ==
    ASSUME Inv, NothingLost, NEW i \in DOMAIN calls, NEW st, calls' = [calls EXCEPT ![i] = st],
           StillRunning, files' = files \/ Persisted, UNCHANGED <<chain, mem>>,
           calls[i].step \notin {"sent", "recording"}
    PROVE  NothingLost'
<1>1. mem' \in Repo
  BY DEF Inv, Types
<1> QED
  BY <1>1, MoveAllKept DEF Awaited

LEMMA StepKept ==
    ASSUME Inv, NothingLost, NEW i \in DOMAIN calls, NEW step, Step(i, step), Quietly,
           calls[i].step \notin {"sent", "recording"}
    PROVE  NothingLost'
<1> PICK st : st = [calls[i] EXCEPT !.step = step]
  OBVIOUS
<1> QED
  BY QuietKept DEF Step, Quietly

\* A call that is not sent throws.
LEMMA ThrowKept ==
    ASSUME Careful, Inv, Listed, NothingLost, NEW i \in DOMAIN calls, NEW persists,
           Throw(i, persists), UNCHANGED chain, calls[i].step \notin {"sent", "recording"},
           Writes => /\ Call(i).op # "fund"
                     /\ persists \/ Call(i).op \notin {"deploy", "lsig"}
    PROVE  NothingLost'
<1>1. files' = files \/ Persisted
  BY ThrowFiles
<1>2. CASE Call(i).caught
  <2> PICK st : st = [calls[i] EXCEPT !.step = "done"]
    OBVIOUS
  <2>1. calls' = [calls EXCEPT ![i] = st] /\ StillRunning /\ UNCHANGED mem
    BY <1>2 DEF Throw, Step
  <2> QED
    BY <1>1, <2>1, QuietKept
<1>3. script \in Script /\ script # NoScript
  BY CallIs, NothingAssumption
<1>4. CASE ~Call(i).caught /\ ~Writes
  <2>1. UNCHANGED files
    BY <1>4 DEF Throw
  <2> QED
    BY <1>3, <1>4, <2>1, EndsKept, RunsDeployNothing
<1>5. CASE ~Call(i).caught /\ Writes
  <2>1. script \in Direct /\ stage \in DOMAIN Body[script] /\ i \in DOMAIN Body[script][stage]
    BY <1>3, <1>5, DirectRuns DEF Inv, Located
  <2>2. /\ Call(i).op \in {"deploy", "lsig"}
        /\ \A j \in DOMAIN Body[script][stage] \ {i} :
               Call(j).op # "deploy" /\ ~DeploysInGroup(Call(j))
    BY <1>5, <2>1 DEF Careful, Call
  <2>3. Persisted
    BY <1>5, <2>2, ThrowFiles
  <2>4. ASSUME NEW j \in DOMAIN calls, NEW t, NEW k, IsDeployment(t, k) PROVE ~Awaited(j, t, k)
    <3>1. j \in DOMAIN Body[script][stage]
      BY DEF Inv, Located
    <3>2. j = i => ~Awaited(j, t, k)
      BY DEF Awaited
    <3> QED
      BY <2>2, <2>4, <3>1, <3>2, AwaitedDeploys
  <2> QED
    BY <1>3, <2>3, <2>4, EndsKept
<1> QED
  BY <1>2, <1>4, <1>5

LEMMA RefuseKept ==
    ASSUME Careful, Inv, Listed, NothingLost, NEW i \in DOMAIN calls, Refuse(i)
    PROVE  NothingLost'
BY ThrowKept DEF Refuse, At

LEMMA BeginKept ==
    ASSUME Careful, Inv, Listed, NothingLost, NEW i \in DOMAIN calls,
           Begin(i) \/ BeginUpdate(i) \/ BeginFund(i) \/ OptIn(i)
    PROVE  NothingLost'
<1>1. calls[i].step \in {"start", "opting"}
  BY DEF Begin, BeginUpdate, BeginFund, OptIn, At
<1>2. CASE Throw(i, TRUE) /\ UNCHANGED chain /\ Call(i).op \in {"deploy", "lsig"}
  BY <1>1, <1>2, ThrowKept
<1>3. CASE Throw(i, FALSE) /\ UNCHANGED chain /\ Call(i).op = "update"
  BY <1>1, <1>3, ThrowKept
<1>4. CASE \E step : Step(i, step) /\ Quietly
  BY <1>1, <1>4, StepKept
<1>5. Begin(i) => \/ Throw(i, TRUE) /\ UNCHANGED chain /\ Call(i).op \in {"deploy", "lsig"}
                  \/ Step(i, "ready") /\ Quietly
  BY DEF Begin
<1>6. BeginUpdate(i) => \/ Throw(i, FALSE) /\ UNCHANGED chain /\ Call(i).op = "update"
                        \/ Step(i, "ready") /\ Quietly
  BY DEF BeginUpdate
<1>7. BeginFund(i) \/ OptIn(i) => \E step : Step(i, step) /\ Quietly
  BY DEF BeginFund, OptIn
<1> QED
  BY <1>2, <1>3, <1>4, <1>5, <1>6, <1>7

LEMMA BeginOptInKept ==
    ASSUME Careful, Inv, Listed, NothingLost, NEW i \in DOMAIN calls, BeginOptIn(i)
    PROVE  NothingLost'
<1>1. calls[i].step = "start" /\ Call(i).op = "optin" /\ UNCHANGED chain
  BY DEF BeginOptIn, At
<1>2. CASE Throw(i, FALSE)
  BY <1>1, <1>2, ThrowKept
<1>3. CASE \E st : calls' = [calls EXCEPT ![i] = st] /\ UNCHANGED <<files, mem>> /\ StillRunning
  BY <1>1, <1>3, QuietKept
<1>4. ASSUME OptsIn(i, Def(Call(i).txns[1].name).id) /\ Quietly
      PROVE  \E st : calls' = [calls EXCEPT ![i] = st] /\ UNCHANGED <<files, mem>> /\ StillRunning
  <2> PICK st : st = [calls[i] EXCEPT !.step = "ready", !.asset = Def(Call(i).txns[1].name).id]
    OBVIOUS
  <2>1. calls' = [calls EXCEPT ![i] = st]
    BY <1>4 DEF OptsIn
  <2> QED
    BY <1>4, <2>1 DEF Quietly
<1>5. ASSUME OptInByNumber(i, FALSE), ~Throw(i, FALSE)
      PROVE  \E st : calls' = [calls EXCEPT ![i] = st] /\ UNCHANGED <<files, mem>> /\ StillRunning
  <2> PICK st : st = [calls[i] EXCEPT !.step = "ready", !.made = 1, !.asset = Call(i).number, !.failed = FALSE]
    OBVIOUS
  <2>1. calls' = [calls EXCEPT ![i] = st]
    BY <1>5 DEF OptInByNumber
  <2> QED
    BY <1>5, <2>1 DEF OptInByNumber
<1> QED
  BY <1>2, <1>3, <1>4, <1>5 DEF BeginOptIn

LEMMA MakeTxKept ==
    ASSUME Careful, Inv, Listed, NothingLost, NEW i \in DOMAIN calls, MakeTx(i)
    PROVE  NothingLost'
<1>1. calls[i].step \in {"start", "making"} /\ Call(i).op = "group"
  BY DEF MakeTx, At
<1>2. CASE \E persists : Throw(i, persists) /\ UNCHANGED chain
  BY <1>1, <1>2, ThrowKept
<1> DEFINE k == calls[i].made + 1
           step == IF k = Len(Call(i).txns) THEN "ready" ELSE "making"
<1>3. CASE calls' = [calls EXCEPT ![i].made = k, ![i].step = step] /\ Quietly
  <2> PICK st : st = [calls[i] EXCEPT !.made = k, !.step = step]
    OBVIOUS
  <2>1. calls' = [calls EXCEPT ![i] = st]
    BY <1>3
  <2> QED
    BY <1>1, <1>3, <2>1, QuietKept DEF Quietly
<1> QED
  BY <1>2, <1>3 DEF MakeTx

LEMMA AddCheckpointKVKept ==
    ASSUME Careful, Inv, Listed, NothingLost, NEW i \in DOMAIN calls, AddCheckpointKV(i)
    PROVE  NothingLost'
<1>1. calls[i].step = "start" /\ Call(i).op = "kv" /\ UNCHANGED chain
  BY DEF AddCheckpointKV, At
<1>2. CASE Throw(i, FALSE)
  BY <1>1, <1>2, ThrowKept
<1>3. CASE ~Throw(i, FALSE)
  <2>1. Step(i, "done") /\ UNCHANGED files /\ StillRunning
    BY <1>3 DEF AddCheckpointKV
  <2>2. MemSeen \/ LeaveTask(task, "failed")
    BY CallSees DEF CallStep
  <2>3. ~LeaveTask(task, "failed")
    BY <2>1, CallIs, NothingAssumption DEF LeaveTask, StillRunning
  <2>4. mem' \in Repo
    BY AddCheckpointKVInv DEF Inv, Types
  <2> PICK st : st = [calls[i] EXCEPT !.step = "done"]
    OBVIOUS
  <2>5. calls' = [calls EXCEPT ![i] = st]
    BY <2>1 DEF Step
  <2>6. \A t, k : ~Awaited(i, t, k)
    BY <1>1 DEF Awaited
  <2> QED
    BY <1>1, <2>1, <2>2, <2>3, <2>4, <2>5, <2>6, MoveAllKept DEF MemSeen
<1> QED
  BY <1>2, <1>3

LEMMA SignLsigKept ==
    ASSUME Inv, NothingLost, NEW i \in DOMAIN calls, SignLsig(i)
    PROVE  NothingLost'
<1>1. /\ calls[i].step = "ready" /\ Step(i, "done") /\ StillRunning /\ UNCHANGED <<files, chain>>
  BY DEF SignLsig, At
<1>2. MemSeen \/ LeaveTask(task, "failed")
  BY CallSees DEF CallStep
<1>3. ~LeaveTask(task, "failed")
  BY <1>1, CallIs, NothingAssumption DEF LeaveTask, StillRunning
<1>4. mem' \in Repo
  BY SignLsigInv DEF Inv, Types
<1> PICK st : st = [calls[i] EXCEPT !.step = "done"]
  OBVIOUS
<1>5. calls' = [calls EXCEPT ![i] = st]
  BY <1>1 DEF Step
<1>6. \A t, k : ~Awaited(i, t, k)
  BY <1>1 DEF Awaited
<1> QED
  BY <1>1, <1>2, <1>3, <1>4, <1>5, <1>6, MoveAllKept DEF MemSeen

\* What a call sends, it waits for.
LEMMA SendKept ==
    ASSUME Inv, NothingLost, NEW i \in DOMAIN calls, Send(i)
    PROVE  NothingLost'
<1>0. PICK new : new = Len(chain) + 1
  OBVIOUS
<1> DEFINE st == [calls[i] EXCEPT !.step = "sent", !.tx = new]
<1>1. /\ calls[i].step = "ready" /\ StillRunning /\ UNCHANGED <<files, mem>> /\ chain' = Accepted(i)
      /\ Sends(Call(i)) /\ calls[i] \in CallState /\ mem' \in Repo
  BY CallIs DEF Send, At, Inv, Types
<1>2. calls' = [calls EXCEPT ![i] = st] /\ st.step = "sent" /\ st.tx = new
  BY <1>0, <1>1 DEF Send, CallState
<1>3. chain' \in Seq(Batch) /\ Grown(chain, chain') /\ Len(chain') = new /\ chain \in Seq(Batch)
      /\ \A t \in DOMAIN chain : chain'[t] = chain[t]
  BY <1>0, <1>1, AcceptedIs DEF Inv, Types
<1>4. DOMAIN chain' = DOMAIN chain \cup {new}
  BY <1>0, <1>3
<1>5. i \in DOMAIN calls' /\ calls'[i] = st
  BY <1>2 DEF Inv, Types
<1> HIDE DEF st
<1>6. \A k : IsKept(new, k)'
  BY <1>2, <1>5 DEF IsKept
<1>7. \A t, k : IsDeployment(t, k) => IsKept(t, k)'
  <2>1. \A t, k : ~Awaited(i, t, k)
    BY <1>1 DEF Awaited
  <2> QED
    BY <1>1, <1>2, <1>3, <2>1, MoveKept
<1>8. \A t \in DOMAIN chain : \A k \in DOMAIN chain'[t].txns :
          chain'[t].txns[k].type = "deploy" => IsDeployment(t, k)
  BY <1>3 DEF IsDeployment
<1> QED
  BY <1>4, <1>6, <1>7, <1>8 DEF NothingLost

\* What is confirmed is registered, or about to be.
LEMMA ConfirmedKept ==
    ASSUME Careful, Inv, Listed, NothingLost, NEW i \in DOMAIN calls, Confirmed(i)
    PROVE  NothingLost'
<1> DEFINE c == Call(i)
<1>1. /\ calls[i].step = "sent" /\ StillRunning /\ UNCHANGED <<files, chain>> /\ calls[i] \in CallState
      /\ IsCall(c) /\ task.net \in Network /\ mem \in Repo /\ mem' \in Repo
      /\ script \in Script /\ script # NoScript
  BY CallIs, ConfirmedInv, NothingAssumption DEF Confirmed, At, Inv, Types
<1>2. \A n \in Name : Lookup(mem.stripped, task.net, n) # Absent =>
                          Lookup(mem'.stripped, task.net, n) # Absent
  BY ConfirmedSees DEF MemSeen
<1>3. ASSUME NEW step, Step(i, step), \A t, k : IsDeployment(t, k) /\ Awaited(i, t, k) => IsKept(t, k)'
      PROVE  NothingLost'
  <2> PICK st : st = [calls[i] EXCEPT !.step = step]
    OBVIOUS
  <2>1. calls' = [calls EXCEPT ![i] = st]
    BY <1>3 DEF Step
  <2> QED
    BY <1>1, <1>2, <1>3, <2>1, MoveAllKept
<1>4. CASE c.op = "deploy" /\ Recorded(c.txns[1].name, <<calls[i].tx, 1>>)
           /\ Step(i, IF c.optIns THEN "opting" ELSE "done")
  <2> SUFFICES ASSUME NEW t, NEW k, IsDeployment(t, k), Awaited(i, t, k) PROVE IsKept(t, k)'
    BY <1>3, <1>4
  <2>1. chain[t].net = task.net /\ chain[t].txns = c.txns
    BY AwaitedDeploys
  <2>2. k = 1
    <3>1. c.txns \in Seq(Txn) /\ Len(c.txns) = 1 /\ k \in DOMAIN c.txns
      BY <1>1, <1>4, <2>1 DEF IsCall, Sends, IsDeployment
    <3> QED
      BY <3>1
  <2>3. c.txns[1].name \in Name
    BY <2>1, <2>2, DeploymentIs
  <2>4. [id |-> <<calls[i].tx, 1>>, deleted |-> FALSE] \in Entry
    BY <1>1 DEF Entry, Id, CallState
  <2>5. Lookup(mem'.stripped, task.net, c.txns[1].name) # Absent
    <3>1. PICK e \in Entry : mem' = Register(mem, task.net, c.txns[1].name, e)
      BY <1>4, <2>4 DEF Recorded
    <3>2. Lookup(mem'.stripped, task.net, c.txns[1].name) = e
      BY <1>1, <2>3, <3>1, RegisterLooks DEF WithEntry
    <3> QED
      BY <3>2, AbsentAssumption
  <2> QED
    BY <1>1, <2>1, <2>2, <2>5 DEF IsKept, StillRunning
<1>5. CASE Step(i, "done") /\ (c.op \in {"update", "fund", "optin"} \/ ~Writes)
  <2>1. \A t, k : IsDeployment(t, k) => ~Awaited(i, t, k)
    BY <1>5, AwaitedDeploys, RunsDeployNothing DEF DeploysInGroup
  <2> QED
    BY <1>3, <1>5, <2>1
<1>6. CASE calls' = [calls EXCEPT ![i].step = "recording", ![i].made = 0]
  <2> DEFINE st == [calls[i] EXCEPT !.step = "recording", !.made = 0]
  <2>1. calls' = [calls EXCEPT ![i] = st] /\ st.step = "recording" /\ st.made = 0 /\ st.tx = calls[i].tx
    BY <1>1, <1>6 DEF CallState
  <2> HIDE DEF st
  <2>2. i \in DOMAIN calls' /\ calls'[i] = st
    BY <2>1 DEF Inv, Types
  <2>3. ASSUME NEW t, NEW k, IsDeployment(t, k), Awaited(i, t, k) PROVE IsKept(t, k)'
    <3>1. k > 0
      <4>1. chain[t].txns = c.txns /\ k \in DOMAIN c.txns /\ c.txns \in Seq(Txn)
        <5>1. chain[t].txns = c.txns /\ Sends(c)
          BY <1>1, <2>3, AwaitedDeploys DEF Inv, CallsOK, CallOK
        <5> QED
          BY <1>1, <2>3, <5>1 DEF IsCall, IsDeployment
      <4> QED
        BY <4>1
    <3>2. calls'[i].tx = t
      BY <2>1, <2>2, <2>3 DEF Awaited
    <3>3. calls'[i].step = "recording" /\ calls'[i].made < k
      BY <2>1, <2>2, <3>1
    <3> QED
      BY <2>2, <3>2, <3>3 DEF IsKept
  <2> QED
    BY <1>1, <1>2, <2>1, <2>3, MoveAllKept
<1> QED
  BY <1>4, <1>5, <1>6 DEF Confirmed

\* One deployment of a group is registered, and the next ones are about to be.
LEMMA RecordTxKept ==
    ASSUME Careful, Inv, NothingLost, NEW i \in DOMAIN calls, RecordTx(i)
    PROVE  NothingLost'
<1> DEFINE c == Call(i)
           m == calls[i].made + 1
           step == IF m = Len(c.txns) THEN "done" ELSE "recording"
           st == [calls[i] EXCEPT !.made = m, !.step = step]
<1>1. /\ calls[i].step = "recording" /\ StillRunning /\ UNCHANGED <<files, chain>>
      /\ calls' = [calls EXCEPT ![i] = st] /\ calls[i] \in CallState
      /\ IsCall(c) /\ task.net \in Network /\ mem \in Repo /\ mem' \in Repo
      /\ script \in Script /\ script # NoScript
  BY CallIs, RecordTxInv, NothingAssumption DEF RecordTx, At, Inv, Types
<1>2. \A n \in Name : Lookup(mem.stripped, task.net, n) # Absent =>
                          Lookup(mem'.stripped, task.net, n) # Absent
  BY RecordTxSees DEF MemSeen
<1>3. st.made = m /\ st.step = step /\ st.tx = calls[i].tx /\ m \in Nat /\ calls[i].tx \in Nat
  BY <1>1 DEF CallState
<1>4. c.txns \in Seq(Txn) /\ CallOK(c, calls[i], task.net, chain, mem.preceding)
  BY <1>1 DEF Inv, CallsOK, CallOK, IsCall
<1> HIDE DEF st
<1>5. i \in DOMAIN calls' /\ calls'[i] = st
  BY <1>1 DEF Inv, Types
<1> SUFFICES ASSUME NEW t, NEW k, IsDeployment(t, k), Awaited(i, t, k) PROVE IsKept(t, k)'
  BY <1>1, <1>2, MoveAllKept
<1>6. /\ chain[t].net = task.net /\ chain[t].txns = c.txns /\ calls[i].tx = t /\ calls[i].made < k
      /\ k \in 1..Len(c.txns) /\ c.txns[k].type = "deploy" /\ c.txns[k].name \in Name
  <2>1. chain[t].net = task.net /\ chain[t].txns = c.txns
    BY AwaitedDeploys
  <2>2. calls[i].tx = t /\ calls[i].made < k
    BY <1>1 DEF Awaited
  <2>3. k \in DOMAIN c.txns /\ c.txns[k].type = "deploy" /\ c.txns[k].name \in Name
    BY <2>1, DeploymentIs DEF IsDeployment
  <2> QED
    BY <1>4, <2>1, <2>2, <2>3
<1>7. CASE k = m
  <2>1. Recorded(c.txns[m].name, <<calls[i].tx, m>>)
    BY <1>6, <1>7 DEF RecordTx
  <2>2. [id |-> <<calls[i].tx, m>>, deleted |-> FALSE] \in Entry
    BY <1>3 DEF Entry, Id
  <2>3. PICK e \in Entry : mem' = Register(mem, task.net, c.txns[k].name, e)
    BY <1>7, <2>1, <2>2 DEF Recorded
  <2>4. Lookup(mem'.stripped, task.net, c.txns[k].name) = e
    BY <1>1, <1>6, <2>3, RegisterLooks DEF WithEntry
  <2>5. Lookup(mem'.stripped, task.net, c.txns[k].name) # Absent
    BY <2>4, AbsentAssumption
  <2> QED
    BY <1>1, <1>6, <2>5 DEF IsKept, StillRunning
<1>8. CASE k # m
  <2>1. k > m /\ m # Len(c.txns)
    <3>1. calls[i].made \in Nat /\ Len(c.txns) \in Nat
      BY <1>1, <1>4 DEF CallState
    <3> QED
      BY <1>6, <1>8, <3>1
  <2>2. calls'[i].step = "recording" /\ calls'[i].made < k /\ calls'[i].tx = t
    BY <1>3, <1>5, <1>6, <2>1
  <2> QED
    BY <1>5, <2>2 DEF IsKept
<1> QED
  BY <1>7, <1>8

LEMMA CallStepKept ==
    ASSUME Careful, Inv, Listed, NothingLost, NEW i \in DOMAIN calls, CallStep(i)
    PROVE  NothingLost'
BY RefuseKept, BeginKept, BeginOptInKept, MakeTxKept, AddCheckpointKVKept, SignLsigKept, SendKept,
   ConfirmedKept, RecordTxKept DEF CallStep

\* Without a script, all is in the files.
LEMMA IdleKept ==
    ASSUME Inv, NothingLost, script = NoScript, UNCHANGED <<files, chain>>
    PROVE  NothingLost'
<1>1. \A t, k : IsDeployment(t, k)' => InFile(t, k)'
  BY IdleFiled DEF IsDeployment, InFile
<1> QED
  BY <1>1 DEF NothingLost, IsKept, IsDeployment, InFile

LEMMA NextStageKept ==
    ASSUME Inv, NothingLost, NextStage
    PROVE  NothingLost'
<1>1. UNCHANGED <<files, chain, task, mem, script>> /\ \A i \in DOMAIN calls : calls[i].step = "done"
  BY DEF NextStage, StageDone
<1> QED
  BY <1>1 DEF NothingLost, IsKept

LEMMA ScriptReturnsKept ==
    ASSUME Inv, NothingLost, ScriptReturns
    PROVE  NothingLost'
<1>1. script # NoScript /\ \A i \in DOMAIN calls : calls[i].step = "done"
  BY DEF ScriptReturns, StageDone
<1>2. UNCHANGED chain /\ (Persisted \/ (~Writes /\ UNCHANGED files))
  BY <1>1 DEF ScriptReturns, Persisted
<1> QED
  BY <1>1, <1>2, EndsKept DEF Awaited

LEMMA NodeKept ==
    ASSUME Inv, NothingLost, NEW n \in DOMAIN chain, NodeConfirms(n) \/ NodeDrops(n)
    PROVE  NothingLost'
<1>1. UNCHANGED <<files, task, mem, script, calls>>
  BY DEF NodeConfirms, NodeDrops, local
<1>2. chain \in Seq(Batch) /\ chain[n] \in Batch
  BY DEF Inv, Types
<1>3. PICK status : chain' = [chain EXCEPT ![n] = [chain[n] EXCEPT !.status = status]]
  BY DEF NodeConfirms, NodeDrops
<1>4. PICK b : b = [chain[n] EXCEPT !.status = status]
  OBVIOUS
<1>5. b.net = chain[n].net /\ b.txns = chain[n].txns
  BY <1>2, <1>4 DEF Batch
<1>6. DOMAIN chain' = DOMAIN chain
      /\ \A t \in DOMAIN chain : chain'[t].net = chain[t].net /\ chain'[t].txns = chain[t].txns
  BY <1>2, <1>3, <1>4, <1>5
<1> QED
  BY <1>1, <1>6 DEF NothingLost, IsKept

LEMMA KeptNext ==
    ASSUME Careful, Inv, Listed, NothingLost, [Next]_vars
    PROVE  NothingLost'
<1>1. ASSUME NEW t \in Tasks, StartTask(t) PROVE NothingLost'
  <2>1. script = NoScript
    BY <1>1 DEF StartTask, Inv, Located
  <2>2. ~(t.mode = "deploy" /\ t.force)
    BY DEF Careful
  <2>3. UNCHANGED chain /\ UNCHANGED files
    BY <1>1, <2>2 DEF StartTask, Inv, Types
  <2> QED
    BY <2>1, <2>3, IdleKept
<1>2. NextScript => NothingLost'
  BY IdleKept DEF NextScript
<1>3. NextStage \/ ScriptReturns => NothingLost'
  BY NextStageKept, ScriptReturnsKept
<1>4. ASSUME NEW i \in DOMAIN calls, CallStep(i) PROVE NothingLost'
  BY <1>4, CallStepKept
<1>5. ASSUME NEW n \in DOMAIN chain, NodeConfirms(n) \/ NodeDrops(n) PROVE NothingLost'
  BY <1>5, NodeKept
<1>6. ASSUME NEW i \in DOMAIN calls PROVE ~NodeError(i) /\ ~AnswerLost(i)
  BY DEF Careful, NodeError, AnswerLost
<1>7. ~Crash
  BY DEF Careful, Crash
<1>8. UNCHANGED vars => NothingLost'
  BY DEF vars, local, NothingLost, IsKept
<1> QED
  BY <1>1, <1>2, <1>3, <1>4, <1>5, <1>6, <1>7, <1>8 DEF Next, Progress

\* Scripts that keep apart, and that catch the errors after which the deployer does not persist
\* what they have deployed, deploy each name once on each network, in whatever order they are
\* run, skipped and run again, as long as the network works, nobody kills the process, and
\* nobody forgets the files by --force (docs/guide/deployer.md:12).
THEOREM CarefulDeployOnce ==
    ASSUME Separate, Disjoint, OnceInGroup, Careful
    PROVE  Spec => []DeployedOnce
<1>1. Init => Listed /\ NothingLost
  BY DEF Init, Listed, NothingLost
<1>2. Inv /\ (Listed /\ NothingLost) /\ [Next]_vars => (Listed /\ NothingLost)'
  BY ListedNext, KeptNext
<1>3. Spec => []NothingLost
  BY <1>1, <1>2, InvAlways, PTL DEF Spec
<1> QED
  BY <1>3, OnlyLostTwice, PTL
=============================================================================
