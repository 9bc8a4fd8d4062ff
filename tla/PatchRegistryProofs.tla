------------------------- MODULE PatchRegistryProofs -------------------------
(***************************************************************************)
(* Theorems about PatchRegistry, for any hosts, menus, names and number of *)
(* patches.                                                                *)
(*                                                                         *)
(*   RegistryTypeCorrect   the type invariant                              *)
(*   RegistryInvHolds      the inductive invariant behind the others       *)
(*   NoDeadNamesHolds      no name is left to a patch that is gone         *)
(*   OneNameHolds          a live patch is found under one name            *)
(*   NamesAlwaysHold       the two together                                *)
(*   CancellableHolds      a live patch that runs has its parent token     *)
(*   AnnouncedHolds        the events add up to what is announced to do    *)
(***************************************************************************)
EXTENDS PatchRegistry, FiniteSetTheorems, TLAPS

\* Every variable keeps its type, and a call at a step that uses a patch or a
\* name has one.
THEOREM RegistryTypeCorrect == Spec => []TypeOK
<1> USE RegistryAssumption DEF Ids, NoId, Steps, IdSteps, NameSteps
<1>1. Init => TypeOK
  BY DEF Init, TypeOK
<1>2. TypeOK /\ [Next]_vars => TypeOK'
  <2> SUFFICES ASSUME TypeOK, [Next]_vars
               PROVE  TypeOK'
    OBVIOUS
  <2> USE DEF TypeOK, registry, Finish, Goto
  <2>1. ASSUME NEW c \in Callers, Add(c) PROVE TypeOK'
    <3>1. ASSUME NEW n \in Names \cup {NoName}, Reserve(c, n) PROVE TypeOK'
      BY <3>1 DEF Reserve
    <3>2. CASE Insert(c)
      BY <3>2 DEF Insert
    <3>. QED
      BY <2>1, <3>1, <3>2 DEF Add
  <2>2. ASSUME NEW c \in Callers, Rename(c) PROVE TypeOK'
    <3>1. ASSUME NEW i \in Ids, NEW n \in Names, CallRename(c, i, n) PROVE TypeOK'
      BY <3>1 DEF CallRename, Lookup
    <3>2. CASE NameTaken(c)
      BY <3>2 DEF NameTaken
    <3>3. CASE Index(c)
      BY <3>3 DEF Index, Without
    <3>4. CASE Recheck(c)
      BY <3>4 DEF Recheck
    <3>5. CASE Rollback(c)
      BY <3>5 DEF Rollback
    <3>6. CASE SetName(c)
      BY <3>6 DEF SetName
    <3>. QED
      BY <2>2, <3>1, <3>2, <3>3, <3>4, <3>5, <3>6 DEF Rename
  <2>3. ASSUME NEW c \in Callers, Remove(c) PROVE TypeOK'
    <3>1. ASSUME NEW i \in Ids, CallRemove(c, i) PROVE TypeOK'
      BY <3>1 DEF CallRemove, Lookup
    <3>2. CASE Teardown(c)
      BY <3>2 DEF Teardown
    <3>3. CASE Unmap(c)
      BY <3>3 DEF Unmap
    <3>4. CASE Unname(c)
      BY <3>4 DEF Unname, Without
    <3>5. CASE Untoken(c)
      BY <3>5 DEF Untoken
    <3>. QED
      BY <2>3, <3>1, <3>2, <3>3, <3>4, <3>5 DEF Remove
  <2>4. ASSUME NEW c \in Callers, Run(c) PROVE TypeOK'
    <3>1. ASSUME NEW i \in Ids, CallStart(c, i) \/ CallStop(c, i) \/ CallStartModule(c, i)
          PROVE  TypeOK'
      <4>1. CASE CallStart(c, i)
        BY <4>1 DEF CallStart, Lookup
      <4>2. CASE CallStop(c, i)
        BY <4>2 DEF CallStop, Lookup
      <4>3. CASE CallStartModule(c, i)
        BY <4>3 DEF CallStartModule
      <4>. QED
        BY <3>1, <4>1, <4>2, <4>3
    <3>2. CASE AlreadyRunning(c)
      BY <3>2 DEF AlreadyRunning
    <3>3. CASE Start(c)
      BY <3>3 DEF Start
    <3>4. CASE EmitStarted(c)
      BY <3>4 DEF EmitStarted
    <3>5. CASE Stop(c)
      <4> DEFINE d == id[c]
      <4>1. d \in Ids
        BY <3>5 DEF Stop
      <4>2. /\ running' \in [Ids -> BOOLEAN]
            /\ tokens' \in SUBSET Ids
        BY <3>5, <4>1 DEF Stop
      <4>3. /\ pc' \in [Callers -> Steps]
            /\ id' \in [Callers -> Ids \cup {NoId}]
            /\ name' \in [Callers -> Names \cup {NoName}]
        <5>1. CASE running[d]
          BY <3>5, <5>1 DEF Stop
        <5>2. CASE ~running[d]
          BY <3>5, <5>2 DEF Stop
        <5>. QED
          BY <5>1, <5>2
      <4>4. /\ \A e \in Callers : pc'[e] \in IdSteps => id'[e] \in Ids
            /\ \A e \in Callers : pc'[e] \in NameSteps => name'[e] \in Names
        <5>1. CASE running[d]
          BY <3>5, <5>1 DEF Stop
        <5>2. CASE ~running[d]
          BY <3>5, <5>2 DEF Stop
        <5>. QED
          BY <5>1, <5>2
      <4>. QED
        BY <3>5, <4>2, <4>3, <4>4 DEF Stop
    <3>6. CASE EmitStopped(c)
      BY <3>6 DEF EmitStopped
    <3>7. CASE NewSlot(c)
      BY <3>7 DEF NewSlot
    <3>. QED
      BY <2>4, <3>1, <3>2, <3>3, <3>4, <3>5, <3>6, <3>7 DEF Run
  <2>5. CASE UNCHANGED vars
    BY <2>5 DEF vars
  <2>. QED
    BY <2>1, <2>2, <2>3, <2>4, <2>5 DEF Next
<1>. QED
  BY <1>1, <1>2, PTL DEF Spec

-----------------------------------------------------------------------------
(* The inductive invariant                                                   *)

\* Ids come from a counter: nothing knows of an id that was not handed out, and
\* only the call that adds a patch knows of its id before the patch is in the map.
FreshIds ==
    /\ \A i \in Ids : i >= nextId =>
          /\ i \notin patches \cup modules
          /\ \A n \in Names : names[n] # i
          /\ \A c \in Callers : id[c] # i
          /\ ~running[i]
    /\ \A c \in Callers : pc[c] = "insert" =>
          /\ id[c] \notin patches \cup modules
          /\ ~running[id[c]]
          /\ \A d \in Callers : d # c => id[d] # id[c]

\* A removal that has taken the patch out of the map never sees it there again,
\* nor does a rename that found it gone.
Gone ==
    \A c \in Callers :
        pc[c] \in {"unname", "untoken", "rollback"} => id[c] \notin patches

\* A name of a patch that is not in the map is about to be cleared or justified:
\* by the add that inserts the patch, by a removal, or by the rename that
\* reserved this name and still has its re-check ahead.
Cleaner(c, n) ==
    /\ id[c] = names[n]
    /\ \/ pc[c] \in {"insert", "unname"}
       \/ pc[c] \in {"recheck", "rollback"} /\ name[c] = n

DeadNamesCleaned ==
    \A n \in Names :
        names[n] # NoId /\ names[n] \notin patches => \E c \in Callers : Cleaner(c, n)

\* The index never maps two names to one patch.
IndexInjective ==
    \A m, n \in Names : names[m] = names[n] /\ names[m] # NoId => m = n

\* The patch being added carries its reserved name, a rename past the index has
\* left its patch some name, and so has a live patch that carries one.
Named(i) == \E n \in Names : names[n] = i

KeepsName ==
    /\ \A c \in Callers : pc[c] = "insert" /\ nameOf[id[c]] # NoName => Named(id[c])
    /\ \A c \in Callers :
          pc[c] \in {"recheck", "setName"} /\ id[c] \in patches => Named(id[c])
    /\ \A i \in patches : nameOf[i] # NoName => Named(i)

RegistryInv ==
    FreshIds /\ Gone /\ DeadNamesCleaned /\ IndexInjective /\ KeepsName
        /\ RunningIsCancellable

\* A call that returns forgets its patch, and teaches nobody a new id.
LEMMA FinishFresh ==
  ASSUME TypeOK, FreshIds, NEW c \in Callers, Finish(c), UNCHANGED <<nextId, running>>,
         patches' \subseteq patches, modules' \subseteq modules,
         \A n \in Names : names'[n] \in {names[n], NoId}
  PROVE  FreshIds'
<1> USE DEF TypeOK, Ids, NoId, Finish
<1>1. ASSUME NEW i \in Ids, i >= nextId'
      PROVE  /\ i \notin patches' \cup modules'
             /\ \A n \in Names : names'[n] # i
             /\ \A d \in Callers : id'[d] # i
             /\ ~running'[i]
  BY <1>1 DEF FreshIds
<1>2. ASSUME NEW e \in Callers, pc'[e] = "insert"
      PROVE  /\ id'[e] \notin patches' \cup modules'
             /\ ~running'[id'[e]]
             /\ \A d \in Callers : d # e => id'[d] # id'[e]
  <2>1. e # c /\ pc[e] = "insert" /\ id'[e] = id[e] /\ id[e] \in Ids
    BY <1>2 DEF Steps, IdSteps
  <2>. QED
    BY <2>1 DEF FreshIds
<1>. QED
  BY <1>1, <1>2 DEF FreshIds


\* The invariant holds in every reachable state.
THEOREM RegistryInvHolds == Spec => []RegistryInv
<1> USE RegistryAssumption DEF Ids, NoId
<1>1. Init => RegistryInv
  BY DEF Init, RegistryInv, FreshIds, Gone, DeadNamesCleaned, IndexInjective, KeepsName,
         RunningIsCancellable
<1>2. TypeOK /\ RegistryInv /\ [Next]_vars => RegistryInv'
  <2> SUFFICES ASSUME TypeOK, RegistryInv, [Next]_vars
               PROVE  RegistryInv'
    OBVIOUS
  <2> USE DEF TypeOK, Steps, IdSteps, NameSteps, registry, Finish, Goto
  <2>1. ASSUME NEW c \in Callers, NEW n \in Names \cup {NoName}, Reserve(c, n)
        PROVE  RegistryInv'
    <3>1. FreshIds'
      BY <2>1 DEF Reserve, RegistryInv, FreshIds
    <3>2. Gone'
      BY <2>1 DEF Reserve, RegistryInv, Gone, FreshIds
    <3>3. DeadNamesCleaned'
      <4> SUFFICES ASSUME NEW m \in Names, names'[m] # NoId, names'[m] \notin patches'
                   PROVE  \E d \in Callers : Cleaner(d, m)'
        BY DEF DeadNamesCleaned
      <4>1. CASE m = n
        BY <2>1, <4>1 DEF Reserve, Cleaner
      <4>2. CASE m # n
        <5>1. names'[m] = names[m]
          BY <2>1, <4>2 DEF Reserve
        <5>2. PICK d \in Callers : Cleaner(d, m)
          BY <2>1, <5>1 DEF Reserve, RegistryInv, DeadNamesCleaned
        <5>3. d # c
          BY <2>1, <5>2 DEF Reserve, Cleaner
        <5>. QED
          BY <2>1, <5>1, <5>2, <5>3 DEF Reserve, Cleaner
      <4>. QED
        BY <4>1, <4>2
    <3>4. IndexInjective'
      BY <2>1 DEF Reserve, RegistryInv, IndexInjective, FreshIds
    <3>5. KeepsName'
      BY <2>1 DEF Reserve, RegistryInv, KeepsName, Named, Gone, FreshIds
    <3>6. RunningIsCancellable'
      BY <2>1 DEF Reserve, RegistryInv, RunningIsCancellable, Gone, FreshIds
    <3>. QED
      BY <3>1, <3>2, <3>3, <3>4, <3>5, <3>6 DEF RegistryInv
  <2>2. ASSUME NEW c \in Callers, Insert(c) PROVE RegistryInv'
    <3>1. FreshIds'
      <4>1. ASSUME NEW i \in Ids, i >= nextId'
            PROVE  /\ i \notin patches' \cup modules'
                   /\ \A n \in Names : names'[n] # i
                   /\ \A d \in Callers : id'[d] # i
                   /\ ~running'[i]
        BY <2>2, <4>1 DEF Insert, RegistryInv, FreshIds
      <4>2. ASSUME NEW e \in Callers, pc'[e] = "insert"
            PROVE  /\ id'[e] \notin patches' \cup modules'
                   /\ ~running'[id'[e]]
                   /\ \A d \in Callers : d # e => id'[d] # id'[e]
        <5>1. e # c /\ pc[e] = "insert" /\ id'[e] = id[e] /\ id[e] \in Ids
          BY <2>2, <4>2 DEF Insert
        <5>. QED
          BY <2>2, <5>1 DEF Insert, RegistryInv, FreshIds
      <4>. QED
        BY <4>1, <4>2 DEF FreshIds
    <3>2. Gone'
      BY <2>2 DEF Insert, RegistryInv, Gone, FreshIds
    <3>3. DeadNamesCleaned'
      BY <2>2 DEF Insert, RegistryInv, DeadNamesCleaned, Cleaner, FreshIds
    <3>4. IndexInjective'
      BY <2>2 DEF Insert, RegistryInv, IndexInjective, FreshIds
    <3>5. KeepsName'
      BY <2>2 DEF Insert, RegistryInv, KeepsName, Named, Gone, FreshIds
    <3>6. RunningIsCancellable'
      BY <2>2 DEF Insert, RegistryInv, RunningIsCancellable, Gone, FreshIds
    <3>. QED
      BY <3>1, <3>2, <3>3, <3>4, <3>5, <3>6 DEF RegistryInv
  <2>3. ASSUME NEW c \in Callers, NEW i \in Ids, NEW n \in Names, CallRename(c, i, n)
        PROVE  RegistryInv'
    <3>1. FreshIds'
      BY <2>3 DEF CallRename, Lookup, RegistryInv, FreshIds
    <3>2. Gone'
      BY <2>3 DEF CallRename, Lookup, RegistryInv, Gone, FreshIds
    <3>3. DeadNamesCleaned'
      BY <2>3 DEF CallRename, Lookup, RegistryInv, DeadNamesCleaned, Cleaner, FreshIds
    <3>4. IndexInjective'
      BY <2>3 DEF CallRename, Lookup, RegistryInv, IndexInjective, FreshIds
    <3>5. KeepsName'
      BY <2>3 DEF CallRename, Lookup, RegistryInv, KeepsName, Named, Gone, FreshIds
    <3>6. RunningIsCancellable'
      BY <2>3 DEF CallRename, Lookup, RegistryInv, RunningIsCancellable, Gone, FreshIds
    <3>. QED
      BY <3>1, <3>2, <3>3, <3>4, <3>5, <3>6 DEF RegistryInv
  <2>4. ASSUME NEW c \in Callers, NameTaken(c) PROVE RegistryInv'
    <3>1. FreshIds'
      BY <2>4, FinishFresh DEF NameTaken, RegistryInv
    <3>2. Gone'
      BY <2>4 DEF NameTaken, RegistryInv, Gone, FreshIds
    <3>3. DeadNamesCleaned'
      BY <2>4 DEF NameTaken, RegistryInv, DeadNamesCleaned, Cleaner, FreshIds
    <3>4. IndexInjective'
      BY <2>4 DEF NameTaken, RegistryInv, IndexInjective, FreshIds
    <3>5. KeepsName'
      BY <2>4 DEF NameTaken, RegistryInv, KeepsName, Named, Gone, FreshIds
    <3>6. RunningIsCancellable'
      BY <2>4 DEF NameTaken, RegistryInv, RunningIsCancellable, Gone, FreshIds
    <3>. QED
      BY <3>1, <3>2, <3>3, <3>4, <3>5, <3>6 DEF RegistryInv
  <2>5. ASSUME NEW c \in Callers, Index(c) PROVE RegistryInv'
    <3>1. FreshIds'
      BY <2>5 DEF Index, Without, RegistryInv, FreshIds
    <3>2. Gone'
      BY <2>5 DEF Index, Without, RegistryInv, Gone, FreshIds
    <3>3. DeadNamesCleaned'
      <4> SUFFICES ASSUME NEW m \in Names, names'[m] # NoId, names'[m] \notin patches'
                   PROVE  \E d \in Callers : Cleaner(d, m)'
        BY DEF DeadNamesCleaned
      <4>1. CASE m = name[c]
        BY <2>5, <4>1 DEF Index, Without, Cleaner
      <4>2. CASE m # name[c]
        <5>1. names'[m] = names[m]
          BY <2>5, <4>2 DEF Index, Without
        <5>2. PICK d \in Callers : Cleaner(d, m)
          BY <2>5, <5>1 DEF Index, RegistryInv, DeadNamesCleaned
        <5>3. d # c
          BY <2>5, <5>2 DEF Index, Cleaner
        <5>. QED
          BY <2>5, <5>1, <5>2, <5>3 DEF Index, Cleaner
      <4>. QED
        BY <4>1, <4>2
    <3>4. IndexInjective'
      BY <2>5 DEF Index, Without, RegistryInv, IndexInjective, FreshIds
    <3>5. KeepsName'
      BY <2>5 DEF Index, Without, RegistryInv, KeepsName, Named, Gone, FreshIds
    <3>6. RunningIsCancellable'
      BY <2>5 DEF Index, Without, RegistryInv, RunningIsCancellable, Gone, FreshIds
    <3>. QED
      BY <3>1, <3>2, <3>3, <3>4, <3>5, <3>6 DEF RegistryInv
  <2>6. ASSUME NEW c \in Callers, Recheck(c) PROVE RegistryInv'
    <3>1. FreshIds'
      BY <2>6 DEF Recheck, RegistryInv, FreshIds
    <3>2. Gone'
      BY <2>6 DEF Recheck, RegistryInv, Gone, FreshIds
    <3>3. DeadNamesCleaned'
      <4> SUFFICES ASSUME NEW m \in Names, names'[m] # NoId, names'[m] \notin patches'
                   PROVE  \E d \in Callers : Cleaner(d, m)'
        BY DEF DeadNamesCleaned
      <4>1. PICK d \in Callers : Cleaner(d, m)
        BY <2>6 DEF Recheck, RegistryInv, DeadNamesCleaned
      <4>. QED
        BY <2>6, <4>1 DEF Recheck, Cleaner
    <3>4. IndexInjective'
      BY <2>6 DEF Recheck, RegistryInv, IndexInjective, FreshIds
    <3>5. KeepsName'
      BY <2>6 DEF Recheck, RegistryInv, KeepsName, Named, Gone, FreshIds
    <3>6. RunningIsCancellable'
      BY <2>6 DEF Recheck, RegistryInv, RunningIsCancellable, Gone, FreshIds
    <3>. QED
      BY <3>1, <3>2, <3>3, <3>4, <3>5, <3>6 DEF RegistryInv
  <2>7. ASSUME NEW c \in Callers, Rollback(c) PROVE RegistryInv'
    <3>1. FreshIds'
      BY <2>7, FinishFresh DEF Rollback, RegistryInv
    <3>2. Gone'
      BY <2>7 DEF Rollback, RegistryInv, Gone, FreshIds
    <3>3. DeadNamesCleaned'
      <4> SUFFICES ASSUME NEW m \in Names, names'[m] # NoId, names'[m] \notin patches'
                   PROVE  \E d \in Callers : Cleaner(d, m)'
        BY DEF DeadNamesCleaned
      <4>1. names'[m] = names[m] /\ (m = name[c] => names[m] # id[c])
        BY <2>7 DEF Rollback
      <4>2. PICK d \in Callers : Cleaner(d, m)
        BY <2>7, <4>1 DEF Rollback, RegistryInv, DeadNamesCleaned
      <4>3. d # c
        BY <2>7, <4>1, <4>2 DEF Rollback, Cleaner
      <4>. QED
        BY <2>7, <4>1, <4>2, <4>3 DEF Rollback, Cleaner
    <3>4. IndexInjective'
      BY <2>7 DEF Rollback, RegistryInv, IndexInjective, FreshIds
    <3>5. KeepsName'
      BY <2>7 DEF Rollback, RegistryInv, KeepsName, Named, Gone, FreshIds
    <3>6. RunningIsCancellable'
      BY <2>7 DEF Rollback, RegistryInv, RunningIsCancellable, Gone, FreshIds
    <3>. QED
      BY <3>1, <3>2, <3>3, <3>4, <3>5, <3>6 DEF RegistryInv
  <2>8. ASSUME NEW c \in Callers, SetName(c) PROVE RegistryInv'
    <3>1. FreshIds'
      BY <2>8, FinishFresh DEF SetName, RegistryInv
    <3>2. Gone'
      BY <2>8 DEF SetName, RegistryInv, Gone, FreshIds
    <3>3. DeadNamesCleaned'
      BY <2>8 DEF SetName, RegistryInv, DeadNamesCleaned, Cleaner, FreshIds
    <3>4. IndexInjective'
      BY <2>8 DEF SetName, RegistryInv, IndexInjective, FreshIds
    <3>5. KeepsName'
      BY <2>8 DEF SetName, RegistryInv, KeepsName, Named, Gone, FreshIds
    <3>6. RunningIsCancellable'
      BY <2>8 DEF SetName, RegistryInv, RunningIsCancellable, Gone, FreshIds
    <3>. QED
      BY <3>1, <3>2, <3>3, <3>4, <3>5, <3>6 DEF RegistryInv
  <2>9. ASSUME NEW c \in Callers, NEW i \in Ids, CallRemove(c, i) PROVE RegistryInv'
    <3>1. FreshIds'
      BY <2>9 DEF CallRemove, Lookup, RegistryInv, FreshIds
    <3>2. Gone'
      BY <2>9 DEF CallRemove, Lookup, RegistryInv, Gone, FreshIds
    <3>3. DeadNamesCleaned'
      BY <2>9 DEF CallRemove, Lookup, RegistryInv, DeadNamesCleaned, Cleaner, FreshIds
    <3>4. IndexInjective'
      BY <2>9 DEF CallRemove, Lookup, RegistryInv, IndexInjective, FreshIds
    <3>5. KeepsName'
      BY <2>9 DEF CallRemove, Lookup, RegistryInv, KeepsName, Named, Gone, FreshIds
    <3>6. RunningIsCancellable'
      BY <2>9 DEF CallRemove, Lookup, RegistryInv, RunningIsCancellable, Gone, FreshIds
    <3>. QED
      BY <3>1, <3>2, <3>3, <3>4, <3>5, <3>6 DEF RegistryInv
  <2>10. ASSUME NEW c \in Callers, Teardown(c) PROVE RegistryInv'
    <3>1. FreshIds'
      BY <2>10 DEF Teardown, RegistryInv, FreshIds
    <3>2. Gone'
      BY <2>10 DEF Teardown, RegistryInv, Gone, FreshIds
    <3>3. DeadNamesCleaned'
      BY <2>10 DEF Teardown, RegistryInv, DeadNamesCleaned, Cleaner, FreshIds
    <3>4. IndexInjective'
      BY <2>10 DEF Teardown, RegistryInv, IndexInjective, FreshIds
    <3>5. KeepsName'
      BY <2>10 DEF Teardown, RegistryInv, KeepsName, Named, Gone, FreshIds
    <3>6. RunningIsCancellable'
      BY <2>10 DEF Teardown, RegistryInv, RunningIsCancellable, Gone, FreshIds
    <3>. QED
      BY <3>1, <3>2, <3>3, <3>4, <3>5, <3>6 DEF RegistryInv
  <2>11. ASSUME NEW c \in Callers, Unmap(c) PROVE RegistryInv'
    <3>1. FreshIds'
      BY <2>11 DEF Unmap, RegistryInv, FreshIds
    <3>2. Gone'
      BY <2>11 DEF Unmap, RegistryInv, Gone, FreshIds
    <3>3. DeadNamesCleaned'
      BY <2>11 DEF Unmap, RegistryInv, DeadNamesCleaned, Cleaner, FreshIds
    <3>4. IndexInjective'
      BY <2>11 DEF Unmap, RegistryInv, IndexInjective, FreshIds
    <3>5. KeepsName'
      BY <2>11 DEF Unmap, RegistryInv, KeepsName, Named, Gone, FreshIds
    <3>6. RunningIsCancellable'
      BY <2>11 DEF Unmap, RegistryInv, RunningIsCancellable, Gone, FreshIds
    <3>. QED
      BY <3>1, <3>2, <3>3, <3>4, <3>5, <3>6 DEF RegistryInv
  <2>12. ASSUME NEW c \in Callers, Unname(c) PROVE RegistryInv'
    <3>1. FreshIds'
      BY <2>12 DEF Unname, Without, RegistryInv, FreshIds
    <3>2. Gone'
      BY <2>12 DEF Unname, Without, RegistryInv, Gone, FreshIds
    <3>3. DeadNamesCleaned'
      BY <2>12 DEF Unname, Without, RegistryInv, DeadNamesCleaned, Cleaner, FreshIds
    <3>4. IndexInjective'
      BY <2>12 DEF Unname, Without, RegistryInv, IndexInjective, FreshIds
    <3>5. KeepsName'
      BY <2>12 DEF Unname, Without, RegistryInv, KeepsName, Named, Gone, FreshIds
    <3>6. RunningIsCancellable'
      BY <2>12 DEF Unname, Without, RegistryInv, RunningIsCancellable, Gone, FreshIds
    <3>. QED
      BY <3>1, <3>2, <3>3, <3>4, <3>5, <3>6 DEF RegistryInv
  <2>13. ASSUME NEW c \in Callers, Untoken(c) PROVE RegistryInv'
    <3>1. FreshIds'
      BY <2>13, FinishFresh DEF Untoken, RegistryInv
    <3>2. Gone'
      BY <2>13 DEF Untoken, RegistryInv, Gone, FreshIds
    <3>3. DeadNamesCleaned'
      BY <2>13 DEF Untoken, RegistryInv, DeadNamesCleaned, Cleaner, FreshIds
    <3>4. IndexInjective'
      BY <2>13 DEF Untoken, RegistryInv, IndexInjective, FreshIds
    <3>5. KeepsName'
      BY <2>13 DEF Untoken, RegistryInv, KeepsName, Named, Gone, FreshIds
    <3>6. RunningIsCancellable'
      BY <2>13 DEF Untoken, RegistryInv, RunningIsCancellable, Gone, FreshIds
    <3>. QED
      BY <3>1, <3>2, <3>3, <3>4, <3>5, <3>6 DEF RegistryInv
  <2>14. ASSUME NEW c \in Callers, NEW i \in Ids, CallStart(c, i) PROVE RegistryInv'
    <3>1. FreshIds'
      BY <2>14 DEF CallStart, Lookup, RegistryInv, FreshIds
    <3>2. Gone'
      BY <2>14 DEF CallStart, Lookup, RegistryInv, Gone, FreshIds
    <3>3. DeadNamesCleaned'
      BY <2>14 DEF CallStart, Lookup, RegistryInv, DeadNamesCleaned, Cleaner, FreshIds
    <3>4. IndexInjective'
      BY <2>14 DEF CallStart, Lookup, RegistryInv, IndexInjective, FreshIds
    <3>5. KeepsName'
      BY <2>14 DEF CallStart, Lookup, RegistryInv, KeepsName, Named, Gone, FreshIds
    <3>6. RunningIsCancellable'
      BY <2>14 DEF CallStart, Lookup, RegistryInv, RunningIsCancellable, Gone, FreshIds
    <3>. QED
      BY <3>1, <3>2, <3>3, <3>4, <3>5, <3>6 DEF RegistryInv
  <2>15. ASSUME NEW c \in Callers, NEW i \in Ids, CallStop(c, i) PROVE RegistryInv'
    <3>1. FreshIds'
      BY <2>15 DEF CallStop, Lookup, RegistryInv, FreshIds
    <3>2. Gone'
      BY <2>15 DEF CallStop, Lookup, RegistryInv, Gone, FreshIds
    <3>3. DeadNamesCleaned'
      BY <2>15 DEF CallStop, Lookup, RegistryInv, DeadNamesCleaned, Cleaner, FreshIds
    <3>4. IndexInjective'
      BY <2>15 DEF CallStop, Lookup, RegistryInv, IndexInjective, FreshIds
    <3>5. KeepsName'
      BY <2>15 DEF CallStop, Lookup, RegistryInv, KeepsName, Named, Gone, FreshIds
    <3>6. RunningIsCancellable'
      BY <2>15 DEF CallStop, Lookup, RegistryInv, RunningIsCancellable, Gone, FreshIds
    <3>. QED
      BY <3>1, <3>2, <3>3, <3>4, <3>5, <3>6 DEF RegistryInv
  <2>16. ASSUME NEW c \in Callers, NEW i \in Ids, CallStartModule(c, i)
         PROVE  RegistryInv'
    <3>1. FreshIds'
      BY <2>16 DEF CallStartModule, RegistryInv, FreshIds
    <3>2. Gone'
      BY <2>16 DEF CallStartModule, RegistryInv, Gone, FreshIds
    <3>3. DeadNamesCleaned'
      BY <2>16 DEF CallStartModule, RegistryInv, DeadNamesCleaned, Cleaner, FreshIds
    <3>4. IndexInjective'
      BY <2>16 DEF CallStartModule, RegistryInv, IndexInjective, FreshIds
    <3>5. KeepsName'
      BY <2>16 DEF CallStartModule, RegistryInv, KeepsName, Named, Gone, FreshIds
    <3>6. RunningIsCancellable'
      BY <2>16 DEF CallStartModule, RegistryInv, RunningIsCancellable, Gone, FreshIds
    <3>. QED
      BY <3>1, <3>2, <3>3, <3>4, <3>5, <3>6 DEF RegistryInv
  <2>17. ASSUME NEW c \in Callers, AlreadyRunning(c) PROVE RegistryInv'
    <3>1. FreshIds'
      BY <2>17, FinishFresh DEF AlreadyRunning, RegistryInv
    <3>2. Gone'
      BY <2>17 DEF AlreadyRunning, RegistryInv, Gone, FreshIds
    <3>3. DeadNamesCleaned'
      BY <2>17 DEF AlreadyRunning, RegistryInv, DeadNamesCleaned, Cleaner, FreshIds
    <3>4. IndexInjective'
      BY <2>17 DEF AlreadyRunning, RegistryInv, IndexInjective, FreshIds
    <3>5. KeepsName'
      BY <2>17 DEF AlreadyRunning, RegistryInv, KeepsName, Named, Gone, FreshIds
    <3>6. RunningIsCancellable'
      BY <2>17 DEF AlreadyRunning, RegistryInv, RunningIsCancellable, Gone, FreshIds
    <3>. QED
      BY <3>1, <3>2, <3>3, <3>4, <3>5, <3>6 DEF RegistryInv
  <2>18. ASSUME NEW c \in Callers, Start(c) PROVE RegistryInv'
    <3>1. FreshIds'
      BY <2>18 DEF Start, RegistryInv, FreshIds
    <3>2. Gone'
      BY <2>18 DEF Start, RegistryInv, Gone, FreshIds
    <3>3. DeadNamesCleaned'
      BY <2>18 DEF Start, RegistryInv, DeadNamesCleaned, Cleaner, FreshIds
    <3>4. IndexInjective'
      BY <2>18 DEF Start, RegistryInv, IndexInjective, FreshIds
    <3>5. KeepsName'
      BY <2>18 DEF Start, RegistryInv, KeepsName, Named, Gone, FreshIds
    <3>6. RunningIsCancellable'
      BY <2>18 DEF Start, RegistryInv, RunningIsCancellable, Gone, FreshIds
    <3>. QED
      BY <3>1, <3>2, <3>3, <3>4, <3>5, <3>6 DEF RegistryInv
  <2>19. ASSUME NEW c \in Callers, EmitStarted(c) PROVE RegistryInv'
    <3>1. FreshIds'
      BY <2>19, FinishFresh DEF EmitStarted, RegistryInv
    <3>2. Gone'
      BY <2>19 DEF EmitStarted, RegistryInv, Gone, FreshIds
    <3>3. DeadNamesCleaned'
      BY <2>19 DEF EmitStarted, RegistryInv, DeadNamesCleaned, Cleaner, FreshIds
    <3>4. IndexInjective'
      BY <2>19 DEF EmitStarted, RegistryInv, IndexInjective, FreshIds
    <3>5. KeepsName'
      BY <2>19 DEF EmitStarted, RegistryInv, KeepsName, Named, Gone, FreshIds
    <3>6. RunningIsCancellable'
      BY <2>19 DEF EmitStarted, RegistryInv, RunningIsCancellable, Gone, FreshIds
    <3>. QED
      BY <3>1, <3>2, <3>3, <3>4, <3>5, <3>6 DEF RegistryInv
  <2>20. ASSUME NEW c \in Callers, Stop(c) PROVE RegistryInv'
    <3>1. FreshIds'
      <4> DEFINE i == id[c]
      <4>1. i \in Ids /\ pc[c] = "stop"
        BY <2>20 DEF Stop
      <4>2. running' = [running EXCEPT ![i] = FALSE] /\ UNCHANGED <<nextId, patches, names, modules>>
        BY <2>20 DEF Stop
      <4>3. \A d \in Callers : id'[d] \in {id[d], NoId} /\ (pc'[d] = "insert" => pc[d] = "insert" /\ id'[d] = id[d])
        <5>1. CASE running[i]
          BY <2>20, <5>1 DEF Stop
        <5>2. CASE ~running[i]
          BY <2>20, <5>2 DEF Stop
        <5>. QED
          BY <5>1, <5>2
      <4>. HIDE DEF i
      <4>4. ASSUME NEW j \in Ids, j >= nextId'
            PROVE  /\ j \notin patches' \cup modules'
                   /\ \A n \in Names : names'[n] # j
                   /\ \A d \in Callers : id'[d] # j
                   /\ ~running'[j]
        BY <4>1, <4>2, <4>3, <4>4 DEF RegistryInv, FreshIds
      <4>5. ASSUME NEW e \in Callers, pc'[e] = "insert"
            PROVE  /\ id'[e] \notin patches' \cup modules'
                   /\ ~running'[id'[e]]
                   /\ \A d \in Callers : d # e => id'[d] # id'[e]
        BY <4>1, <4>2, <4>3, <4>5 DEF RegistryInv, FreshIds
      <4>. QED
        BY <4>4, <4>5 DEF FreshIds
    <3>2. Gone'
      BY <2>20 DEF Stop, RegistryInv, Gone, FreshIds
    <3>3. DeadNamesCleaned'
      <4> SUFFICES ASSUME NEW m \in Names, names'[m] # NoId, names'[m] \notin patches'
                   PROVE  \E d \in Callers : Cleaner(d, m)'
        BY DEF DeadNamesCleaned
      <4>1. PICK d \in Callers : Cleaner(d, m)
        BY <2>20 DEF Stop, RegistryInv, DeadNamesCleaned
      <4>2. d # c
        BY <2>20, <4>1 DEF Stop, Cleaner
      <4>. QED
        BY <2>20, <4>1, <4>2 DEF Stop, Cleaner
    <3>4. IndexInjective'
      BY <2>20 DEF Stop, RegistryInv, IndexInjective, FreshIds
    <3>5. KeepsName'
      <4>1. \A d \in Callers : pc'[d] \in {"insert", "recheck", "setName"} =>
               pc'[d] = pc[d] /\ id'[d] = id[d]
        <5>1. CASE running[id[c]]
          BY <2>20, <5>1 DEF Stop
        <5>2. CASE ~running[id[c]]
          BY <2>20, <5>2 DEF Stop
        <5>. QED
          BY <5>1, <5>2
      <4>2. UNCHANGED <<patches, names, nameOf>>
        BY <2>20 DEF Stop
      <4>3. KeepsName
        BY DEF RegistryInv
      <4>4. \A i : Named(i)' <=> Named(i)
        BY <4>2 DEF Named
      <4>5. ASSUME NEW d \in Callers, pc'[d] = "insert", nameOf'[id'[d]] # NoName
            PROVE  Named(id[d])
        BY <4>1, <4>2, <4>3, <4>5 DEF KeepsName
      <4>6. ASSUME NEW d \in Callers, pc'[d] \in {"recheck", "setName"},
                   id'[d] \in patches'
            PROVE  Named(id[d])
        BY <4>1, <4>2, <4>3, <4>6 DEF KeepsName
      <4>7. \A i \in patches' : nameOf'[i] # NoName => Named(i)
        BY <4>2, <4>3 DEF KeepsName
      <4>8. ASSUME NEW d \in Callers, pc'[d] \in {"insert", "recheck", "setName"}
            PROVE  id'[d] = id[d]
        BY <4>1, <4>8
      <4>. QED
        BY <4>4, <4>5, <4>6, <4>7, <4>8 DEF KeepsName
    <3>6. RunningIsCancellable'
      BY <2>20 DEF Stop, RegistryInv, RunningIsCancellable, Gone, FreshIds
    <3>. QED
      BY <3>1, <3>2, <3>3, <3>4, <3>5, <3>6 DEF RegistryInv
  <2>21. ASSUME NEW c \in Callers, EmitStopped(c) PROVE RegistryInv'
    <3>1. FreshIds'
      BY <2>21, FinishFresh DEF EmitStopped, RegistryInv
    <3>2. Gone'
      BY <2>21 DEF EmitStopped, RegistryInv, Gone, FreshIds
    <3>3. DeadNamesCleaned'
      BY <2>21 DEF EmitStopped, RegistryInv, DeadNamesCleaned, Cleaner, FreshIds
    <3>4. IndexInjective'
      BY <2>21 DEF EmitStopped, RegistryInv, IndexInjective, FreshIds
    <3>5. KeepsName'
      BY <2>21 DEF EmitStopped, RegistryInv, KeepsName, Named, Gone, FreshIds
    <3>6. RunningIsCancellable'
      BY <2>21 DEF EmitStopped, RegistryInv, RunningIsCancellable, Gone, FreshIds
    <3>. QED
      BY <3>1, <3>2, <3>3, <3>4, <3>5, <3>6 DEF RegistryInv
  <2>22. ASSUME NEW c \in Callers, NewSlot(c) PROVE RegistryInv'
    <3>1. FreshIds'
      BY <2>22, FinishFresh DEF NewSlot, RegistryInv
    <3>2. Gone'
      BY <2>22 DEF NewSlot, RegistryInv, Gone, FreshIds
    <3>3. DeadNamesCleaned'
      BY <2>22 DEF NewSlot, RegistryInv, DeadNamesCleaned, Cleaner, FreshIds
    <3>4. IndexInjective'
      BY <2>22 DEF NewSlot, RegistryInv, IndexInjective, FreshIds
    <3>5. KeepsName'
      BY <2>22 DEF NewSlot, RegistryInv, KeepsName, Named, Gone, FreshIds
    <3>6. RunningIsCancellable'
      BY <2>22 DEF NewSlot, RegistryInv, RunningIsCancellable, Gone, FreshIds
    <3>. QED
      BY <3>1, <3>2, <3>3, <3>4, <3>5, <3>6 DEF RegistryInv
  <2>23. CASE UNCHANGED vars
    BY <2>23 DEF vars, RegistryInv, FreshIds, Gone, DeadNamesCleaned, Cleaner,
       IndexInjective,
           KeepsName, Named, RunningIsCancellable
  <2>. QED
    BY <2>1, <2>2, <2>3, <2>4, <2>5, <2>6, <2>7, <2>8, <2>9, <2>10, <2>11, <2>12,
       <2>13, <2>14, <2>15, <2>16, <2>17, <2>18, <2>19, <2>20, <2>21, <2>22, <2>23 DEF
       Next, Add, Rename, Remove, Run
<1>. QED
  BY <1>1, <1>2, RegistryTypeCorrect, PTL DEF Spec

-----------------------------------------------------------------------------

\* The re-check of rename_patch and the clean-up of remove_patch together leave
\* no name to a patch that is gone, whichever of them comes last.
THEOREM NoDeadNamesHolds == Spec => []NoDeadNames
<1>1. RegistryInv => NoDeadNames
  BY DEF RegistryInv, DeadNamesCleaned, Cleaner, NoDeadNames, Quiet
<1>. QED
  BY <1>1, RegistryInvHolds, PTL

\* A patch is found under at most one name, and a named live patch under one.
THEOREM OneNameHolds == Spec => []OneName
<1>1. TypeOK /\ RegistryInv => OneName
  <2> SUFFICES ASSUME TypeOK, RegistryInv, NEW i \in patches
               PROVE  /\ \A m, n \in Names : names[m] = i /\ names[n] = i => m = n
                      /\ nameOf[i] # NoName => \E n \in Names : names[n] = i
    BY DEF OneName
  <2>1. i # NoId
    BY DEF TypeOK, Ids, NoId
  <2>. QED
    BY <2>1 DEF RegistryInv, IndexInjective, KeepsName, Named
<1>. QED
  BY <1>1, RegistryTypeCorrect, RegistryInvHolds, PTL

\* stop_patch always finds the parent token of a live patch that runs.
THEOREM CancellableHolds == Spec => []RunningIsCancellable
<1>1. RegistryInv => RunningIsCancellable
  BY DEF RegistryInv
<1>. QED
  BY <1>1, RegistryInvHolds, PTL

\* Names and live patches go together.
THEOREM NamesAlwaysHold == Spec => []NamesHold
<1>1. NoDeadNames /\ OneName => NamesHold
  BY DEF NamesHold
<1>. QED
  BY <1>1, NoDeadNamesHolds, OneNameHolds, PTL

-----------------------------------------------------------------------------
(* The events                                                                *)

\* The calls that are about to announce something of patch i.
Pending(step, i) == {c \in Callers : pc[c] = step /\ id[c] = i}

\* What the events come to when those calls have announced theirs.
Balance(i) ==
    announced[i] + Cardinality(Pending("started", i)) - Cardinality(Pending("stopped", i))

BeingRemoved(i) == \E c \in Callers : pc[c] = "unmap" /\ id[c] = i

\* The events of a live patch that nobody tears down come to its running flag,
\* and of a patch that is not live yet there are none.
Announcing ==
    /\ \A i \in patches : ~BeingRemoved(i) => Balance(i) = IF running[i] THEN 1 ELSE 0
    /\ \A i \in Ids : i >= nextId => announced[i] = 0
    /\ \A c \in Callers : pc[c] = "insert" => announced[id[c]] = 0

LEMMA PendingFinite == \A step, i : /\ IsFiniteSet(Pending(step, i))
                                    /\ Cardinality(Pending(step, i)) \in Nat
<1>. TAKE step, i
<1>1. Pending(step, i) \subseteq Callers
  BY DEF Pending
<1>2. IsFiniteSet(Pending(step, i))
  BY <1>1, FiniteCallers, FS_Subset
<1>. QED
  BY <1>2, FS_CardinalityType

\* A call that neither comes to nor leaves an announcement changes no balance.
LEMMA BalanceKept ==
  ASSUME NEW c \in Callers,
         \A d \in Callers : d # c => pc'[d] = pc[d] /\ id'[d] = id[d],
         pc[c] \notin {"started", "stopped"}, pc'[c] \notin {"started", "stopped"},
         announced' = announced
  PROVE  \A i : Balance(i)' = Balance(i)
<1>. TAKE i
<1>1. /\ Pending("started", i)' = Pending("started", i)
      /\ Pending("stopped", i)' = Pending("stopped", i)
  BY DEF Pending
<1>. QED
  BY <1>1 DEF Balance

\* A call comes to an announcement of its patch, or leaves it behind.
LEMMA PendingGrows ==
  ASSUME NEW c \in Callers, NEW step, NEW i,
         \A d \in Callers : d # c => pc'[d] = pc[d] /\ id'[d] = id[d],
         pc[c] # step, pc'[c] = step, id'[c] = i
  PROVE  /\ Cardinality(Pending(step, i)') = Cardinality(Pending(step, i)) + 1
         /\ \A j : j # i => Pending(step, j)' = Pending(step, j)
<1>1. Pending(step, i)' = Pending(step, i) \cup {c} /\ c \notin Pending(step, i)
  BY DEF Pending
<1>2. \A j : j # i => Pending(step, j)' = Pending(step, j)
  BY DEF Pending
<1>3. IsFiniteSet(Pending(step, i))
  BY PendingFinite
<1>. HIDE DEF Pending
<1>. QED
  BY <1>1, <1>2, <1>3, FS_AddElement, ZenonT(30)

LEMMA PendingShrinks ==
  ASSUME NEW c \in Callers, NEW step, NEW i,
         \A d \in Callers : d # c => pc'[d] = pc[d] /\ id'[d] = id[d],
         pc[c] = step, id[c] = i, pc'[c] # step
  PROVE  /\ Cardinality(Pending(step, i)') = Cardinality(Pending(step, i)) - 1
         /\ \A j : j # i => Pending(step, j)' = Pending(step, j)
<1>1. Pending(step, i)' = Pending(step, i) \ {c} /\ c \in Pending(step, i)
  BY DEF Pending
<1>2. \A j : j # i => Pending(step, j)' = Pending(step, j)
  BY DEF Pending
<1>3. IsFiniteSet(Pending(step, i))
  BY PendingFinite
<1>. HIDE DEF Pending
<1>. QED
  BY <1>1, <1>2, <1>3, FS_RemoveElement

\* Whatever is under way, the events of a live patch add up.
THEOREM AnnouncingHolds == Spec => []Announcing
<1> USE RegistryAssumption DEF Ids, NoId
<1>1. Init => Announcing
  BY DEF Init, Announcing
<1>2. TypeOK /\ TypeOK' /\ RegistryInv /\ Announcing /\ [Next]_vars => Announcing'
  <2> SUFFICES ASSUME TypeOK, TypeOK', RegistryInv, Announcing, [Next]_vars
               PROVE  Announcing'
    OBVIOUS
  <2> USE DEF Steps, IdSteps, NameSteps, registry, Finish, Goto
  <2>0. /\ nextId \in Nat /\ nextId >= 1 /\ patches \subseteq Ids
        /\ pc \in [Callers -> Steps] /\ id \in [Callers -> Ids \cup {NoId}]
        /\ announced \in [Ids -> Int] /\ running \in [Ids -> BOOLEAN]
        /\ \A c \in Callers : pc[c] # "idle" => id[c] \in Ids
    BY DEF TypeOK
  \* the calls that change neither announcements, events nor running flags
  <2>1. ASSUME NEW c \in Callers,
               \A d \in Callers : d # c => pc'[d] = pc[d] /\ id'[d] = id[d],
               pc[c] \notin {"started", "stopped"}, pc'[c] \notin {"started", "stopped", "insert"},
               pc[c] # "unmap", announced' = announced, running' = running,
               nextId' = nextId, patches' \subseteq patches
        PROVE  Announcing'
    <3>1. \A i : Balance(i)' = Balance(i)
      BY <2>1, BalanceKept
    <3>2. \A i \in patches' : BeingRemoved(i) => BeingRemoved(i)'
      BY <2>1 DEF BeingRemoved
    <3>3. \A d \in Callers : pc'[d] = "insert" => d # c
      BY <2>1
    <3>. QED
      BY <2>1, <3>1, <3>2, <3>3 DEF Announcing
  <2>2. ASSUME NEW c \in Callers, NEW n \in Names \cup {NoName}, Reserve(c, n)
        PROVE  Announcing'
    <3>1. /\ \A d \in Callers : d # c => pc'[d] = pc[d] /\ id'[d] = id[d]
          /\ pc[c] = "idle" /\ pc'[c] = "insert" /\ id'[c] = nextId /\ nextId \in Ids
          /\ nextId' = nextId + 1 /\ UNCHANGED <<announced, running, patches>>
      BY <2>2, <2>0 DEF Reserve
    <3>2. \A i : Balance(i)' = Balance(i)
      BY <3>1, BalanceKept
    <3>3. \A i \in patches' : BeingRemoved(i) => BeingRemoved(i)'
      BY <3>1 DEF BeingRemoved
    <3>4. \A d \in Callers : pc'[d] = "insert" => announced'[id'[d]] = 0
      <4> SUFFICES ASSUME NEW d \in Callers, pc'[d] = "insert" PROVE announced'[id'[d]] = 0
        OBVIOUS
      <4>1. CASE d = c
        BY <4>1, <3>1, <2>0 DEF Announcing
      <4>2. CASE d # c
        BY <4>2, <3>1 DEF Announcing
      <4>. QED
        BY <4>1, <4>2
    <3>5. \A i \in Ids : i >= nextId' => announced'[i] = 0
      BY <3>1, <2>0 DEF Announcing
    <3>. QED
      BY <3>1, <3>2, <3>3, <3>4, <3>5 DEF Announcing
  <2>3. ASSUME NEW c \in Callers, Insert(c) PROVE Announcing'
    <3>1. /\ \A d \in Callers : d # c => pc'[d] = pc[d] /\ id'[d] = id[d]
          /\ pc[c] = "insert" /\ pc'[c] = "idle" /\ id[c] \in Ids
          /\ patches' = patches \cup {id[c]} /\ UNCHANGED <<announced, running, nextId>>
      BY <2>3, <2>0 DEF Insert
    <3>2. \A i : Balance(i)' = Balance(i)
      BY <3>1, BalanceKept
    <3>3. \A i \in patches' : BeingRemoved(i) => BeingRemoved(i)'
      BY <3>1 DEF BeingRemoved
    <3>4. ASSUME NEW i \in Ids, i = id[c] PROVE Balance(i) = 0 /\ ~running[i]
      <4>1. \A d \in Callers : d # c => id[d] # i
        BY <3>1, <3>4 DEF RegistryInv, FreshIds
      <4>2. Pending("started", i) = {} /\ Pending("stopped", i) = {}
        BY <3>1, <4>1 DEF Pending
      <4>3. ~running[i] /\ announced[i] = 0
        BY <3>1, <3>4 DEF RegistryInv, FreshIds, Announcing
      <4>. QED
        BY <4>2, <4>3, FS_EmptySet DEF Balance
    <3>5. ASSUME NEW i \in patches', ~BeingRemoved(i)'
          PROVE  Balance(i)' = IF running'[i] THEN 1 ELSE 0
      <4>1. CASE i = id[c]
        BY <3>1, <3>2, <3>4, <4>1
      <4>2. CASE i # id[c]
        BY <3>1, <3>2, <3>3, <3>5, <4>2 DEF Announcing
      <4>. QED
        BY <4>1, <4>2
    <3>6. \A d \in Callers : pc'[d] = "insert" => d # c
      BY <3>1
    <3>. QED
      BY <3>1, <3>5, <3>6 DEF Announcing
  <2>4. ASSUME NEW c \in Callers, Rename(c) PROVE Announcing'
    <3>1. ASSUME NEW i \in Ids, NEW n \in Names, CallRename(c, i, n) PROVE Announcing'
      BY <3>1, <2>0, <2>1 DEF CallRename, Lookup
    <3>2. CASE NameTaken(c) \/ Index(c)
      BY <3>2, <2>0, <2>1 DEF NameTaken, Index
    <3>3. CASE Recheck(c)
      BY <3>3, <2>0, <2>1 DEF Recheck
    <3>4. CASE Rollback(c) \/ SetName(c)
      BY <3>4, <2>0, <2>1 DEF Rollback, SetName
    <3>. QED
      BY <2>4, <3>1, <3>2, <3>3, <3>4 DEF Rename
  <2>5. ASSUME NEW c \in Callers, Teardown(c) PROVE Announcing'
    <3>1. /\ \A d \in Callers : d # c => pc'[d] = pc[d] /\ id'[d] = id[d]
          /\ pc[c] = "teardown" /\ pc'[c] = "unmap" /\ id'[c] = id[c] /\ id[c] \in Ids
          /\ running' = [running EXCEPT ![id[c]] = FALSE]
          /\ UNCHANGED <<announced, nextId, patches>>
      BY <2>5, <2>0 DEF Teardown
    <3>2. \A i : Balance(i)' = Balance(i)
      BY <3>1, BalanceKept
    <3>3. BeingRemoved(id[c])' /\ \A i \in patches' : BeingRemoved(i) => BeingRemoved(i)'
      BY <3>1 DEF BeingRemoved
    <3>4. \A i \in Ids : i # id[c] => running'[i] = running[i]
      BY <3>1, <2>0
    <3>5. \A d \in Callers : pc'[d] = "insert" => d # c
      BY <3>1
    <3>. QED
      BY <3>1, <3>2, <3>3, <3>4, <3>5, <2>0 DEF Announcing
  <2>6. ASSUME NEW c \in Callers, Unmap(c) PROVE Announcing'
    <3>1. /\ \A d \in Callers : d # c => pc'[d] = pc[d] /\ id'[d] = id[d]
          /\ pc[c] = "unmap" /\ pc'[c] = "unname"
          /\ patches' = patches \ {id[c]} /\ UNCHANGED <<announced, nextId, running>>
      BY <2>6, <2>0 DEF Unmap
    <3>2. \A i : Balance(i)' = Balance(i)
      BY <3>1, BalanceKept
    <3>3. \A i \in patches' : BeingRemoved(i) => BeingRemoved(i)'
      BY <3>1 DEF BeingRemoved
    <3>4. \A d \in Callers : pc'[d] = "insert" => d # c
      BY <3>1
    <3>. QED
      BY <3>1, <3>2, <3>3, <3>4 DEF Announcing
  <2>7. ASSUME NEW c \in Callers, NEW i \in Ids, CallRemove(c, i) PROVE Announcing'
    BY <2>7, <2>0, <2>1 DEF CallRemove, Lookup
  <2>8. ASSUME NEW c \in Callers, Unname(c) \/ Untoken(c) PROVE Announcing'
    BY <2>8, <2>0, <2>1 DEF Unname, Untoken
  <2>9. ASSUME NEW c \in Callers, NEW i \in Ids,
               CallStart(c, i) \/ CallStop(c, i) \/ CallStartModule(c, i)
        PROVE  Announcing'
    BY <2>9, <2>0, <2>1 DEF CallStart, CallStop, CallStartModule, Lookup
  <2>10. ASSUME NEW c \in Callers, AlreadyRunning(c) \/ NewSlot(c) PROVE Announcing'
    BY <2>10, <2>0, <2>1 DEF AlreadyRunning, NewSlot
  \* for the calls that do: only the patch of the call is concerned
  <2>11. ASSUME NEW c \in Callers, NEW i \in Ids, id[c] = i,
                \A d \in Callers : d # c => pc'[d] = pc[d] /\ id'[d] = id[d],
                pc[c] \notin {"idle", "insert", "unmap"}, pc'[c] # "insert",
                UNCHANGED <<nextId, patches>>,
                \A j \in Ids : j # i => /\ Balance(j)' = Balance(j)
                                        /\ running'[j] = running[j]
                                        /\ announced'[j] = announced[j],
                (Balance(i) = IF running[i] THEN 1 ELSE 0) =>
                    Balance(i)' = IF running'[i] THEN 1 ELSE 0
         PROVE  Announcing'
    <3>1. \A j \in patches' : BeingRemoved(j) => BeingRemoved(j)'
      BY <2>11 DEF BeingRemoved
    <3>2. ASSUME NEW j \in patches', ~BeingRemoved(j)'
          PROVE  Balance(j)' = IF running'[j] THEN 1 ELSE 0
      <4>1. j \in patches /\ j \in Ids /\ ~BeingRemoved(j)
        BY <2>0, <2>11, <3>1, <3>2
      <4>2. Balance(j) = IF running[j] THEN 1 ELSE 0
        BY <4>1 DEF Announcing
      <4>3. CASE j = i
        BY <2>11, <4>2, <4>3
      <4>4. CASE j # i
        BY <2>11, <4>1, <4>2, <4>4
      <4>. QED
        BY <4>3, <4>4
    <3>3. \A j \in Ids : j >= nextId' => announced'[j] = 0
      BY <2>0, <2>11 DEF Announcing, RegistryInv, FreshIds
    <3>4. ASSUME NEW d \in Callers, pc'[d] = "insert" PROVE announced'[id'[d]] = 0
      <4>1. d # c /\ pc[d] = "insert" /\ id'[d] = id[d] /\ id[d] \in Ids
        BY <2>0, <2>11, <3>4
      <4>2. id[d] # i
        BY <2>11, <4>1 DEF RegistryInv, FreshIds
      <4>. QED
        BY <2>11, <4>1, <4>2 DEF Announcing
    <3>. QED
      BY <3>2, <3>3, <3>4 DEF Announcing
  <2>12. \A i \in Ids : /\ Cardinality(Pending("started", i)) \in Nat
                        /\ Cardinality(Pending("stopped", i)) \in Nat
    BY PendingFinite
  <2>13. ASSUME NEW c \in Callers, NEW i \in Ids, id[c] = i, Start(c) PROVE Announcing'
    <3>1. /\ \A d \in Callers : d # c => pc'[d] = pc[d] /\ id'[d] = id[d]
          /\ pc[c] = "start" /\ pc'[c] = "started" /\ id'[c] = i
          /\ running' = [running EXCEPT ![i] = TRUE] /\ ~running[i]
          /\ UNCHANGED <<announced, nextId, patches>>
      BY <2>13, <2>0 DEF Start
    <3>2. /\ Cardinality(Pending("started", i)') = Cardinality(Pending("started", i)) + 1
          /\ \A j \in Ids : j # i => Pending("started", j)' = Pending("started", j)
          /\ \A j \in Ids : Pending("stopped", j)' = Pending("stopped", j)
      <4>1. \A j \in Ids : Pending("stopped", j)' = Pending("stopped", j)
        BY <3>1 DEF Pending
      <4>. QED
        BY <3>1, <4>1, PendingGrows
    <3>3. Balance(i)' = Balance(i) + 1
      <4>1. announced'[i] = announced[i] /\ announced[i] \in Int
        BY <2>0, <3>1
      <4>. HIDE DEF Ids
      <4>. QED
        BY <2>12, <3>2, <4>1 DEF Balance
    <3>4. ASSUME NEW j \in Ids, j # i
          PROVE  Balance(j)' = Balance(j) /\ running'[j] = running[j] /\ announced'[j] = announced[j]
      <4>1. running'[j] = running[j] /\ announced'[j] = announced[j]
        BY <2>0, <3>1, <3>4
      <4>. QED
        BY <3>2, <3>4, <4>1 DEF Balance
    <3>5. ~running[i] /\ running'[i]
      BY <2>0, <3>1
    <3>6. (Balance(i) = IF running[i] THEN 1 ELSE 0) => Balance(i)' = IF running'[i] THEN 1 ELSE 0
      BY <3>3, <3>5
    <3>. QED
      BY <2>11, <2>13, <3>1, <3>4, <3>6
  <2>14. ASSUME NEW c \in Callers, NEW i \in Ids, id[c] = i, EmitStarted(c) PROVE Announcing'
    <3>1. /\ \A d \in Callers : d # c => pc'[d] = pc[d] /\ id'[d] = id[d]
          /\ pc[c] = "started" /\ pc'[c] = "idle"
          /\ announced' = [announced EXCEPT ![i] = @ + 1]
          /\ UNCHANGED <<running, nextId, patches>>
      BY <2>14, <2>0 DEF EmitStarted
    <3>2. /\ Cardinality(Pending("started", i)') = Cardinality(Pending("started", i)) - 1
          /\ \A j \in Ids : j # i => Pending("started", j)' = Pending("started", j)
          /\ \A j \in Ids : Pending("stopped", j)' = Pending("stopped", j)
      <4>1. \A j \in Ids : Pending("stopped", j)' = Pending("stopped", j)
        BY <3>1 DEF Pending
      <4>2. /\ Cardinality(Pending("started", i)') = Cardinality(Pending("started", i)) - 1
            /\ \A j : j # i => Pending("started", j)' = Pending("started", j)
        <5>1. pc'[c] # "started"
          BY <3>1
        <5>. QED
          BY <2>14, <3>1, <5>1, PendingShrinks
      <4>. QED
        BY <4>1, <4>2
    <3>3. ASSUME NEW j \in Ids PROVE Balance(j)' = Balance(j)
      <4>1. CASE j = i
        <5>1. announced'[i] = announced[i] + 1 /\ announced[i] \in Int
          BY <2>0, <3>1
        <5>. HIDE DEF Ids
        <5>. QED
          BY <2>12, <3>2, <4>1, <5>1 DEF Balance
      <4>2. CASE j # i
        <5>1. announced'[j] = announced[j]
          BY <2>0, <3>1, <4>2
        <5>. QED
          BY <3>2, <4>2, <5>1 DEF Balance
      <4>. QED
        BY <4>1, <4>2
    <3>4. \A j \in Ids : j # i => announced'[j] = announced[j]
      BY <2>0, <3>1
    <3>. QED
      BY <2>11, <2>14, <3>1, <3>3, <3>4
  <2>15. ASSUME NEW c \in Callers, NEW i \in Ids, id[c] = i, Stop(c) PROVE Announcing'
    <3>1. /\ \A d \in Callers : d # c => pc'[d] = pc[d] /\ id'[d] = id[d]
          /\ pc[c] = "stop" /\ pc'[c] = IF running[i] THEN "stopped" ELSE "idle"
          /\ running[i] => id'[c] = i
          /\ running' = [running EXCEPT ![i] = FALSE]
          /\ UNCHANGED <<announced, nextId, patches>>
      BY <2>15, <2>0 DEF Stop
    <3>2. CASE running[i]
      <4>1. /\ Cardinality(Pending("stopped", i)') = Cardinality(Pending("stopped", i)) + 1
            /\ \A j \in Ids : j # i => Pending("stopped", j)' = Pending("stopped", j)
            /\ \A j \in Ids : Pending("started", j)' = Pending("started", j)
        <5>1. \A j \in Ids : Pending("started", j)' = Pending("started", j)
          BY <3>1, <3>2 DEF Pending
        <5>. QED
          BY <3>1, <3>2, <5>1, PendingGrows
      <4>2. Balance(i)' = Balance(i) - 1
        <5>1. announced'[i] = announced[i] /\ announced[i] \in Int
          BY <2>0, <3>1
        <5>. HIDE DEF Ids
        <5>. QED
          BY <2>12, <4>1, <5>1 DEF Balance
      <4>3. ASSUME NEW j \in Ids, j # i
            PROVE  Balance(j)' = Balance(j) /\ running'[j] = running[j] /\ announced'[j] = announced[j]
        <5>1. running'[j] = running[j] /\ announced'[j] = announced[j]
          BY <2>0, <3>1, <4>3
        <5>. QED
          BY <4>1, <4>3, <5>1 DEF Balance
      <4>4. ~running'[i]
        BY <2>0, <3>1
      <4>5. (Balance(i) = IF running[i] THEN 1 ELSE 0) => Balance(i)' = IF running'[i] THEN 1 ELSE 0
        BY <3>2, <4>2, <4>4
      <4>6. pc[c] \notin {"idle", "insert", "unmap"} /\ pc'[c] # "insert"
        BY <3>1, <3>2
      <4>. QED
        BY <2>11, <2>15, <3>1, <4>3, <4>5, <4>6
    <3>3. CASE ~running[i]
      BY <2>0, <2>1, <3>1, <3>3
    <3>. QED
      BY <3>2, <3>3
  <2>16. ASSUME NEW c \in Callers, NEW i \in Ids, id[c] = i, EmitStopped(c) PROVE Announcing'
    <3>1. /\ \A d \in Callers : d # c => pc'[d] = pc[d] /\ id'[d] = id[d]
          /\ pc[c] = "stopped" /\ pc'[c] = "idle"
          /\ announced' = [announced EXCEPT ![i] = @ - 1]
          /\ UNCHANGED <<running, nextId, patches>>
      BY <2>16, <2>0 DEF EmitStopped
    <3>2. /\ Cardinality(Pending("stopped", i)') = Cardinality(Pending("stopped", i)) - 1
          /\ \A j \in Ids : j # i => Pending("stopped", j)' = Pending("stopped", j)
          /\ \A j \in Ids : Pending("started", j)' = Pending("started", j)
      <4>1. \A j \in Ids : Pending("started", j)' = Pending("started", j)
        BY <3>1 DEF Pending
      <4>2. /\ Cardinality(Pending("stopped", i)') = Cardinality(Pending("stopped", i)) - 1
            /\ \A j : j # i => Pending("stopped", j)' = Pending("stopped", j)
        <5>1. pc'[c] # "stopped"
          BY <3>1
        <5>. QED
          BY <2>16, <3>1, <5>1, PendingShrinks
      <4>. QED
        BY <4>1, <4>2
    <3>3. ASSUME NEW j \in Ids PROVE Balance(j)' = Balance(j)
      <4>1. CASE j = i
        <5>1. announced'[i] = announced[i] - 1 /\ announced[i] \in Int
          BY <2>0, <3>1
        <5>. HIDE DEF Ids
        <5>. QED
          BY <2>12, <3>2, <4>1, <5>1 DEF Balance
      <4>2. CASE j # i
        <5>1. announced'[j] = announced[j]
          BY <2>0, <3>1, <4>2
        <5>. QED
          BY <3>2, <4>2, <5>1 DEF Balance
      <4>. QED
        BY <4>1, <4>2
    <3>4. \A j \in Ids : j # i => announced'[j] = announced[j]
      BY <2>0, <3>1
    <3>. QED
      BY <2>11, <2>16, <3>1, <3>3, <3>4
  <2>17. ASSUME NEW c \in Callers, Run(c) PROVE Announcing'
    <3>1. Start(c) \/ EmitStarted(c) \/ Stop(c) \/ EmitStopped(c) => id[c] \in Ids
      BY <2>0 DEF Start, EmitStarted, Stop, EmitStopped
    <3>. QED
      BY <2>9, <2>10, <2>13, <2>14, <2>15, <2>16, <2>17, <3>1 DEF Run
  <2>18. CASE UNCHANGED vars
    BY <2>18 DEF vars, Announcing, Balance, Pending, BeingRemoved
  <2>. QED
    BY <2>2, <2>3, <2>4, <2>5, <2>6, <2>7, <2>8, <2>17, <2>18 DEF Next, Add, Remove
<1>. QED
  BY <1>1, <1>2, RegistryTypeCorrect, RegistryInvHolds, PTL DEF Spec

\* Every transition of a live patch is announced once.
THEOREM AnnouncedHolds == Spec => []TransitionsAnnounced
<1>1. TypeOK /\ Announcing => TransitionsAnnounced
  <2> SUFFICES ASSUME TypeOK, Announcing, Quiet, NEW i \in patches
               PROVE  announced[i] = IF running[i] THEN 1 ELSE 0
    BY DEF TransitionsAnnounced
  <2>1. ~BeingRemoved(i) /\ Pending("started", i) = {} /\ Pending("stopped", i) = {}
    BY DEF Quiet, BeingRemoved, Pending
  <2>2. announced[i] \in Int
    BY DEF TypeOK
  <2>3. Balance(i) = announced[i]
    BY <2>1, <2>2, FS_EmptySet DEF Balance
  <2>. QED
    BY <2>1, <2>3 DEF Announcing
<1>. QED
  BY <1>1, RegistryTypeCorrect, AnnouncingHolds, PTL
=============================================================================
