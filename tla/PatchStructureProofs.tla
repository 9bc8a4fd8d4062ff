------------------------ MODULE PatchStructureProofs ------------------------
(***************************************************************************)
(* Theorems about PatchStructure, for any callers, bounds and connections. *)
(*                                                                         *)
(*   StructureTypeCorrect      the type invariant: who holds what          *)
(*   StructureInvHolds         the inductive invariant behind the others   *)
(*   DrawnIsRoutedHolds        what a spec draws is routed                 *)
(*   RoutedIsDrawnHolds        what is routed is drawn                     *)
(*   InstancesListedHolds      a spec lists the instances of its patch     *)
(*   FailuresLeaveNothingHolds the ids of failed calls are nowhere         *)
(*   DrawnAsRoutedHolds        specs and routes agree                      *)
(*   NothingIsOutOfReach       specs and instances agree                   *)
(*                                                                         *)
(* The invariant has four parts, each kept by every step given the ones    *)
(* before it: HomeInv says which patch everything belongs to, WireInv that *)
(* specs and routes agree, AllListed that specs and instances do, KnownInv *)
(* whose hands the ids are in that no host has been told of.               *)
(***************************************************************************)
EXTENDS PatchStructure, TLAPS

\* Every step keeps the type of every variable.
LEMMA TypesNext ==
    ASSUME TypeOK, [Next]_vars
    PROVE  Types'
<1> USE StructureAssumption DEF Patches, Ids, NoPatch, NoId, Steps, TypeOK, Types, Handles,
    Goto, idVars, specVars, mapVars, batchVars, callVars
<1>1. ASSUME NEW c \in Callers, AddPatch(c) PROVE Types'
  <2>1. nextPatch \in Patches /\ patches' = patches \cup {nextPatch} /\ nextPatch' = nextPatch + 1
    BY <1>1 DEF AddPatch
  <2>2. PICK n \in 0 .. MaxBatch :
          /\ NewIds(n) \subseteq Ids
          /\ \E defined \in SUBSET NewIds(n), ws \in SUBSET WiresIn(NewIds(n)) :
                /\ listed' = [listed EXCEPT ![nextPatch] = NewIds(n)]
                /\ drawn' = [drawn EXCEPT ![nextPatch] = ws]
                /\ modules' = modules \cup defined
                /\ routes' = routes \cup ws
          /\ home' = [i \in Ids |-> IF i \in NewIds(n) THEN nextPatch ELSE home[i]]
          /\ known' = known \cup NewIds(n)
          /\ nextId' = nextId + n
    BY <1>1 DEF AddPatch
  <2>3. nextId' \in 1 .. MaxModules + 1
    <3>1. CASE n = 0
      BY <2>2, <3>1
    <3>2. CASE n > 0
      <4>1. nextId + n - 1 \in NewIds(n)
        BY <3>2 DEF NewIds
      <4> QED
        BY <2>2, <4>1
    <3> QED
      BY <3>1, <3>2
  <2>4. /\ listed' \in [Patches -> SUBSET Ids] /\ modules' \subseteq Ids
        /\ drawn' \in [Patches -> SUBSET Wires] /\ routes' \subseteq Wires
    <3>1. PICK defined \in SUBSET NewIds(n), ws \in SUBSET WiresIn(NewIds(n)) :
            /\ listed' = [listed EXCEPT ![nextPatch] = NewIds(n)]
            /\ drawn' = [drawn EXCEPT ![nextPatch] = ws]
            /\ modules' = modules \cup defined
            /\ routes' = routes \cup ws
      BY <2>2
    <3>2. ws \in SUBSET Wires
      BY DEF WiresIn
    <3> QED
      BY <2>1, <2>2, <3>1, <3>2
  <2>5. home' \in [Ids -> Patches \cup {NoPatch}] /\ known' \subseteq Ids
    BY <2>1, <2>2
  <2> QED
    BY <1>1, <2>1, <2>3, <2>4, <2>5 DEF AddPatch
<1>2. ASSUME NEW c \in Callers, NEW p \in patches, CallAddModule(c, p) PROVE Types'
  BY <1>2 DEF CallAddModule, Find
<1>3. ASSUME NEW c \in Callers, NEW p \in patches, CallRemovePatch(c, p) PROVE Types'
  BY <1>3 DEF CallRemovePatch, Find
<1>4. ASSUME NEW c \in Callers, NEW p \in patches, NEW w \in Wires, CallConnect(c, p, w)
      PROVE  Types'
  BY <1>4 DEF CallConnect, Find, WiresIn, Members
<1>5. ASSUME NEW c \in Callers, NEW p \in patches, NEW w \in Wires, CallDisconnect(c, p, w)
      PROVE  Types'
  BY <1>5 DEF CallDisconnect, Find
<1>6. ASSUME NEW c \in Callers, NEW p \in patches, NEW m \in Ids, CallRemoveModule(c, p, m)
      PROVE  Types'
  BY <1>6 DEF CallRemoveModule, Find, Members
<1>7. ASSUME NEW c \in Callers, NEW p \in patches, NEW n \in 1 .. MaxBatch, NEW ws \in
             SUBSET Wires, CallBatch(c, p, n, ws)
      PROVE  Types'
  <2>1. nextId' \in 1 .. MaxModules + 1
    <3>1. nextId + n - 1 \in NewIds(n)
      BY DEF NewIds
    <3> QED
      BY <1>7, <3>1 DEF CallBatch
  <2>2. NewIds(n) \in SUBSET Ids /\ ws \in SUBSET Wires
    BY <1>7 DEF CallBatch
  <2> QED
    BY <1>7, <2>1, <2>2 DEF CallBatch
<1>8. ASSUME NEW c \in Callers, Create(c) PROVE Types'
  BY <1>8 DEF Create
<1>9. ASSUME NEW c \in Callers, CreateFails(c) PROVE Types'
  BY <1>9 DEF CreateFails, Finish
<1>10. ASSUME NEW c \in Callers, List(c) PROVE Types'
  BY <1>10 DEF List, Finish
<1>11. ASSUME NEW c \in Callers, Connect(c) PROVE Types'
  <2>1. CASE links[c] \subseteq routes
    BY <1>11, <2>1 DEF Connect, Finish
  <2>2. CASE ~(links[c] \subseteq routes)
    <3>1. patch[c] \in Patches /\ links[c] \in SUBSET Wires
      BY <1>11 DEF Connect
    <3>2. routes' \subseteq Wires /\ drawn' \in [Patches -> SUBSET Wires]
      <4>1. /\ routes' = routes \cup links[c]
            /\ drawn' = [drawn EXCEPT ![patch[c]] = @ \cup links[c]]
        BY <1>11, <2>2 DEF Connect
      <4>2. drawn[patch[c]] \cup links[c] \in SUBSET Wires
        BY <3>1
      <4> QED
        BY <3>1, <4>1, <4>2
    <3> QED
      BY <1>11, <3>2 DEF Connect, Finish
  <2> QED
    BY <2>1, <2>2
<1>12. ASSUME NEW c \in Callers, Disconnect(c) PROVE Types'
  BY <1>12 DEF Disconnect, Finish
<1>13. ASSUME NEW c \in Callers, Cut(c) PROVE Types'
  BY <1>13 DEF Cut
<1>14. ASSUME NEW c \in Callers, StopFails(c) PROVE Types'
  BY <1>14, ZenonT(30) DEF StopFails, Finish, Locked
<1>15. ASSUME NEW c \in Callers, Drop(c) PROVE Types'
  BY <1>15 DEF Drop, Locked
<1>16. ASSUME NEW c \in Callers, Unlist(c) PROVE Types'
  BY <1>16 DEF Unlist, Finish
<1>17. ASSUME NEW c \in Callers, LockPatch(c) PROVE Types'
  BY <1>17 DEF LockPatch, CanLock
<1>18. ASSUME NEW c \in Callers, Untie(c) PROVE Types'
  BY <1>18 DEF Untie
<1>19. ASSUME NEW c \in Callers, Unmap(c) PROVE Types'
  BY <1>19 DEF Unmap, Finish
<1>20. ASSUME NEW c \in Callers, LockBatch(c) PROVE Types'
  BY <1>20 DEF LockBatch, CanLock
<1>21. ASSUME NEW c \in Callers, MakeFails(c) PROVE Types'
  BY <1>21 DEF MakeFails
<1>22. ASSUME NEW c \in Callers, LayFails(c) PROVE Types'
  BY <1>22 DEF LayFails
<1>23. ASSUME NEW c \in Callers, BatchDone(c) PROVE Types'
  BY <1>23 DEF BatchDone, Finish
<1>24. ASSUME NEW c \in Callers, Undo(c) PROVE Types'
  BY <1>24 DEF Undo, TakeBack, Finish
<1>25. ASSUME NEW c \in Callers, NEW m \in todo[c], Teardown(c, m) PROVE Types'
  BY <1>25 DEF Teardown
<1>26. ASSUME NEW c \in Callers, NEW m \in todo[c], Make(c, m) PROVE Types'
  BY <1>26 DEF Make
<1>27. ASSUME NEW c \in Callers, NEW w \in links[c], Lay(c, w) PROVE Types'
  BY <1>27 DEF Lay
<1>28. CASE UNCHANGED vars
  BY <1>28 DEF vars
<1> QED
  BY <1>1, <1>2, <1>3, <1>4, <1>5, <1>6, <1>7, <1>8, <1>9, <1>10, <1>11, <1>12, <1>13,
      <1>14, <1>15, <1>16, <1>17, <1>18, <1>19, <1>20, <1>21, <1>22, <1>23, <1>24, <1>25,
      <1>26, <1>27, <1>28 DEF Next, Call, Continue

\* Every step leaves a call in progress the patch and the module it needs.
LEMMA HandlesNext ==
    ASSUME TypeOK, [Next]_vars
    PROVE  Handles'
<1> USE StructureAssumption DEF Patches, Ids, NoPatch, NoId, TypeOK, Types, Handles, Goto,
    idVars, specVars, mapVars, batchVars, callVars
<1>1. ASSUME NEW c \in Callers, AddPatch(c) PROVE Handles'
  BY <1>1 DEF AddPatch, NewIds, WiresIn
<1>2. ASSUME NEW c \in Callers, NEW p \in patches, CallAddModule(c, p) PROVE Handles'
  BY <1>2 DEF CallAddModule, Find
<1>3. ASSUME NEW c \in Callers, NEW p \in patches, CallRemovePatch(c, p) PROVE Handles'
  BY <1>3 DEF CallRemovePatch, Find
<1>4. ASSUME NEW c \in Callers, NEW p \in patches, NEW w \in Wires, CallConnect(c, p, w)
      PROVE  Handles'
  BY <1>4 DEF CallConnect, Find, WiresIn, Members
<1>5. ASSUME NEW c \in Callers, NEW p \in patches, NEW w \in Wires, CallDisconnect(c, p, w)
      PROVE  Handles'
  BY <1>5 DEF CallDisconnect, Find
<1>6. ASSUME NEW c \in Callers, NEW p \in patches, NEW m \in Ids, CallRemoveModule(c, p, m)
      PROVE  Handles'
  BY <1>6 DEF CallRemoveModule, Find, Members
<1>7. ASSUME NEW c \in Callers, NEW p \in patches, NEW n \in 1 .. MaxBatch, NEW ws \in
             SUBSET Wires, CallBatch(c, p, n, ws)
      PROVE  Handles'
  BY <1>7 DEF CallBatch, NewIds, WiresIn, Members
<1>8. ASSUME NEW c \in Callers, Create(c) PROVE Handles'
  BY <1>8 DEF Create
<1>9. ASSUME NEW c \in Callers, CreateFails(c) PROVE Handles'
  BY <1>9 DEF CreateFails, Finish
<1>10. ASSUME NEW c \in Callers, List(c) PROVE Handles'
  BY <1>10 DEF List, Finish
<1>11. ASSUME NEW c \in Callers, Connect(c) PROVE Handles'
  BY <1>11 DEF Connect, Finish
<1>12. ASSUME NEW c \in Callers, Disconnect(c) PROVE Handles'
  BY <1>12 DEF Disconnect, Finish
<1>13. ASSUME NEW c \in Callers, Cut(c) PROVE Handles'
  BY <1>13 DEF Cut
<1>14. ASSUME NEW c \in Callers, StopFails(c) PROVE Handles'
  BY <1>14 DEF StopFails, Finish, Locked
<1>15. ASSUME NEW c \in Callers, Drop(c) PROVE Handles'
  BY <1>15 DEF Drop, Locked
<1>16. ASSUME NEW c \in Callers, Unlist(c) PROVE Handles'
  BY <1>16 DEF Unlist, Finish
<1>17. ASSUME NEW c \in Callers, LockPatch(c) PROVE Handles'
  BY <1>17 DEF LockPatch, CanLock
<1>18. ASSUME NEW c \in Callers, Untie(c) PROVE Handles'
  BY <1>18 DEF Untie
<1>19. ASSUME NEW c \in Callers, Unmap(c) PROVE Handles'
  BY <1>19 DEF Unmap, Finish
<1>20. ASSUME NEW c \in Callers, LockBatch(c) PROVE Handles'
  BY <1>20 DEF LockBatch, CanLock
<1>21. ASSUME NEW c \in Callers, MakeFails(c) PROVE Handles'
  BY <1>21 DEF MakeFails
<1>22. ASSUME NEW c \in Callers, LayFails(c) PROVE Handles'
  BY <1>22 DEF LayFails
<1>23. ASSUME NEW c \in Callers, BatchDone(c) PROVE Handles'
  BY <1>23 DEF BatchDone, Finish
<1>24. ASSUME NEW c \in Callers, Undo(c) PROVE Handles'
  BY <1>24 DEF Undo, TakeBack, Finish
<1>25. ASSUME NEW c \in Callers, NEW m \in todo[c], Teardown(c, m) PROVE Handles'
  BY <1>25 DEF Teardown
<1>26. ASSUME NEW c \in Callers, NEW m \in todo[c], Make(c, m) PROVE Handles'
  BY <1>26 DEF Make
<1>27. ASSUME NEW c \in Callers, NEW w \in links[c], Lay(c, w) PROVE Handles'
  BY <1>27 DEF Lay
<1>28. CASE UNCHANGED vars
  BY <1>28 DEF vars
<1> QED
  BY <1>1, <1>2, <1>3, <1>4, <1>5, <1>6, <1>7, <1>8, <1>9, <1>10, <1>11, <1>12, <1>13,
      <1>14, <1>15, <1>16, <1>17, <1>18, <1>19, <1>20, <1>21, <1>22, <1>23, <1>24, <1>25,
      <1>26, <1>27, <1>28 DEF Next, Call, Continue

\* No step leaves the lock of a patch with a call that has gone elsewhere.
LEMMA HoldersNext ==
    ASSUME TypeOK, [Next]_vars
    PROVE  Holders'
<1> USE StructureAssumption DEF TypeOK, Types, Handles, Holders, Goto, idVars, specVars,
    mapVars, batchVars, callVars
<1>1. ASSUME NEW c \in Callers, AddPatch(c) PROVE Holders'
  BY <1>1 DEF AddPatch, NewIds, WiresIn
<1>2. ASSUME NEW c \in Callers, NEW p \in patches, CallAddModule(c, p) PROVE Holders'
  BY <1>2 DEF CallAddModule, Find
<1>3. ASSUME NEW c \in Callers, NEW p \in patches, CallRemovePatch(c, p) PROVE Holders'
  BY <1>3 DEF CallRemovePatch, Find
<1>4. ASSUME NEW c \in Callers, NEW p \in patches, NEW w \in Wires, CallConnect(c, p, w)
      PROVE  Holders'
  BY <1>4 DEF CallConnect, Find, WiresIn, Members
<1>5. ASSUME NEW c \in Callers, NEW p \in patches, NEW w \in Wires, CallDisconnect(c, p, w)
      PROVE  Holders'
  BY <1>5 DEF CallDisconnect, Find
<1>6. ASSUME NEW c \in Callers, NEW p \in patches, NEW m \in Ids, CallRemoveModule(c, p, m)
      PROVE  Holders'
  BY <1>6 DEF CallRemoveModule, Find, Members
<1>7. ASSUME NEW c \in Callers, NEW p \in patches, NEW n \in 1 .. MaxBatch, NEW ws \in
             SUBSET Wires, CallBatch(c, p, n, ws)
      PROVE  Holders'
  BY <1>7 DEF CallBatch, NewIds, WiresIn, Members
<1>8. ASSUME NEW c \in Callers, Create(c) PROVE Holders'
  BY <1>8 DEF Create
<1>9. ASSUME NEW c \in Callers, CreateFails(c) PROVE Holders'
  BY <1>9 DEF CreateFails, Finish
<1>10. ASSUME NEW c \in Callers, List(c) PROVE Holders'
  BY <1>10 DEF List, Finish
<1>11. ASSUME NEW c \in Callers, Connect(c) PROVE Holders'
  BY <1>11 DEF Connect, Finish
<1>12. ASSUME NEW c \in Callers, Disconnect(c) PROVE Holders'
  BY <1>12 DEF Disconnect, Finish
<1>13. ASSUME NEW c \in Callers, Cut(c) PROVE Holders'
  BY <1>13 DEF Cut
<1>14. ASSUME NEW c \in Callers, StopFails(c) PROVE Holders'
  BY <1>14 DEF StopFails, Finish, Locked
<1>15. ASSUME NEW c \in Callers, Drop(c) PROVE Holders'
  BY <1>15 DEF Drop, Locked
<1>16. ASSUME NEW c \in Callers, Unlist(c) PROVE Holders'
  BY <1>16 DEF Unlist, Finish
<1>17. ASSUME NEW c \in Callers, LockPatch(c) PROVE Holders'
  BY <1>17 DEF LockPatch, CanLock
<1>18. ASSUME NEW c \in Callers, Untie(c) PROVE Holders'
  BY <1>18 DEF Untie
<1>19. ASSUME NEW c \in Callers, Unmap(c) PROVE Holders'
  BY <1>19 DEF Unmap, Finish
<1>20. ASSUME NEW c \in Callers, LockBatch(c) PROVE Holders'
  BY <1>20 DEF LockBatch, CanLock
<1>21. ASSUME NEW c \in Callers, MakeFails(c) PROVE Holders'
  BY <1>21 DEF MakeFails
<1>22. ASSUME NEW c \in Callers, LayFails(c) PROVE Holders'
  BY <1>22 DEF LayFails
<1>23. ASSUME NEW c \in Callers, BatchDone(c) PROVE Holders'
  BY <1>23 DEF BatchDone, Finish
<1>24. ASSUME NEW c \in Callers, Undo(c) PROVE Holders'
  BY <1>24 DEF Undo, TakeBack, Finish
<1>25. ASSUME NEW c \in Callers, NEW m \in todo[c], Teardown(c, m) PROVE Holders'
  BY <1>25 DEF Teardown
<1>26. ASSUME NEW c \in Callers, NEW m \in todo[c], Make(c, m) PROVE Holders'
  BY <1>26 DEF Make
<1>27. ASSUME NEW c \in Callers, NEW w \in links[c], Lay(c, w) PROVE Holders'
  BY <1>27 DEF Lay
<1>28. CASE UNCHANGED vars
  BY <1>28 DEF vars
<1> QED
  BY <1>1, <1>2, <1>3, <1>4, <1>5, <1>6, <1>7, <1>8, <1>9, <1>10, <1>11, <1>12, <1>13,
      <1>14, <1>15, <1>16, <1>17, <1>18, <1>19, <1>20, <1>21, <1>22, <1>23, <1>24, <1>25,
      <1>26, <1>27, <1>28 DEF Next, Call, Continue

\* Every variable keeps its type, a call in progress has what it needs, and the
\* lock of a patch is held by a call that is in a long operation on it.
THEOREM StructureTypeCorrect == Spec => []TypeOK
<1>1. Init => TypeOK
  BY StructureAssumption
     DEF Init, TypeOK, Types, Handles, Holders, Patches, Ids, NoPatch, NoId, Steps
<1>2. TypeOK /\ [Next]_vars => TypeOK'
  BY TypesNext, HandlesNext, HoldersNext DEF TypeOK
<1> QED
  BY <1>1, <1>2, PTL DEF Spec

-----------------------------------------------------------------------------
\* What a batch has in hand: its modules are numbered and not made.
Batching(c) == pc[c] \in {"lockBatch", "make", "undo"}

\* Ids and patches are handed out once.
Numbered ==
    /\ \A i \in Ids : (i >= nextId => home[i] = NoPatch) /\ home[i] < nextPatch
    /\ \A p \in patches : p < nextPatch
    /\ \A c \in Callers : patch[c] < nextPatch

\* A batch makes modules that nobody has made, each batch its own.
Todos ==
    /\ \A c \in Callers : Batching(c) => \A i \in todo[c] : i < nextId /\ home[i] = NoPatch
    /\ \A c, d \in Callers :
          (c # d /\ Batching(c) /\ Batching(d)) => todo[c] \cap todo[d] = {}

\* An instance was made for some patch, and so was whatever is being removed; a
\* module about to leave the spec has no instance any more.
Homed ==
    /\ \A m \in modules : home[m] # NoPatch
    /\ \A c \in Callers : pc[c] \in {"cut", "drop", "unlist"} => home[module[c]] # NoPatch
    /\ \A c \in Callers : pc[c] = "unlist" => module[c] \notin modules

\* The connections in hand join modules of the patch, made or to be made.
Linked ==
    /\ \A c \in Callers : pc[c] = "connect" \/ Batching(c) =>
          \A w \in links[c] : \A i \in Ends(w) :
              home[i] = patch[c] \/ (Batching(c) /\ i \in todo[c])
    /\ \A c \in Callers : laid[c] \subseteq links[c]
    /\ \A c \in Callers : ~Batching(c) => made[c] = {} /\ laid[c] = {}

\* A connection is drawn in the patch of both its ends.
DrawnAtHome == \A p \in Patches : \A w \in drawn[p] : \A i \in Ends(w) : home[i] = p

HomeInv == Numbered /\ Todos /\ Homed /\ Linked /\ DrawnAtHome

\* Every route is drawn in the patch it starts in.
AllDrawn == \A w \in routes : home[w[1]] # NoPatch /\ w \in drawn[home[w[1]]]

WireInv == DrawnIsRouted /\ AllDrawn

\* The ends of a connection in hand are known, or belong to the batch.
KnownLinks ==
    \A c \in Callers : pc[c] = "connect" \/ Batching(c) =>
        \A w \in links[c] : \A i \in Ends(w) :
            i \in known \/ (Batching(c) /\ i \in made[c] \cup todo[c])

\* What is not known yet is in the hands of the call that adds it.
KnownModules ==
    \A i \in modules \ known : \E c \in Callers :
        i \in made[c] \/ (pc[c] = "list" /\ module[c] = i)

\* ... as is a module the spec of a patch already lists, ...
KnownListed ==
    \A p \in Patches : \A i \in listed[p] \ known :
        \E c \in Callers : patch[c] = p /\ i \in made[c]

\* ... and a connection it already draws.
KnownDrawn ==
    \A p \in Patches : \A w \in drawn[p] :
        Ends(w) \subseteq known \/ \E c \in Callers : w \in laid[c]

KnownInv == KnownLinks /\ KnownModules /\ KnownListed /\ KnownDrawn

\* An instance is listed in its patch, or about to be.
AllListed ==
    \A m \in modules :
        \/ m \in listed[home[m]]
        \/ \E c \in Callers : pc[c] = "list" /\ module[c] = m /\ patch[c] = home[m]

StructureInv == HomeInv /\ WireInv /\ AllListed /\ KnownInv

-----------------------------------------------------------------------------
\* The ends of a connection are ids, its start one of them.
LEMMA WireEnds == \A w \in Wires : Ends(w) \subseteq Ids /\ w[1] \in Ends(w)
BY StructureAssumption DEF Ends

\* Every step keeps the patch of what it touches: ids are used once, and what is
\* drawn or about to be drawn in a patch joins modules of that patch.
LEMMA HomeNext ==
    ASSUME TypeOK, HomeInv, [Next]_vars
    PROVE  HomeInv'
<1> USE StructureAssumption, WireEnds DEF Patches, Ids, NoPatch, TypeOK, Types, Handles,
    HomeInv, Batching, Numbered, Todos, Homed, Linked, DrawnAtHome, Goto, idVars, specVars,
    mapVars, batchVars, callVars
<1>1. ASSUME NEW c \in Callers, AddPatch(c) PROVE HomeInv'
  <2>1. Numbered'
    <3>1. PICK n \in 0 .. MaxBatch :
            /\ home' = [i \in Ids |-> IF i \in NewIds(n) THEN nextPatch ELSE home[i]]
            /\ nextId' = nextId + n /\ nextPatch' = nextPatch + 1
            /\ patches' = patches \cup {nextPatch} /\ patch' = patch
      BY <1>1 DEF AddPatch
    <3>2. nextPatch \in Nat /\ nextId \in Nat
      OBVIOUS
    <3>3. ASSUME NEW i \in Ids
          PROVE  (i >= nextId' => home'[i] = NoPatch) /\ home'[i] < nextPatch'
      BY <3>1, <3>2 DEF NewIds
    <3>4. \A p \in patches' : p < nextPatch'
      BY <3>1, <3>2
    <3>5. ASSUME NEW d \in Callers PROVE patch'[d] < nextPatch'
      <4>1. patch[d] \in Nat /\ patch[d] < nextPatch
        OBVIOUS
      <4> QED
        BY <3>1, <3>2, <4>1
    <3> QED
      BY <3>3, <3>4, <3>5
  <2>2. Todos'
    BY <1>1 DEF AddPatch, NewIds, WiresIn
  <2>3. Homed'
    <3>1. PICK n \in 0 .. MaxBatch :
            /\ \E defined \in SUBSET NewIds(n) : modules' = modules \cup defined
            /\ home' = [i \in Ids |-> IF i \in NewIds(n) THEN nextPatch ELSE home[i]]
            /\ NewIds(n) \subseteq Ids
      BY <1>1 DEF AddPatch
    <3>2. nextPatch # NoPatch /\ pc' = pc /\ module' = module
      BY <1>1 DEF AddPatch
    <3>3. \A i \in Ids : home[i] # NoPatch => home'[i] # NoPatch /\ i \notin NewIds(n)
      BY <3>1, <3>2 DEF NewIds
    <3>4. \A m \in modules' : home'[m] # NoPatch
      BY <3>1, <3>2, <3>3
    <3> QED
      BY <3>1, <3>2, <3>3, <3>4
  <2>4. Linked'
    BY <1>1, SMTT(30) DEF AddPatch, NewIds, WiresIn
  <2>5. DrawnAtHome'
    BY <1>1 DEF AddPatch, NewIds, WiresIn
  <2> QED
    BY <2>1, <2>2, <2>3, <2>4, <2>5
<1>2. ASSUME NEW c \in Callers, NEW p \in patches, CallAddModule(c, p) PROVE HomeInv'
  BY <1>2 DEF CallAddModule, Find
<1>3. ASSUME NEW c \in Callers, NEW p \in patches, CallRemovePatch(c, p) PROVE HomeInv'
  BY <1>3 DEF CallRemovePatch, Find
<1>4. ASSUME NEW c \in Callers, NEW p \in patches, NEW w \in Wires, CallConnect(c, p, w)
      PROVE  HomeInv'
  BY <1>4 DEF CallConnect, Find, WiresIn, Members
<1>5. ASSUME NEW c \in Callers, NEW p \in patches, NEW w \in Wires, CallDisconnect(c, p, w)
      PROVE  HomeInv'
  <2>1. Numbered'
    BY <1>5 DEF CallDisconnect, Find
  <2>2. Todos'
    BY <1>5 DEF CallDisconnect, Find
  <2>3. Homed'
    BY <1>5 DEF CallDisconnect, Find
  <2>4. Linked'
    BY <1>5 DEF CallDisconnect, Find
  <2>5. DrawnAtHome'
    BY <1>5 DEF CallDisconnect, Find
  <2> QED
    BY <2>1, <2>2, <2>3, <2>4, <2>5
<1>6. ASSUME NEW c \in Callers, NEW p \in patches, NEW m \in Ids, CallRemoveModule(c, p, m)
      PROVE  HomeInv'
  BY <1>6 DEF CallRemoveModule, Find, Members
<1>7. ASSUME NEW c \in Callers, NEW p \in patches, NEW n \in 1 .. MaxBatch, NEW ws \in
             SUBSET Wires, CallBatch(c, p, n, ws)
      PROVE  HomeInv'
  <2>1. Numbered'
    BY <1>7 DEF CallBatch, NewIds, WiresIn, Members
  <2>2. Todos'
    <3>1. todo' = [todo EXCEPT ![c] = NewIds(n)] /\ nextId' = nextId + n /\ home' = home
      BY <1>7 DEF CallBatch
    <3>2. ASSUME NEW i \in NewIds(n)
          PROVE  nextId <= i /\ i < nextId + n /\ home[i] = NoPatch
      <4>1. i \in Ids
        BY <1>7 DEF CallBatch
      <4>a. i \in nextId .. nextId + n - 1
        BY DEF NewIds
      <4>b. n \in Nat /\ nextId \in Nat
        OBVIOUS
      <4>2. i >= nextId /\ i < nextId + n
        BY <4>1, <4>a, <4>b
      <4> QED
        BY <4>1, <4>2
    <3>3. \A d \in Callers : d # c => pc'[d] = pc[d]
      BY <1>7 DEF CallBatch
    <3>4. ASSUME NEW d \in Callers, Batching(d)'
          PROVE  \A i \in todo'[d] : i < nextId' /\ home'[i] = NoPatch
      BY <3>1, <3>2, <3>3, <3>4
    <3>5. ASSUME NEW d \in Callers, d # c, Batching(d)' PROVE todo'[d] \cap NewIds(n) = {}
      BY <3>1, <3>2, <3>3, <3>5
    <3> QED
      BY <3>1, <3>3, <3>4, <3>5
  <2>3. Homed'
    BY <1>7 DEF CallBatch, NewIds, WiresIn, Members
  <2>4. Linked'
    <3>1. \A w \in ws : \A i \in Ends(w) : i \in NewIds(n) \/ home[i] = p
      BY <1>7 DEF CallBatch, WiresIn, Members
    <3>2. /\ todo' = [todo EXCEPT ![c] = NewIds(n)] /\ links' = [links EXCEPT ![c] = ws]
          /\ patch' = [patch EXCEPT ![c] = p] /\ home' = home /\ made' = made /\ laid' = laid
          /\ pc' = [pc EXCEPT ![c] = "lockBatch"] /\ pc[c] = "idle"
      BY <1>7 DEF CallBatch
    <3>3. links'[c] = ws /\ todo'[c] = NewIds(n) /\ patch'[c] = p /\ pc'[c] = "lockBatch"
      BY <3>2
    <3>4. ASSUME NEW d \in Callers, d # c
          PROVE  links'[d] = links[d] /\ todo'[d] = todo[d] /\ patch'[d] = patch[d] /\ pc'[d] = pc[d]
      BY <3>2, <3>4
    <3>5. laid[c] = {} /\ made[c] = {}
      BY <3>2
    <3> QED
      BY <3>1, <3>2, <3>3, <3>4, <3>5
  <2>5. DrawnAtHome'
    BY <1>7 DEF CallBatch, NewIds, WiresIn, Members
  <2> QED
    BY <2>1, <2>2, <2>3, <2>4, <2>5
<1>8. ASSUME NEW c \in Callers, Create(c) PROVE HomeInv'
  BY <1>8 DEF Create
<1>9. ASSUME NEW c \in Callers, CreateFails(c) PROVE HomeInv'
  BY <1>9 DEF CreateFails, Finish
<1>10. ASSUME NEW c \in Callers, List(c) PROVE HomeInv'
  BY <1>10 DEF List, Finish
<1>11. ASSUME NEW c \in Callers, Connect(c) PROVE HomeInv'
  <2>a. CASE links[c] \subseteq routes
    BY <1>11, <2>a DEF Connect, Finish
  <2>b. CASE ~(links[c] \subseteq routes)
    <3>1. patch[c] \in Patches /\ drawn' = [drawn EXCEPT ![patch[c]] = @ \cup links[c]]
      BY <1>11, <2>b DEF Connect
    <3>2. \A w \in links[c] : \A i \in Ends(w) : home[i] = patch[c]
      BY <1>11 DEF Connect
    <3>3. DrawnAtHome'
      BY <1>11, <3>1, <3>2 DEF Connect
    <3>4. Numbered' /\ Todos' /\ Homed' /\ Linked'
      BY <1>11 DEF Connect, Finish
    <3> QED
      BY <3>3, <3>4
  <2> QED
    BY <2>a, <2>b
<1>12. ASSUME NEW c \in Callers, Disconnect(c) PROVE HomeInv'
  BY <1>12 DEF Disconnect, Finish
<1>13. ASSUME NEW c \in Callers, Cut(c) PROVE HomeInv'
  BY <1>13 DEF Cut
<1>14. ASSUME NEW c \in Callers, StopFails(c) PROVE HomeInv'
  <2>0. /\ UNCHANGED <<nextId, nextPatch, patches, modules, home, drawn>>
        /\ \A d \in Callers : d # c =>
              /\ pc'[d] = pc[d] /\ patch'[d] = patch[d] /\ module'[d] = module[d]
              /\ todo'[d] = todo[d] /\ links'[d] = links[d]
              /\ made'[d] = made[d] /\ laid'[d] = laid[d]
        /\ pc'[c] \in {"teardown", "idle"} /\ patch'[c] \in {patch[c], NoPatch}
        /\ made'[c] = {} /\ laid'[c] = {}
    <3>1. made[c] = {} /\ laid[c] = {}
      BY <1>14 DEF StopFails
    <3>2. CASE Locked(c)
      BY <1>14, <3>1, <3>2 DEF StopFails
    <3>3. CASE ~Locked(c)
      BY <1>14, <3>1, <3>3 DEF StopFails, Finish
    <3> QED
      BY <3>2, <3>3
  <2>1. Numbered'
    <3>1. ASSUME NEW d \in Callers PROVE patch'[d] < nextPatch'
      <4>1. patch[d] < nextPatch /\ NoPatch < nextPatch /\ nextPatch' = nextPatch
        BY <2>0
      <4>2. CASE d = c
        BY <2>0, <4>1, <4>2
      <4>3. CASE d # c
        BY <2>0, <4>1, <4>3
      <4> QED
        BY <4>2, <4>3
    <3> QED
      BY <2>0, <3>1
  <2>2. Todos'
    <3>1. ASSUME NEW d \in Callers, Batching(d)'
          PROVE  Batching(d) /\ todo'[d] = todo[d]
      <4>1. d # c
        BY <2>0, <3>1
      <4> QED
        BY <2>0, <3>1, <4>1
    <3>2. nextId' = nextId /\ home' = home
      BY <2>0
    <3> QED
      BY <3>1, <3>2
  <2>3. Homed'
    <3>1. ASSUME NEW d \in Callers, pc'[d] \in {"cut", "drop", "unlist"}
          PROVE  pc[d] = pc'[d] /\ module'[d] = module[d]
      <4>1. d # c
        BY <2>0, <3>1
      <4> QED
        BY <2>0, <4>1
    <3>2. modules' = modules /\ home' = home
      BY <2>0
    <3> QED
      BY <3>1, <3>2
  <2>4. Linked'
    <3>1. ASSUME NEW d \in Callers, d # c
          PROVE  /\ pc'[d] = pc[d] /\ patch'[d] = patch[d] /\ todo'[d] = todo[d]
                 /\ links'[d] = links[d] /\ made'[d] = made[d] /\ laid'[d] = laid[d]
      BY <2>0, <3>1
    <3>2. ~Batching(c)' /\ pc'[c] # "connect" /\ made'[c] = {} /\ laid'[c] = {} /\ home' = home
      BY <2>0
    <3>3. ASSUME NEW d \in Callers, pc'[d] = "connect" \/ Batching(d)'
          PROVE  \A w \in links'[d] : \A i \in Ends(w) :
                     home'[i] = patch'[d] \/ (Batching(d)' /\ i \in todo'[d])
      BY <3>1, <3>2, <3>3
    <3>4. ASSUME NEW d \in Callers
          PROVE  laid'[d] \subseteq links'[d] /\ (~Batching(d)' => made'[d] = {} /\ laid'[d] = {})
      BY <3>1, <3>2
    <3> QED
      BY <3>3, <3>4
  <2>5. DrawnAtHome'
    BY <1>14 DEF StopFails, Finish
  <2> QED
    BY <2>1, <2>2, <2>3, <2>4, <2>5
<1>15. ASSUME NEW c \in Callers, Drop(c) PROVE HomeInv'
  BY <1>15 DEF Drop, Locked
<1>16. ASSUME NEW c \in Callers, Unlist(c) PROVE HomeInv'
  BY <1>16 DEF Unlist, Finish
<1>17. ASSUME NEW c \in Callers, LockPatch(c) PROVE HomeInv'
  BY <1>17 DEF LockPatch, CanLock
<1>18. ASSUME NEW c \in Callers, Untie(c) PROVE HomeInv'
  BY <1>18 DEF Untie
<1>19. ASSUME NEW c \in Callers, Unmap(c) PROVE HomeInv'
  BY <1>19 DEF Unmap, Finish
<1>20. ASSUME NEW c \in Callers, LockBatch(c) PROVE HomeInv'
  BY <1>20 DEF LockBatch, CanLock
<1>21. ASSUME NEW c \in Callers, MakeFails(c) PROVE HomeInv'
  BY <1>21 DEF MakeFails
<1>22. ASSUME NEW c \in Callers, LayFails(c) PROVE HomeInv'
  BY <1>22 DEF LayFails
<1>23. ASSUME NEW c \in Callers, BatchDone(c) PROVE HomeInv'
  BY <1>23 DEF BatchDone, Finish
<1>24. ASSUME NEW c \in Callers, Undo(c) PROVE HomeInv'
  BY <1>24 DEF Undo, TakeBack, Finish
<1>25. ASSUME NEW c \in Callers, NEW m \in todo[c], Teardown(c, m) PROVE HomeInv'
  BY <1>25 DEF Teardown
<1>26. ASSUME NEW c \in Callers, NEW m \in todo[c], Make(c, m) PROVE HomeInv'
  <2>1. Numbered'
    BY <1>26 DEF Make
  <2>2. Todos'
    BY <1>26 DEF Make
  <2>3. Homed'
    BY <1>26 DEF Make
  <2>4. Linked'
    BY <1>26 DEF Make
  <2>5. DrawnAtHome'
    BY <1>26 DEF Make
  <2> QED
    BY <2>1, <2>2, <2>3, <2>4, <2>5
<1>27. ASSUME NEW c \in Callers, NEW w \in links[c], Lay(c, w) PROVE HomeInv'
  BY <1>27 DEF Lay
<1>28. CASE UNCHANGED vars
  BY <1>28 DEF vars
<1> QED
  BY <1>1, <1>2, <1>3, <1>4, <1>5, <1>6, <1>7, <1>8, <1>9, <1>10, <1>11, <1>12, <1>13,
      <1>14, <1>15, <1>16, <1>17, <1>18, <1>19, <1>20, <1>21, <1>22, <1>23, <1>24, <1>25,
      <1>26, <1>27, <1>28 DEF Next, Call, Continue

\* A step that adds a route draws it, and one that erases a drawn connection cuts
\* its route.
LEMMA AllDrawnNext ==
    ASSUME TypeOK, HomeInv, AllDrawn, [Next]_vars
    PROVE  AllDrawn'
<1> USE StructureAssumption, WireEnds DEF Patches, Ids, NoPatch, TypeOK, Types, Handles,
    HomeInv, Batching, Numbered, Homed, Linked, DrawnAtHome, Todos, AllDrawn, Goto, idVars,
    specVars, mapVars, batchVars, callVars
<1>1. ASSUME NEW c \in Callers, AddPatch(c) PROVE AllDrawn'
  BY <1>1 DEF AddPatch, NewIds, WiresIn
<1>2. ASSUME NEW c \in Callers, NEW p \in patches, CallAddModule(c, p) PROVE AllDrawn'
  BY <1>2 DEF CallAddModule, Find
<1>3. ASSUME NEW c \in Callers, NEW p \in patches, CallRemovePatch(c, p) PROVE AllDrawn'
  BY <1>3 DEF CallRemovePatch, Find
<1>4. ASSUME NEW c \in Callers, NEW p \in patches, NEW w \in Wires, CallConnect(c, p, w)
      PROVE  AllDrawn'
  BY <1>4 DEF CallConnect, Find, WiresIn, Members
<1>5. ASSUME NEW c \in Callers, NEW p \in patches, NEW w \in Wires, CallDisconnect(c, p, w)
      PROVE  AllDrawn'
  BY <1>5 DEF CallDisconnect, Find
<1>6. ASSUME NEW c \in Callers, NEW p \in patches, NEW m \in Ids, CallRemoveModule(c, p, m)
      PROVE  AllDrawn'
  BY <1>6 DEF CallRemoveModule, Find, Members
<1>7. ASSUME NEW c \in Callers, NEW p \in patches, NEW n \in 1 .. MaxBatch, NEW ws \in
             SUBSET Wires, CallBatch(c, p, n, ws)
      PROVE  AllDrawn'
  BY <1>7 DEF CallBatch, NewIds, WiresIn, Members
<1>8. ASSUME NEW c \in Callers, Create(c) PROVE AllDrawn'
  BY <1>8 DEF Create
<1>9. ASSUME NEW c \in Callers, CreateFails(c) PROVE AllDrawn'
  BY <1>9 DEF CreateFails, Finish
<1>10. ASSUME NEW c \in Callers, List(c) PROVE AllDrawn'
  BY <1>10 DEF List, Finish
<1>11. ASSUME NEW c \in Callers, Connect(c) PROVE AllDrawn'
  <2>a. CASE links[c] \subseteq routes
    BY <1>11, <2>a DEF Connect, Finish
  <2>b. CASE ~(links[c] \subseteq routes)
    <3>1. /\ routes' = routes \cup links[c] /\ home' = home /\ patch[c] \in Patches
          /\ drawn' = [drawn EXCEPT ![patch[c]] = @ \cup links[c]]
      BY <1>11, <2>b DEF Connect
    <3>2. ASSUME NEW w \in links[c] PROVE home[w[1]] = patch[c]
      <4>1. w[1] \in Ends(w) /\ pc[c] = "connect"
        BY <1>11 DEF Connect
      <4> QED
        BY <4>1
    <3> QED
      BY <3>1, <3>2
  <2> QED
    BY <2>a, <2>b
<1>12. ASSUME NEW c \in Callers, Disconnect(c) PROVE AllDrawn'
  BY <1>12 DEF Disconnect, Finish
<1>13. ASSUME NEW c \in Callers, Cut(c) PROVE AllDrawn'
  BY <1>13 DEF Cut
<1>14. ASSUME NEW c \in Callers, StopFails(c) PROVE AllDrawn'
  BY <1>14 DEF StopFails, Finish, Locked
<1>15. ASSUME NEW c \in Callers, Drop(c) PROVE AllDrawn'
  BY <1>15 DEF Drop, Locked
<1>16. ASSUME NEW c \in Callers, Unlist(c) PROVE AllDrawn'
  BY <1>16 DEF Unlist, Finish
<1>17. ASSUME NEW c \in Callers, LockPatch(c) PROVE AllDrawn'
  BY <1>17 DEF LockPatch, CanLock
<1>18. ASSUME NEW c \in Callers, Untie(c) PROVE AllDrawn'
  BY <1>18 DEF Untie
<1>19. ASSUME NEW c \in Callers, Unmap(c) PROVE AllDrawn'
  BY <1>19 DEF Unmap, Finish
<1>20. ASSUME NEW c \in Callers, LockBatch(c) PROVE AllDrawn'
  BY <1>20 DEF LockBatch, CanLock
<1>21. ASSUME NEW c \in Callers, MakeFails(c) PROVE AllDrawn'
  BY <1>21 DEF MakeFails
<1>22. ASSUME NEW c \in Callers, LayFails(c) PROVE AllDrawn'
  BY <1>22 DEF LayFails
<1>23. ASSUME NEW c \in Callers, BatchDone(c) PROVE AllDrawn'
  BY <1>23 DEF BatchDone, Finish
<1>24. ASSUME NEW c \in Callers, Undo(c) PROVE AllDrawn'
  BY <1>24 DEF Undo, TakeBack, Finish
<1>25. ASSUME NEW c \in Callers, NEW m \in todo[c], Teardown(c, m) PROVE AllDrawn'
  BY <1>25 DEF Teardown
<1>26. ASSUME NEW c \in Callers, NEW m \in todo[c], Make(c, m) PROVE AllDrawn'
  BY <1>26 DEF Make
<1>27. ASSUME NEW c \in Callers, NEW w \in links[c], Lay(c, w) PROVE AllDrawn'
  BY <1>27 DEF Lay
<1>28. CASE UNCHANGED vars
  BY <1>28 DEF vars
<1> QED
  BY <1>1, <1>2, <1>3, <1>4, <1>5, <1>6, <1>7, <1>8, <1>9, <1>10, <1>11, <1>12, <1>13,
      <1>14, <1>15, <1>16, <1>17, <1>18, <1>19, <1>20, <1>21, <1>22, <1>23, <1>24, <1>25,
      <1>26, <1>27, <1>28 DEF Next, Call, Continue

\* A step that cuts a route erases the connection, or its module is on its way out,
\* or the whole patch is.
LEMMA DrawnNext ==
    ASSUME TypeOK, HomeInv, DrawnIsRouted, [Next]_vars
    PROVE  DrawnIsRouted'
<1> USE StructureAssumption, WireEnds DEF Patches, Ids, NoPatch, TypeOK, Types, Handles,
    HomeInv, Batching, Numbered, Homed, Linked, DrawnAtHome, Todos, DrawnIsRouted,
    BeingDropped, TornDown, Goto, idVars, specVars, mapVars, batchVars, callVars
<1> DEFINE Kept ==
        /\ \A q \in patches' : q \in patches /\ drawn'[q] = drawn[q] /\ (TornDown(q) => TornDown(q)')
        /\ routes \subseteq routes'
        /\ \A i \in modules' : i \in modules /\ (BeingDropped(i) => BeingDropped(i)')
<1>a. Kept => DrawnIsRouted'
  <2> HIDE DEF TornDown, BeingDropped
  <2> QED
    OBVIOUS
<1> HIDE DEF Kept
<1>1. ASSUME NEW c \in Callers, AddPatch(c) PROVE DrawnIsRouted'
  <2>1. PICK ids \in SUBSET Ids :
          /\ \A i \in ids : i >= nextId
          /\ \E ws \in SUBSET WiresIn(ids) :
                drawn' = [drawn EXCEPT ![nextPatch] = ws] /\ routes' = routes \cup ws
          /\ modules' \subseteq modules \cup ids
    <3>1. PICK n \in 0 .. MaxBatch :
            /\ NewIds(n) \subseteq Ids
            /\ \E defined \in SUBSET NewIds(n), ws \in SUBSET WiresIn(NewIds(n)) :
                  /\ listed' = [listed EXCEPT ![nextPatch] = NewIds(n)]
                  /\ drawn' = [drawn EXCEPT ![nextPatch] = ws]
                  /\ modules' = modules \cup defined
                  /\ routes' = routes \cup ws
      BY <1>1 DEF AddPatch
    <3>2. \A i \in NewIds(n) : i >= nextId
      BY DEF NewIds
    <3> QED
      BY <3>1, <3>2
  <2>2. PICK ws \in SUBSET WiresIn(ids) :
          drawn' = [drawn EXCEPT ![nextPatch] = ws] /\ routes' = routes \cup ws
    BY <2>1
  <2>3. patches' = patches \cup {nextPatch} /\ nextPatch \in Patches /\ UNCHANGED <<pc, patch, module>>
    BY <1>1 DEF AddPatch
  <2>4. ASSUME NEW q \in Patches, TornDown(q) PROVE TornDown(q)'
    BY <2>3, <2>4
  <2>5. ASSUME NEW i \in Ids, BeingDropped(i) PROVE BeingDropped(i)'
    BY <2>3, <2>5
  <2>6. ASSUME NEW q \in patches, NEW w \in drawn[q] PROVE \A i \in Ends(w) : i \notin ids
    <3>1. \A i \in Ends(w) : i \in Ids /\ home[i] = q /\ q # NoPatch
      OBVIOUS
    <3> QED
      BY <2>1, <3>1
  <2>7. nextPatch \notin patches
    OBVIOUS
  <2> HIDE DEF TornDown, BeingDropped
  <2> QED
    BY <2>1, <2>2, <2>3, <2>4, <2>5, <2>6, <2>7
<1>2. ASSUME NEW c \in Callers, NEW p \in patches, CallAddModule(c, p) PROVE Kept
  BY <1>2 DEF Kept, CallAddModule, Find
<1>3. ASSUME NEW c \in Callers, NEW p \in patches, CallRemovePatch(c, p) PROVE Kept
  BY <1>3 DEF Kept, CallRemovePatch, Find
<1>4. ASSUME NEW c \in Callers, NEW p \in patches, NEW w \in Wires, CallConnect(c, p, w)
      PROVE  Kept
  BY <1>4 DEF Kept, CallConnect, Find, WiresIn, Members
<1>5. ASSUME NEW c \in Callers, NEW p \in patches, NEW w \in Wires, CallDisconnect(c, p, w)
      PROVE  Kept
  BY <1>5 DEF Kept, CallDisconnect, Find
<1>6. ASSUME NEW c \in Callers, NEW p \in patches, NEW m \in Ids, CallRemoveModule(c, p, m)
      PROVE  Kept
  BY <1>6 DEF Kept, CallRemoveModule, Find, Members
<1>7. ASSUME NEW c \in Callers, NEW p \in patches, NEW n \in 1 .. MaxBatch, NEW ws \in
             SUBSET Wires, CallBatch(c, p, n, ws)
      PROVE  Kept
  BY <1>7 DEF Kept, CallBatch, NewIds, WiresIn, Members
<1>8. ASSUME NEW c \in Callers, Create(c) PROVE DrawnIsRouted'
  <2>1. UNCHANGED <<patches, drawn, routes>> /\ modules' = modules \cup {nextId}
    BY <1>8 DEF Create
  <2>2. ASSUME NEW q \in Patches, TornDown(q) PROVE TornDown(q)'
    BY <1>8, <2>2 DEF Create
  <2>3. ASSUME NEW i \in Ids, BeingDropped(i) PROVE BeingDropped(i)'
    BY <1>8, <2>3 DEF Create
  <2> HIDE DEF TornDown, BeingDropped
  <2>4. ASSUME NEW q \in patches, NEW w \in drawn[q] PROVE nextId \notin Ends(w)
    <3>1. home[nextId] = NoPatch /\ q # NoPatch
      BY <1>8 DEF Create
    <3> QED
      BY <3>1
  <2> QED
    BY <2>1, <2>2, <2>3, <2>4
<1>9. ASSUME NEW c \in Callers, CreateFails(c) PROVE Kept
  BY <1>9 DEF Kept, CreateFails, Finish
<1>10. ASSUME NEW c \in Callers, List(c) PROVE Kept
  BY <1>10 DEF Kept, List, Finish
<1>11. ASSUME NEW c \in Callers, Connect(c) PROVE DrawnIsRouted'
  <2>1. UNCHANGED <<patches, modules>>
    BY <1>11 DEF Connect
  <2>2. ASSUME NEW q \in Patches, TornDown(q) PROVE TornDown(q)'
    BY <1>11, <2>2 DEF Connect, Finish
  <2>3. ASSUME NEW i \in Ids, BeingDropped(i) PROVE BeingDropped(i)'
    BY <1>11, <2>3 DEF Connect, Finish
  <2> HIDE DEF TornDown, BeingDropped
  <2>a. CASE links[c] \subseteq routes
    <3>1. UNCHANGED <<drawn, routes>>
      BY <1>11, <2>a DEF Connect
    <3> QED
      BY <2>1, <2>2, <2>3, <3>1
  <2>b. CASE ~(links[c] \subseteq routes)
    <3>1. /\ routes' = routes \cup links[c] /\ patch[c] \in Patches
          /\ drawn' = [drawn EXCEPT ![patch[c]] = @ \cup links[c]]
      BY <1>11, <2>b DEF Connect
    <3> QED
      BY <2>1, <2>2, <2>3, <3>1
  <2> QED
    BY <2>a, <2>b
<1>12. ASSUME NEW c \in Callers, Disconnect(c) PROVE DrawnIsRouted'
  <2>1. /\ UNCHANGED <<patches, modules>> /\ patch[c] \in Patches
        /\ drawn' = [drawn EXCEPT ![patch[c]] = @ \ links[c]]
        /\ routes' = routes \ (links[c] \cap drawn[patch[c]])
    BY <1>12 DEF Disconnect
  <2>2. ASSUME NEW q \in Patches, TornDown(q) PROVE TornDown(q)'
    BY <1>12, <2>2 DEF Disconnect, Finish
  <2>3. ASSUME NEW i \in Ids, BeingDropped(i) PROVE BeingDropped(i)'
    BY <1>12, <2>3 DEF Disconnect, Finish
  <2>4. ASSUME NEW q \in Patches, NEW w \in drawn[q], w \in drawn[patch[c]]
        PROVE  q = patch[c]
    BY <2>1, <2>4
  <2> HIDE DEF TornDown, BeingDropped
  <2>5. ASSUME NEW q \in patches, NEW w \in drawn'[q]
        PROVE  w \in drawn[q] /\ (w \in routes => w \in routes')
    BY <2>1, <2>4, <2>5
  <2> QED
    BY <2>1, <2>2, <2>3, <2>5
<1>13. ASSUME NEW c \in Callers, Cut(c) PROVE DrawnIsRouted'
  <2>1. /\ UNCHANGED <<patches, modules, module, drawn>>
        /\ routes' = {w \in routes : module[c] \notin Ends(w)}
    BY <1>13 DEF Cut
  <2>2. ASSUME NEW q \in Patches, TornDown(q) PROVE TornDown(q)'
    BY <1>13, <2>2 DEF Cut
  <2>3. ASSUME NEW i \in Ids, BeingDropped(i) PROVE BeingDropped(i)'
    BY <1>13, <2>3 DEF Cut
  <2>4. BeingDropped(module[c])'
    BY <1>13 DEF Cut
  <2> HIDE DEF TornDown, BeingDropped
  <2>5. ASSUME NEW q \in patches', ~TornDown(q)', NEW w \in drawn'[q],
               \A i \in Ends(w) : i \in modules' /\ ~BeingDropped(i)'
        PROVE  w \in routes'
    <3>1. \A i \in Ends(w) : i \in modules /\ ~BeingDropped(i) /\ i # module[c]
      BY <2>1, <2>3, <2>4, <2>5
    <3>2. w \in routes
      BY <2>1, <2>2, <2>5, <3>1
    <3> QED
      BY <2>1, <3>1, <3>2
  <2> QED
    BY <2>5
<1>14. ASSUME NEW c \in Callers, StopFails(c) PROVE Kept
  <2>1. UNCHANGED <<patches, drawn, routes, modules>>
    BY <1>14 DEF StopFails
  <2>2. ASSUME NEW q \in Patches, TornDown(q) PROVE TornDown(q)'
    BY <1>14, <2>2 DEF StopFails, Finish, Locked
  <2>3. ASSUME NEW i \in Ids, BeingDropped(i) PROVE BeingDropped(i)'
    BY <1>14, <2>3 DEF StopFails, Finish, Locked
  <2> HIDE DEF TornDown, BeingDropped
  <2> QED
    BY <2>1, <2>2, <2>3 DEF Kept
<1>15. ASSUME NEW c \in Callers, Drop(c) PROVE Kept
  BY <1>15 DEF Kept, Drop, Locked
<1>16. ASSUME NEW c \in Callers, Unlist(c) PROVE Kept
  BY <1>16 DEF Kept, Unlist, Finish
<1>17. ASSUME NEW c \in Callers, LockPatch(c) PROVE Kept
  BY <1>17 DEF Kept, LockPatch, CanLock
<1>18. ASSUME NEW c \in Callers, Untie(c) PROVE DrawnIsRouted'
  BY <1>18 DEF Untie
<1>19. ASSUME NEW c \in Callers, Unmap(c) PROVE Kept
  BY <1>19 DEF Kept, Unmap, Finish
<1>20. ASSUME NEW c \in Callers, LockBatch(c) PROVE Kept
  BY <1>20 DEF Kept, LockBatch, CanLock
<1>21. ASSUME NEW c \in Callers, MakeFails(c) PROVE Kept
  BY <1>21 DEF Kept, MakeFails
<1>22. ASSUME NEW c \in Callers, LayFails(c) PROVE Kept
  BY <1>22 DEF Kept, LayFails
<1>23. ASSUME NEW c \in Callers, BatchDone(c) PROVE Kept
  BY <1>23 DEF Kept, BatchDone, Finish
<1>24. ASSUME NEW c \in Callers, Undo(c) PROVE DrawnIsRouted'
  <2>1. /\ UNCHANGED <<patches>> /\ modules' \subseteq modules /\ patch[c] \in Patches
        /\ drawn' = [drawn EXCEPT ![patch[c]] = @ \ laid[c]]
        /\ routes' = routes \ laid[c]
    BY <1>24 DEF Undo, TakeBack
  <2>2. ASSUME NEW q \in Patches, TornDown(q) PROVE TornDown(q)'
    BY <1>24, <2>2 DEF Undo, TakeBack, Finish
  <2>3. ASSUME NEW i \in Ids, BeingDropped(i) PROVE BeingDropped(i)'
    BY <1>24, <2>3 DEF Undo, TakeBack, Finish
  <2>4. ASSUME NEW q \in Patches, NEW w \in drawn[q], w \in laid[c] PROVE q = patch[c]
    <3>1. home[w[1]] = q /\ q # NoPatch
      BY <2>4
    <3>2. home[w[1]] = patch[c] \/ home[w[1]] = NoPatch
      BY <1>24, <2>4 DEF Undo, TakeBack
    <3> QED
      BY <3>1, <3>2
  <2> HIDE DEF TornDown, BeingDropped
  <2>5. ASSUME NEW q \in patches, NEW w \in drawn'[q]
        PROVE  w \in drawn[q] /\ (w \in routes => w \in routes')
    BY <2>1, <2>4, <2>5
  <2> QED
    BY <2>1, <2>2, <2>3, <2>5
<1>25. ASSUME NEW c \in Callers, NEW m \in todo[c], Teardown(c, m) PROVE Kept
  BY <1>25 DEF Kept, Teardown
<1>26. ASSUME NEW c \in Callers, NEW m \in todo[c], Make(c, m) PROVE DrawnIsRouted'
  <2>1. UNCHANGED <<patches, drawn, routes>> /\ modules' = modules \cup {m}
    BY <1>26 DEF Make
  <2>2. ASSUME NEW q \in Patches, TornDown(q) PROVE TornDown(q)'
    BY <1>26, <2>2 DEF Make
  <2>3. ASSUME NEW i \in Ids, BeingDropped(i) PROVE BeingDropped(i)'
    BY <1>26, <2>3 DEF Make
  <2> HIDE DEF TornDown, BeingDropped
  <2>4. ASSUME NEW q \in patches, NEW w \in drawn[q] PROVE m \notin Ends(w)
    <3>1. home[m] = NoPatch /\ q # NoPatch
      BY <1>26 DEF Make
    <3> QED
      BY <3>1
  <2> QED
    BY <2>1, <2>2, <2>3, <2>4
<1>27. ASSUME NEW c \in Callers, NEW w \in links[c], Lay(c, w) PROVE DrawnIsRouted'
  BY <1>27 DEF Lay
<1>28. CASE UNCHANGED vars
  BY <1>28, <1>a DEF Kept, vars
<1> QED
  BY <1>a, <1>1, <1>2, <1>3, <1>4, <1>5, <1>6, <1>7, <1>8, <1>9, <1>10, <1>11, <1>12, <1>13,
      <1>14, <1>15, <1>16, <1>17, <1>18, <1>19, <1>20, <1>21, <1>22, <1>23, <1>24, <1>25,
      <1>26, <1>27, <1>28 DEF Next, Call, Continue

\* An instance leaves the spec of its patch only with the instance.
LEMMA ListedNext ==
    ASSUME TypeOK, HomeInv, AllListed, [Next]_vars
    PROVE  AllListed'
<1> USE StructureAssumption, WireEnds DEF Patches, Ids, NoPatch, TypeOK, Types, Handles,
    HomeInv, Batching, Numbered, Homed, Todos, AllListed, Goto, idVars, specVars, mapVars,
    batchVars, callVars
<1>1. ASSUME NEW c \in Callers, AddPatch(c) PROVE AllListed'
  <2>1. PICK n \in 0 .. MaxBatch :
          /\ NewIds(n) \subseteq Ids
          /\ \E defined \in SUBSET NewIds(n), ws \in SUBSET WiresIn(NewIds(n)) :
                /\ listed' = [listed EXCEPT ![nextPatch] = NewIds(n)]
                /\ drawn' = [drawn EXCEPT ![nextPatch] = ws]
                /\ modules' = modules \cup defined
                /\ routes' = routes \cup ws
          /\ home' = [i \in Ids |-> IF i \in NewIds(n) THEN nextPatch ELSE home[i]]
          /\ known' = known \cup NewIds(n)
          /\ nextId' = nextId + n
    BY <1>1 DEF AddPatch
  <2>2. /\ listed' = [listed EXCEPT ![nextPatch] = NewIds(n)] /\ modules' \subseteq modules \cup NewIds(n)
        /\ UNCHANGED <<pc, patch, module>> /\ nextPatch \in Patches
    BY <1>1, <2>1 DEF AddPatch
  <2>3. \A i \in NewIds(n) : i >= nextId
    BY DEF NewIds
  <2>4. ASSUME NEW m \in modules
        PROVE  home'[m] = home[m] /\ home[m] \in Patches /\ home[m] # nextPatch
    <3>1. m \in Ids /\ home[m] # NoPatch
      OBVIOUS
    <3>2. m \notin NewIds(n)
      BY <2>3, <3>1
    <3> QED
      BY <2>1, <3>1, <3>2
  <2>5. ASSUME NEW m \in modules PROVE 
          \/ m \in listed'[home'[m]]
          \/ \E d \in Callers : pc'[d] = "list" /\ module'[d] = m /\ patch'[d] = home'[m]
    BY <2>2, <2>4
  <2>6. ASSUME NEW m \in NewIds(n) PROVE m \in listed'[home'[m]]
    BY <2>1, <2>2
  <2> QED
    BY <2>2, <2>5, <2>6
<1>2. ASSUME NEW c \in Callers, NEW p \in patches, CallAddModule(c, p) PROVE AllListed'
  BY <1>2 DEF CallAddModule, Find
<1>3. ASSUME NEW c \in Callers, NEW p \in patches, CallRemovePatch(c, p) PROVE AllListed'
  BY <1>3 DEF CallRemovePatch, Find
<1>4. ASSUME NEW c \in Callers, NEW p \in patches, NEW w \in Wires, CallConnect(c, p, w)
      PROVE  AllListed'
  BY <1>4 DEF CallConnect, Find, WiresIn, Members
<1>5. ASSUME NEW c \in Callers, NEW p \in patches, NEW w \in Wires, CallDisconnect(c, p, w)
      PROVE  AllListed'
  BY <1>5 DEF CallDisconnect, Find
<1>6. ASSUME NEW c \in Callers, NEW p \in patches, NEW m \in Ids, CallRemoveModule(c, p, m)
      PROVE  AllListed'
  BY <1>6 DEF CallRemoveModule, Find, Members
<1>7. ASSUME NEW c \in Callers, NEW p \in patches, NEW n \in 1 .. MaxBatch, NEW ws \in
             SUBSET Wires, CallBatch(c, p, n, ws)
      PROVE  AllListed'
  BY <1>7 DEF CallBatch, NewIds, WiresIn, Members
<1>8. ASSUME NEW c \in Callers, Create(c) PROVE AllListed'
  BY <1>8 DEF Create
<1>9. ASSUME NEW c \in Callers, CreateFails(c) PROVE AllListed'
  BY <1>9 DEF CreateFails, Finish
<1>10. ASSUME NEW c \in Callers, List(c) PROVE AllListed'
  <2>1. /\ UNCHANGED <<modules, home>> /\ patch[c] \in Patches
        /\ listed' = [listed EXCEPT ![patch[c]] = @ \cup {module[c]}]
    BY <1>10 DEF List
  <2>5. ASSUME NEW m \in modules', m \in listed[home[m]] PROVE m \in listed'[home'[m]]
    BY <2>1, <2>5
  <2>6. ASSUME NEW m \in modules', NEW d \in Callers, pc[d] = "list", module[d] = m, patch[d] = home[m]
        PROVE  \/ m \in listed'[home'[m]]
               \/ pc'[d] = "list" /\ module'[d] = m /\ patch'[d] = home'[m]
    <3>1. CASE d = c
      BY <2>1, <2>6, <3>1
    <3>2. CASE d # c
      BY <1>10, <2>1, <2>6, <3>2 DEF List, Finish
    <3> QED
      BY <3>1, <3>2
  <2>7. ASSUME NEW m \in modules'
        PROVE  \/ m \in listed'[home'[m]]
               \/ \E d \in Callers : pc'[d] = "list" /\ module'[d] = m /\ patch'[d] = home'[m]
    <3>1. CASE m \in listed[home[m]]
      BY <2>5, <3>1
    <3>2. CASE \E d \in Callers : pc[d] = "list" /\ module[d] = m /\ patch[d] = home[m]
      BY <2>6, <3>2
    <3> QED
      BY <2>1, <3>1, <3>2
  <2> QED
    BY <2>7
<1>11. ASSUME NEW c \in Callers, Connect(c) PROVE AllListed'
  BY <1>11 DEF Connect, Finish
<1>12. ASSUME NEW c \in Callers, Disconnect(c) PROVE AllListed'
  BY <1>12 DEF Disconnect, Finish
<1>13. ASSUME NEW c \in Callers, Cut(c) PROVE AllListed'
  BY <1>13 DEF Cut
<1>14. ASSUME NEW c \in Callers, StopFails(c) PROVE AllListed'
  BY <1>14 DEF StopFails, Finish, Locked
<1>15. ASSUME NEW c \in Callers, Drop(c) PROVE AllListed'
  BY <1>15 DEF Drop, Locked
<1>16. ASSUME NEW c \in Callers, Unlist(c) PROVE AllListed'
  <2>1. /\ UNCHANGED <<modules, home>> /\ patch[c] \in Patches
        /\ listed' = [listed EXCEPT ![patch[c]] = @ \ {module[c]}]
        /\ module[c] \notin modules
    BY <1>16 DEF Unlist
  <2>5. ASSUME NEW m \in modules', m \in listed[home[m]] PROVE m \in listed'[home'[m]]
    BY <2>1, <2>5
  <2>6. ASSUME NEW m \in modules', NEW d \in Callers, pc[d] = "list", module[d] = m, patch[d] = home[m]
        PROVE  \/ m \in listed'[home'[m]]
               \/ pc'[d] = "list" /\ module'[d] = m /\ patch'[d] = home'[m]
    <3>1. d # c
      BY <1>16, <2>6 DEF Unlist
    <3> QED
      BY <1>16, <2>1, <2>6, <3>1 DEF Unlist, Finish
  <2>7. ASSUME NEW m \in modules'
        PROVE  \/ m \in listed'[home'[m]]
               \/ \E d \in Callers : pc'[d] = "list" /\ module'[d] = m /\ patch'[d] = home'[m]
    <3>1. CASE m \in listed[home[m]]
      BY <2>5, <3>1
    <3>2. CASE \E d \in Callers : pc[d] = "list" /\ module[d] = m /\ patch[d] = home[m]
      BY <2>6, <3>2
    <3> QED
      BY <2>1, <3>1, <3>2
  <2> QED
    BY <2>7
<1>17. ASSUME NEW c \in Callers, LockPatch(c) PROVE AllListed'
  BY <1>17 DEF LockPatch, CanLock
<1>18. ASSUME NEW c \in Callers, Untie(c) PROVE AllListed'
  BY <1>18 DEF Untie
<1>19. ASSUME NEW c \in Callers, Unmap(c) PROVE AllListed'
  BY <1>19 DEF Unmap, Finish
<1>20. ASSUME NEW c \in Callers, LockBatch(c) PROVE AllListed'
  BY <1>20 DEF LockBatch, CanLock
<1>21. ASSUME NEW c \in Callers, MakeFails(c) PROVE AllListed'
  BY <1>21 DEF MakeFails
<1>22. ASSUME NEW c \in Callers, LayFails(c) PROVE AllListed'
  BY <1>22 DEF LayFails
<1>23. ASSUME NEW c \in Callers, BatchDone(c) PROVE AllListed'
  BY <1>23 DEF BatchDone, Finish
<1>24. ASSUME NEW c \in Callers, Undo(c) PROVE AllListed'
  <2>1. /\ home' = home /\ modules' = modules \ made[c] /\ patch[c] \in Patches
        /\ listed' = [listed EXCEPT ![patch[c]] = @ \ made[c]]
    BY <1>24 DEF Undo, TakeBack
  <2>5. ASSUME NEW m \in modules', m \in listed[home[m]] PROVE m \in listed'[home'[m]]
    BY <2>1, <2>5
  <2>6. ASSUME NEW m \in modules', NEW d \in Callers, pc[d] = "list", module[d] = m, patch[d] = home[m]
        PROVE  \/ m \in listed'[home'[m]]
               \/ pc'[d] = "list" /\ module'[d] = m /\ patch'[d] = home'[m]
    <3>1. d # c
      BY <1>24, <2>6 DEF Undo, TakeBack
    <3> QED
      BY <1>24, <2>1, <2>6, <3>1 DEF Undo, TakeBack, Finish
  <2>7. ASSUME NEW m \in modules'
        PROVE  \/ m \in listed'[home'[m]]
               \/ \E d \in Callers : pc'[d] = "list" /\ module'[d] = m /\ patch'[d] = home'[m]
    <3>1. CASE m \in listed[home[m]]
      BY <2>5, <3>1
    <3>2. CASE \E d \in Callers : pc[d] = "list" /\ module[d] = m /\ patch[d] = home[m]
      BY <2>6, <3>2
    <3> QED
      BY <2>1, <3>1, <3>2
  <2> QED
    BY <2>7
<1>25. ASSUME NEW c \in Callers, NEW m \in todo[c], Teardown(c, m) PROVE AllListed'
  BY <1>25 DEF Teardown
<1>26. ASSUME NEW c \in Callers, NEW m \in todo[c], Make(c, m) PROVE AllListed'
  BY <1>26 DEF Make
<1>27. ASSUME NEW c \in Callers, NEW w \in links[c], Lay(c, w) PROVE AllListed'
  BY <1>27 DEF Lay
<1>28. CASE UNCHANGED vars
  BY <1>28 DEF vars
<1> QED
  BY <1>1, <1>2, <1>3, <1>4, <1>5, <1>6, <1>7, <1>8, <1>9, <1>10, <1>11, <1>12, <1>13,
      <1>14, <1>15, <1>16, <1>17, <1>18, <1>19, <1>20, <1>21, <1>22, <1>23, <1>24, <1>25,
      <1>26, <1>27, <1>28 DEF Next, Call, Continue

\* The connections in hand keep to known modules and to those of the batch.
LEMMA KnownLinksNext ==
    ASSUME TypeOK, HomeInv, KnownLinks, [Next]_vars
    PROVE  KnownLinks'
<1> USE StructureAssumption, WireEnds DEF Patches, Ids, NoPatch, TypeOK, Types, Handles,
    HomeInv, Batching, Linked, KnownLinks, Goto, idVars, specVars, mapVars, batchVars,
    callVars
<1>1. ASSUME NEW c \in Callers, AddPatch(c) PROVE KnownLinks'
  BY <1>1 DEF AddPatch, NewIds, WiresIn
<1>2. ASSUME NEW c \in Callers, NEW p \in patches, CallAddModule(c, p) PROVE KnownLinks'
  BY <1>2 DEF CallAddModule, Find
<1>3. ASSUME NEW c \in Callers, NEW p \in patches, CallRemovePatch(c, p) PROVE KnownLinks'
  BY <1>3 DEF CallRemovePatch, Find
<1>4. ASSUME NEW c \in Callers, NEW p \in patches, NEW w \in Wires, CallConnect(c, p, w)
      PROVE  KnownLinks'
  BY <1>4 DEF CallConnect, Find, WiresIn, Members
<1>5. ASSUME NEW c \in Callers, NEW p \in patches, NEW w \in Wires, CallDisconnect(c, p, w)
      PROVE  KnownLinks'
  BY <1>5 DEF CallDisconnect, Find
<1>6. ASSUME NEW c \in Callers, NEW p \in patches, NEW m \in Ids, CallRemoveModule(c, p, m)
      PROVE  KnownLinks'
  BY <1>6 DEF CallRemoveModule, Find, Members
<1>7. ASSUME NEW c \in Callers, NEW p \in patches, NEW n \in 1 .. MaxBatch, NEW ws \in
             SUBSET Wires, CallBatch(c, p, n, ws)
      PROVE  KnownLinks'
  BY <1>7 DEF CallBatch, NewIds, WiresIn, Members
<1>8. ASSUME NEW c \in Callers, Create(c) PROVE KnownLinks'
  BY <1>8 DEF Create
<1>9. ASSUME NEW c \in Callers, CreateFails(c) PROVE KnownLinks'
  BY <1>9 DEF CreateFails, Finish
<1>10. ASSUME NEW c \in Callers, List(c) PROVE KnownLinks'
  BY <1>10 DEF List, Finish
<1>11. ASSUME NEW c \in Callers, Connect(c) PROVE KnownLinks'
  BY <1>11 DEF Connect, Finish
<1>12. ASSUME NEW c \in Callers, Disconnect(c) PROVE KnownLinks'
  BY <1>12 DEF Disconnect, Finish
<1>13. ASSUME NEW c \in Callers, Cut(c) PROVE KnownLinks'
  BY <1>13 DEF Cut
<1>14. ASSUME NEW c \in Callers, StopFails(c) PROVE KnownLinks'
  <2>1. /\ UNCHANGED <<known, modules, listed, drawn, home>>
        /\ \A d \in Callers : d # c =>
              /\ pc'[d] = pc[d] /\ patch'[d] = patch[d] /\ module'[d] = module[d]
              /\ todo'[d] = todo[d] /\ links'[d] = links[d]
              /\ made'[d] = made[d] /\ laid'[d] = laid[d]
        /\ pc'[c] \in {"teardown", "idle"} /\ pc[c] = "cut"
        /\ made[c] = {} /\ laid[c] = {} /\ made'[c] = {} /\ laid'[c] = {}
    <3>1. made[c] = {} /\ laid[c] = {}
      BY <1>14 DEF StopFails
    <3>2. CASE Locked(c)
      BY <1>14, <3>1, <3>2 DEF StopFails
    <3>3. CASE ~Locked(c)
      BY <1>14, <3>1, <3>3 DEF StopFails, Finish
    <3> QED
      BY <3>2, <3>3
  <2>2. ASSUME NEW d \in Callers, pc'[d] = "connect" \/ Batching(d)'
        PROVE  /\ pc'[d] = pc[d] /\ made'[d] = made[d]
               /\ todo'[d] = todo[d] /\ links'[d] = links[d]
    <3>1. d # c
      BY <2>1, <2>2
    <3> QED
      BY <2>1, <3>1
  <2> QED
    BY <2>1, <2>2
<1>15. ASSUME NEW c \in Callers, Drop(c) PROVE KnownLinks'
  BY <1>15 DEF Drop, Locked
<1>16. ASSUME NEW c \in Callers, Unlist(c) PROVE KnownLinks'
  BY <1>16 DEF Unlist, Finish
<1>17. ASSUME NEW c \in Callers, LockPatch(c) PROVE KnownLinks'
  BY <1>17 DEF LockPatch, CanLock
<1>18. ASSUME NEW c \in Callers, Untie(c) PROVE KnownLinks'
  BY <1>18 DEF Untie
<1>19. ASSUME NEW c \in Callers, Unmap(c) PROVE KnownLinks'
  BY <1>19 DEF Unmap, Finish
<1>20. ASSUME NEW c \in Callers, LockBatch(c) PROVE KnownLinks'
  BY <1>20 DEF LockBatch, CanLock
<1>21. ASSUME NEW c \in Callers, MakeFails(c) PROVE KnownLinks'
  BY <1>21 DEF MakeFails
<1>22. ASSUME NEW c \in Callers, LayFails(c) PROVE KnownLinks'
  BY <1>22 DEF LayFails
<1>23. ASSUME NEW c \in Callers, BatchDone(c) PROVE KnownLinks'
  BY <1>23 DEF BatchDone, Finish
<1>24. ASSUME NEW c \in Callers, Undo(c) PROVE KnownLinks'
  BY <1>24 DEF Undo, TakeBack, Finish
<1>25. ASSUME NEW c \in Callers, NEW m \in todo[c], Teardown(c, m) PROVE KnownLinks'
  BY <1>25 DEF Teardown
<1>26. ASSUME NEW c \in Callers, NEW m \in todo[c], Make(c, m) PROVE KnownLinks'
  BY <1>26 DEF Make
<1>27. ASSUME NEW c \in Callers, NEW w \in links[c], Lay(c, w) PROVE KnownLinks'
  BY <1>27 DEF Lay
<1>28. CASE UNCHANGED vars
  BY <1>28 DEF vars
<1> QED
  BY <1>1, <1>2, <1>3, <1>4, <1>5, <1>6, <1>7, <1>8, <1>9, <1>10, <1>11, <1>12, <1>13,
      <1>14, <1>15, <1>16, <1>17, <1>18, <1>19, <1>20, <1>21, <1>22, <1>23, <1>24, <1>25,
      <1>26, <1>27, <1>28 DEF Next, Call, Continue

\* An instance nobody was told of stays in the hands of a call.
LEMMA KnownModulesNext ==
    ASSUME TypeOK, HomeInv, KnownModules, [Next]_vars
    PROVE  KnownModules'
<1> USE StructureAssumption, WireEnds DEF Patches, Ids, NoPatch, TypeOK, Types, Handles,
    HomeInv, Batching, Linked, KnownModules, Goto, idVars, specVars, mapVars, batchVars,
    callVars
<1>1. ASSUME NEW c \in Callers, AddPatch(c) PROVE KnownModules'
  BY <1>1 DEF AddPatch, NewIds, WiresIn
<1>2. ASSUME NEW c \in Callers, NEW p \in patches, CallAddModule(c, p) PROVE KnownModules'
  BY <1>2 DEF CallAddModule, Find
<1>3. ASSUME NEW c \in Callers, NEW p \in patches, CallRemovePatch(c, p) PROVE KnownModules'
  BY <1>3 DEF CallRemovePatch, Find
<1>4. ASSUME NEW c \in Callers, NEW p \in patches, NEW w \in Wires, CallConnect(c, p, w)
      PROVE  KnownModules'
  BY <1>4 DEF CallConnect, Find, WiresIn, Members
<1>5. ASSUME NEW c \in Callers, NEW p \in patches, NEW w \in Wires, CallDisconnect(c, p, w)
      PROVE  KnownModules'
  BY <1>5 DEF CallDisconnect, Find
<1>6. ASSUME NEW c \in Callers, NEW p \in patches, NEW m \in Ids, CallRemoveModule(c, p, m)
      PROVE  KnownModules'
  BY <1>6 DEF CallRemoveModule, Find, Members
<1>7. ASSUME NEW c \in Callers, NEW p \in patches, NEW n \in 1 .. MaxBatch, NEW ws \in
             SUBSET Wires, CallBatch(c, p, n, ws)
      PROVE  KnownModules'
  BY <1>7 DEF CallBatch, NewIds, WiresIn, Members
<1>8. ASSUME NEW c \in Callers, Create(c) PROVE KnownModules'
  BY <1>8 DEF Create
<1>9. ASSUME NEW c \in Callers, CreateFails(c) PROVE KnownModules'
  BY <1>9 DEF CreateFails, Finish
<1>10. ASSUME NEW c \in Callers, List(c) PROVE KnownModules'
  BY <1>10 DEF List, Finish
<1>11. ASSUME NEW c \in Callers, Connect(c) PROVE KnownModules'
  BY <1>11 DEF Connect, Finish
<1>12. ASSUME NEW c \in Callers, Disconnect(c) PROVE KnownModules'
  BY <1>12 DEF Disconnect, Finish
<1>13. ASSUME NEW c \in Callers, Cut(c) PROVE KnownModules'
  BY <1>13 DEF Cut
<1>14. ASSUME NEW c \in Callers, StopFails(c) PROVE KnownModules'
  <2>1. /\ UNCHANGED <<known, modules, listed, drawn, home>>
        /\ \A d \in Callers : d # c =>
              /\ pc'[d] = pc[d] /\ patch'[d] = patch[d] /\ module'[d] = module[d]
              /\ todo'[d] = todo[d] /\ links'[d] = links[d]
              /\ made'[d] = made[d] /\ laid'[d] = laid[d]
        /\ pc'[c] \in {"teardown", "idle"} /\ pc[c] = "cut"
        /\ made[c] = {} /\ laid[c] = {} /\ made'[c] = {} /\ laid'[c] = {}
    <3>1. made[c] = {} /\ laid[c] = {}
      BY <1>14 DEF StopFails
    <3>2. CASE Locked(c)
      BY <1>14, <3>1, <3>2 DEF StopFails
    <3>3. CASE ~Locked(c)
      BY <1>14, <3>1, <3>3 DEF StopFails, Finish
    <3> QED
      BY <3>2, <3>3
  <2>2. ASSUME NEW d \in Callers
        PROVE  made'[d] = made[d] /\ (pc[d] = "list" => pc'[d] = "list" /\ module'[d] = module[d])
    <3>1. CASE d = c
      BY <2>1, <3>1
    <3>2. CASE d # c
      BY <2>1, <3>2
    <3> QED
      BY <3>1, <3>2
  <2>3. UNCHANGED <<known, modules>>
    BY <2>1
  <2>4. ASSUME NEW i \in modules' \ known'
        PROVE  \E d \in Callers : i \in made'[d] \/ (pc'[d] = "list" /\ module'[d] = i)
    <3>1. PICK d \in Callers : i \in made[d] \/ (pc[d] = "list" /\ module[d] = i)
      BY <2>3
    <3> QED
      BY <2>2, <3>1
  <2> QED
    BY <2>4
<1>15. ASSUME NEW c \in Callers, Drop(c) PROVE KnownModules'
  BY <1>15 DEF Drop, Locked
<1>16. ASSUME NEW c \in Callers, Unlist(c) PROVE KnownModules'
  BY <1>16 DEF Unlist, Finish
<1>17. ASSUME NEW c \in Callers, LockPatch(c) PROVE KnownModules'
  BY <1>17 DEF LockPatch, CanLock
<1>18. ASSUME NEW c \in Callers, Untie(c) PROVE KnownModules'
  BY <1>18 DEF Untie
<1>19. ASSUME NEW c \in Callers, Unmap(c) PROVE KnownModules'
  BY <1>19 DEF Unmap, Finish
<1>20. ASSUME NEW c \in Callers, LockBatch(c) PROVE KnownModules'
  BY <1>20 DEF LockBatch, CanLock
<1>21. ASSUME NEW c \in Callers, MakeFails(c) PROVE KnownModules'
  BY <1>21 DEF MakeFails
<1>22. ASSUME NEW c \in Callers, LayFails(c) PROVE KnownModules'
  BY <1>22 DEF LayFails
<1>23. ASSUME NEW c \in Callers, BatchDone(c) PROVE KnownModules'
  BY <1>23 DEF BatchDone, Finish
<1>24. ASSUME NEW c \in Callers, Undo(c) PROVE KnownModules'
  BY <1>24 DEF Undo, TakeBack, Finish
<1>25. ASSUME NEW c \in Callers, NEW m \in todo[c], Teardown(c, m) PROVE KnownModules'
  BY <1>25 DEF Teardown
<1>26. ASSUME NEW c \in Callers, NEW m \in todo[c], Make(c, m) PROVE KnownModules'
  BY <1>26 DEF Make
<1>27. ASSUME NEW c \in Callers, NEW w \in links[c], Lay(c, w) PROVE KnownModules'
  BY <1>27 DEF Lay
<1>28. CASE UNCHANGED vars
  BY <1>28 DEF vars
<1> QED
  BY <1>1, <1>2, <1>3, <1>4, <1>5, <1>6, <1>7, <1>8, <1>9, <1>10, <1>11, <1>12, <1>13,
      <1>14, <1>15, <1>16, <1>17, <1>18, <1>19, <1>20, <1>21, <1>22, <1>23, <1>24, <1>25,
      <1>26, <1>27, <1>28 DEF Next, Call, Continue

\* So does a listed module nobody was told of ...
LEMMA KnownListedNext ==
    ASSUME TypeOK, HomeInv, KnownListed, [Next]_vars
    PROVE  KnownListed'
<1> USE StructureAssumption, WireEnds DEF Patches, Ids, NoPatch, TypeOK, Types, Handles,
    HomeInv, Batching, Linked, KnownListed, Goto, idVars, specVars, mapVars, batchVars,
    callVars
<1> DEFINE Kept ==
        /\ known \subseteq known'
        /\ \A q \in Patches : listed'[q] \subseteq listed[q] \cup known'
        /\ \A d \in Callers :
              made[d] \subseteq made'[d] /\ (made[d] # {} => patch'[d] = patch[d])
<1>a. Kept => KnownListed'
  <2> SUFFICES ASSUME Kept, NEW q \in Patches, NEW i \in listed'[q], i \notin known'
               PROVE  \E d \in Callers : patch'[d] = q /\ i \in made'[d]
    OBVIOUS
  <2>1. PICK d \in Callers : patch[d] = q /\ i \in made[d]
    OBVIOUS
  <2>2. made[d] \subseteq made'[d] /\ (made[d] # {} => patch'[d] = patch[d])
    OBVIOUS
  <2> QED
    BY <2>1, <2>2
<1> HIDE DEF Kept
<1>1. ASSUME NEW c \in Callers, AddPatch(c) PROVE Kept
  <2>1. PICK n \in 0 .. MaxBatch :
          /\ NewIds(n) \subseteq Ids
          /\ \E defined \in SUBSET NewIds(n), ws \in SUBSET WiresIn(NewIds(n)) :
                /\ listed' = [listed EXCEPT ![nextPatch] = NewIds(n)]
                /\ drawn' = [drawn EXCEPT ![nextPatch] = ws]
                /\ modules' = modules \cup defined
                /\ routes' = routes \cup ws
          /\ home' = [i \in Ids |-> IF i \in NewIds(n) THEN nextPatch ELSE home[i]]
          /\ known' = known \cup NewIds(n)
          /\ nextId' = nextId + n
    BY <1>1 DEF AddPatch
  <2>2. \A q \in Patches : listed'[q] \subseteq listed[q] \cup known'
    BY <2>1
  <2>3. known \subseteq known' /\ made' = made /\ patch' = patch
    BY <1>1, <2>1 DEF AddPatch
  <2> QED
    BY <2>2, <2>3 DEF Kept
<1>2. ASSUME NEW c \in Callers, NEW p \in patches, CallAddModule(c, p) PROVE Kept
  BY <1>2, SMTT(30) DEF Kept, CallAddModule, Find
<1>3. ASSUME NEW c \in Callers, NEW p \in patches, CallRemovePatch(c, p) PROVE Kept
  BY <1>3, SMTT(30) DEF Kept, CallRemovePatch, Find
<1>4. ASSUME NEW c \in Callers, NEW p \in patches, NEW w \in Wires, CallConnect(c, p, w)
      PROVE  Kept
  <2>1. known' = known /\ listed' = listed /\ made' = made
    BY <1>4 DEF CallConnect, Find, WiresIn, Members
  <2>2. \A d \in Callers : made[d] # {} => patch'[d] = patch[d]
    BY <1>4, ZenonT(30) DEF CallConnect, Find, WiresIn, Members
  <2> QED
    BY <2>1, <2>2 DEF Kept
<1>5. ASSUME NEW c \in Callers, NEW p \in patches, NEW w \in Wires, CallDisconnect(c, p, w)
      PROVE  Kept
  <2>1. known' = known /\ listed' = listed /\ made' = made
    BY <1>5 DEF CallDisconnect, Find
  <2>2. \A d \in Callers : made[d] # {} => patch'[d] = patch[d]
    BY <1>5, ZenonT(30) DEF CallDisconnect, Find
  <2> QED
    BY <2>1, <2>2 DEF Kept
<1>6. ASSUME NEW c \in Callers, NEW p \in patches, NEW m \in Ids, CallRemoveModule(c, p, m)
      PROVE  Kept
  BY <1>6 DEF Kept, CallRemoveModule, Find, Members
<1>7. ASSUME NEW c \in Callers, NEW p \in patches, NEW n \in 1 .. MaxBatch, NEW ws \in
             SUBSET Wires, CallBatch(c, p, n, ws)
      PROVE  Kept
  BY <1>7, SMTT(30) DEF Kept, CallBatch, NewIds, WiresIn, Members
<1>8. ASSUME NEW c \in Callers, Create(c) PROVE Kept
  BY <1>8 DEF Kept, Create
<1>9. ASSUME NEW c \in Callers, CreateFails(c) PROVE Kept
  BY <1>9, ZenonT(30) DEF Kept, CreateFails, Finish
<1>10. ASSUME NEW c \in Callers, List(c) PROVE Kept
  <2>1. /\ known' = known \cup {module[c]} /\ patch[c] \in Patches
        /\ listed' = [listed EXCEPT ![patch[c]] = @ \cup {module[c]}]
    BY <1>10 DEF List
  <2>2. \A d \in Callers : made[d] \subseteq made'[d] /\ (made[d] # {} => patch'[d] = patch[d])
    BY <1>10 DEF List, Finish
  <2> QED
    BY <2>1, <2>2 DEF Kept
<1>11. ASSUME NEW c \in Callers, Connect(c) PROVE Kept
  <2>1. known' = known /\ listed' = listed
    BY <1>11 DEF Connect
  <2>2. \A d \in Callers : made[d] \subseteq made'[d] /\ (made[d] # {} => patch'[d] = patch[d])
    BY <1>11, ZenonT(30) DEF Connect, Finish
  <2> QED
    BY <2>1, <2>2 DEF Kept
<1>12. ASSUME NEW c \in Callers, Disconnect(c) PROVE Kept
  BY <1>12 DEF Kept, Disconnect, Finish
<1>13. ASSUME NEW c \in Callers, Cut(c) PROVE Kept
  BY <1>13 DEF Kept, Cut
<1>14. ASSUME NEW c \in Callers, StopFails(c) PROVE Kept
  <2>1. /\ UNCHANGED <<known, modules, listed, drawn, home>>
        /\ \A d \in Callers : d # c =>
              /\ pc'[d] = pc[d] /\ patch'[d] = patch[d] /\ module'[d] = module[d]
              /\ todo'[d] = todo[d] /\ links'[d] = links[d]
              /\ made'[d] = made[d] /\ laid'[d] = laid[d]
        /\ pc'[c] \in {"teardown", "idle"} /\ pc[c] = "cut"
        /\ made[c] = {} /\ laid[c] = {} /\ made'[c] = {} /\ laid'[c] = {}
    <3>1. made[c] = {} /\ laid[c] = {}
      BY <1>14 DEF StopFails
    <3>2. CASE Locked(c)
      BY <1>14, <3>1, <3>2 DEF StopFails
    <3>3. CASE ~Locked(c)
      BY <1>14, <3>1, <3>3 DEF StopFails, Finish
    <3> QED
      BY <3>2, <3>3
  <2>2. ASSUME NEW d \in Callers
        PROVE  made[d] \subseteq made'[d] /\ (made[d] # {} => patch'[d] = patch[d])
    BY <2>1
  <2> QED
    BY <2>1, <2>2 DEF Kept
<1>15. ASSUME NEW c \in Callers, Drop(c) PROVE Kept
  BY <1>15 DEF Kept, Drop, Locked
<1>16. ASSUME NEW c \in Callers, Unlist(c) PROVE Kept
  BY <1>16 DEF Kept, Unlist, Finish
<1>17. ASSUME NEW c \in Callers, LockPatch(c) PROVE Kept
  BY <1>17 DEF Kept, LockPatch, CanLock
<1>18. ASSUME NEW c \in Callers, Untie(c) PROVE Kept
  BY <1>18 DEF Kept, Untie
<1>19. ASSUME NEW c \in Callers, Unmap(c) PROVE Kept
  BY <1>19, SMTT(30) DEF Kept, Unmap, Finish
<1>20. ASSUME NEW c \in Callers, LockBatch(c) PROVE Kept
  BY <1>20 DEF Kept, LockBatch, CanLock
<1>21. ASSUME NEW c \in Callers, MakeFails(c) PROVE Kept
  BY <1>21 DEF Kept, MakeFails
<1>22. ASSUME NEW c \in Callers, LayFails(c) PROVE Kept
  BY <1>22 DEF Kept, LayFails
<1>23. ASSUME NEW c \in Callers, BatchDone(c) PROVE KnownListed'
  <2>1. known' = known \cup made[c] /\ listed' = listed
    BY <1>23 DEF BatchDone
  <2>2. ASSUME NEW d \in Callers, d # c PROVE made'[d] = made[d] /\ patch'[d] = patch[d]
    BY <1>23, <2>2 DEF BatchDone, Finish
  <2>3. ASSUME NEW q \in Patches, NEW i \in listed[q], i \notin known'
        PROVE  \E d \in Callers : patch'[d] = q /\ i \in made'[d]
    <3>1. PICK d \in Callers : patch[d] = q /\ i \in made[d]
      BY <2>1, <2>3
    <3> QED
      BY <2>1, <2>2, <2>3, <3>1
  <2> QED
    BY <2>1, <2>3
<1>24. ASSUME NEW c \in Callers, Undo(c) PROVE KnownListed'
  <2>1. /\ known' = known /\ listed' = [listed EXCEPT ![patch[c]] = @ \ made[c]]
    BY <1>24 DEF Undo, TakeBack
  <2>2. ASSUME NEW d \in Callers, d # c PROVE made'[d] = made[d] /\ patch'[d] = patch[d]
    BY <1>24, <2>2 DEF Undo, TakeBack, Finish
  <2>3. ASSUME NEW q \in Patches, NEW i \in listed'[q], i \notin known'
        PROVE  \E d \in Callers : patch'[d] = q /\ i \in made'[d]
    <3>1. i \in listed[q] /\ (q = patch[c] => i \notin made[c])
      BY <2>1, <2>3
    <3>2. PICK d \in Callers : patch[d] = q /\ i \in made[d]
      BY <2>1, <2>3, <3>1
    <3> QED
      BY <2>2, <3>1, <3>2
  <2> QED
    BY <2>3
<1>25. ASSUME NEW c \in Callers, NEW m \in todo[c], Teardown(c, m) PROVE Kept
  BY <1>25 DEF Kept, Teardown
<1>26. ASSUME NEW c \in Callers, NEW m \in todo[c], Make(c, m) PROVE KnownListed'
  <2>1. /\ known' = known /\ patch' = patch
        /\ listed' = [listed EXCEPT ![patch[c]] = @ \cup {m}]
        /\ made' = [made EXCEPT ![c] = @ \cup {m}]
    BY <1>26 DEF Make
  <2>2. ASSUME NEW q \in Patches, NEW i \in listed'[q], i \notin known'
        PROVE  \E d \in Callers : patch'[d] = q /\ i \in made'[d]
    <3>1. CASE i \in listed[q]
      <4>1. PICK d \in Callers : patch[d] = q /\ i \in made[d]
        BY <2>1, <2>2, <3>1
      <4> QED
        BY <2>1, <4>1
    <3>2. CASE i \notin listed[q]
      BY <2>1, <2>2, <3>2
    <3> QED
      BY <3>1, <3>2
  <2> QED
    BY <2>2
<1>27. ASSUME NEW c \in Callers, NEW w \in links[c], Lay(c, w) PROVE Kept
  BY <1>27 DEF Kept, Lay
<1>28. CASE UNCHANGED vars
  BY <1>28, <1>a DEF Kept, vars
<1> QED
  BY <1>a, <1>1, <1>2, <1>3, <1>4, <1>5, <1>6, <1>7, <1>8, <1>9, <1>10, <1>11, <1>12, <1>13,
      <1>14, <1>15, <1>16, <1>17, <1>18, <1>19, <1>20, <1>21, <1>22, <1>23, <1>24, <1>25,
      <1>26, <1>27, <1>28 DEF Next, Call, Continue

\* ... and a connection between such modules.
LEMMA KnownDrawnNext ==
    ASSUME TypeOK, HomeInv, KnownLinks, KnownDrawn, [Next]_vars
    PROVE  KnownDrawn'
<1> USE StructureAssumption, WireEnds DEF Patches, Ids, NoPatch, TypeOK, Types, Handles,
    HomeInv, Batching, Linked, KnownDrawn, Goto, idVars, specVars, mapVars, batchVars,
    callVars
<1> DEFINE Kept ==
        /\ known \subseteq known' /\ \A q \in Patches : drawn'[q] \subseteq drawn[q]
        /\ \A d \in Callers : laid[d] \subseteq laid'[d]
<1>a. Kept => KnownDrawn'
  OBVIOUS
<1> HIDE DEF Kept
<1>1. ASSUME NEW c \in Callers, AddPatch(c) PROVE KnownDrawn'
  <2>1. PICK n \in 0 .. MaxBatch :
          /\ NewIds(n) \subseteq Ids
          /\ \E defined \in SUBSET NewIds(n), ws \in SUBSET WiresIn(NewIds(n)) :
                /\ listed' = [listed EXCEPT ![nextPatch] = NewIds(n)]
                /\ drawn' = [drawn EXCEPT ![nextPatch] = ws]
                /\ modules' = modules \cup defined
                /\ routes' = routes \cup ws
          /\ home' = [i \in Ids |-> IF i \in NewIds(n) THEN nextPatch ELSE home[i]]
          /\ known' = known \cup NewIds(n)
          /\ nextId' = nextId + n
    BY <1>1 DEF AddPatch
  <2>2. \A w \in WiresIn(NewIds(n)) : Ends(w) \subseteq known'
    BY <2>1 DEF WiresIn
  <2>3. \A q \in Patches : drawn'[q] \subseteq drawn[q] \cup WiresIn(NewIds(n))
    BY <2>1
  <2>4. known \subseteq known' /\ laid' = laid
    BY <1>1, <2>1 DEF AddPatch
  <2> QED
    BY <2>2, <2>3, <2>4
<1>2. ASSUME NEW c \in Callers, NEW p \in patches, CallAddModule(c, p) PROVE Kept
  BY <1>2 DEF Kept, CallAddModule, Find
<1>3. ASSUME NEW c \in Callers, NEW p \in patches, CallRemovePatch(c, p) PROVE Kept
  BY <1>3 DEF Kept, CallRemovePatch, Find
<1>4. ASSUME NEW c \in Callers, NEW p \in patches, NEW w \in Wires, CallConnect(c, p, w)
      PROVE  Kept
  BY <1>4 DEF Kept, CallConnect, Find, WiresIn, Members
<1>5. ASSUME NEW c \in Callers, NEW p \in patches, NEW w \in Wires, CallDisconnect(c, p, w)
      PROVE  Kept
  BY <1>5 DEF Kept, CallDisconnect, Find
<1>6. ASSUME NEW c \in Callers, NEW p \in patches, NEW m \in Ids, CallRemoveModule(c, p, m)
      PROVE  Kept
  BY <1>6 DEF Kept, CallRemoveModule, Find, Members
<1>7. ASSUME NEW c \in Callers, NEW p \in patches, NEW n \in 1 .. MaxBatch, NEW ws \in
             SUBSET Wires, CallBatch(c, p, n, ws)
      PROVE  Kept
  BY <1>7 DEF Kept, CallBatch, NewIds, WiresIn, Members
<1>8. ASSUME NEW c \in Callers, Create(c) PROVE Kept
  BY <1>8 DEF Kept, Create
<1>9. ASSUME NEW c \in Callers, CreateFails(c) PROVE Kept
  BY <1>9 DEF Kept, CreateFails, Finish
<1>10. ASSUME NEW c \in Callers, List(c) PROVE Kept
  BY <1>10 DEF Kept, List, Finish
<1>11. ASSUME NEW c \in Callers, Connect(c) PROVE KnownDrawn'
  <2>1. known' = known /\ \A q \in Patches : drawn'[q] \subseteq drawn[q] \cup links[c]
    BY <1>11, ZenonT(30) DEF Connect
  <2>2. ASSUME NEW d \in Callers PROVE laid[d] \subseteq laid'[d]
    BY <1>11 DEF Connect, Finish
  <2>3. \A w \in links[c] : Ends(w) \subseteq known
    BY <1>11 DEF Connect, KnownLinks
  <2> QED
    BY <2>1, <2>2, <2>3
<1>12. ASSUME NEW c \in Callers, Disconnect(c) PROVE Kept
  BY <1>12 DEF Kept, Disconnect, Finish
<1>13. ASSUME NEW c \in Callers, Cut(c) PROVE Kept
  BY <1>13 DEF Kept, Cut
<1>14. ASSUME NEW c \in Callers, StopFails(c) PROVE Kept
  <2>1. /\ UNCHANGED <<known, modules, listed, drawn, home>>
        /\ \A d \in Callers : d # c =>
              /\ pc'[d] = pc[d] /\ patch'[d] = patch[d] /\ module'[d] = module[d]
              /\ todo'[d] = todo[d] /\ links'[d] = links[d]
              /\ made'[d] = made[d] /\ laid'[d] = laid[d]
        /\ pc'[c] \in {"teardown", "idle"} /\ pc[c] = "cut"
        /\ made[c] = {} /\ laid[c] = {} /\ made'[c] = {} /\ laid'[c] = {}
    <3>1. made[c] = {} /\ laid[c] = {}
      BY <1>14 DEF StopFails
    <3>2. CASE Locked(c)
      BY <1>14, <3>1, <3>2 DEF StopFails
    <3>3. CASE ~Locked(c)
      BY <1>14, <3>1, <3>3 DEF StopFails, Finish
    <3> QED
      BY <3>2, <3>3
  <2>2. ASSUME NEW d \in Callers PROVE laid[d] \subseteq laid'[d]
    BY <2>1
  <2> QED
    BY <2>1, <2>2 DEF Kept
<1>15. ASSUME NEW c \in Callers, Drop(c) PROVE Kept
  BY <1>15 DEF Kept, Drop, Locked
<1>16. ASSUME NEW c \in Callers, Unlist(c) PROVE Kept
  BY <1>16 DEF Kept, Unlist, Finish
<1>17. ASSUME NEW c \in Callers, LockPatch(c) PROVE Kept
  BY <1>17 DEF Kept, LockPatch, CanLock
<1>18. ASSUME NEW c \in Callers, Untie(c) PROVE Kept
  BY <1>18 DEF Kept, Untie
<1>19. ASSUME NEW c \in Callers, Unmap(c) PROVE Kept
  BY <1>19 DEF Kept, Unmap, Finish
<1>20. ASSUME NEW c \in Callers, LockBatch(c) PROVE Kept
  BY <1>20 DEF Kept, LockBatch, CanLock
<1>21. ASSUME NEW c \in Callers, MakeFails(c) PROVE Kept
  BY <1>21 DEF Kept, MakeFails
<1>22. ASSUME NEW c \in Callers, LayFails(c) PROVE Kept
  BY <1>22 DEF Kept, LayFails
<1>23. ASSUME NEW c \in Callers, BatchDone(c) PROVE KnownDrawn'
  <2>1. known' = known \cup made[c] /\ drawn' = drawn
    BY <1>23 DEF BatchDone
  <2>2. ASSUME NEW d \in Callers, d # c PROVE laid[d] \subseteq laid'[d]
    BY <1>23, <2>2 DEF BatchDone, Finish
  <2>3. \A w \in laid[c] : Ends(w) \subseteq known'
    BY <1>23, <2>1 DEF BatchDone, KnownLinks
  <2>4. ASSUME NEW q \in Patches, NEW w \in drawn[q]
        PROVE  Ends(w) \subseteq known' \/ \E d \in Callers : w \in laid'[d]
    BY <2>1, <2>2, <2>3
  <2> QED
    BY <2>1, <2>4
<1>24. ASSUME NEW c \in Callers, Undo(c) PROVE KnownDrawn'
  <2>1. /\ known' = known /\ patch[c] \in Patches
        /\ drawn' = [drawn EXCEPT ![patch[c]] = @ \ laid[c]]
    BY <1>24 DEF Undo, TakeBack
  <2>2. ASSUME NEW d \in Callers, d # c PROVE laid[d] \subseteq laid'[d]
    BY <1>24, <2>2 DEF Undo, TakeBack, Finish
  <2>3. ASSUME NEW q \in Patches, NEW w \in drawn[q], w \in laid[c] PROVE q = patch[c]
    <3>1. home[w[1]] = q /\ q # NoPatch
      BY <2>3 DEF DrawnAtHome
    <3>2. home[w[1]] = patch[c] \/ home[w[1]] = NoPatch
      BY <1>24, <2>3 DEF Undo, TakeBack, Todos
    <3> QED
      BY <3>1, <3>2
  <2>4. ASSUME NEW q \in Patches, NEW w \in drawn'[q]
        PROVE  w \in drawn[q] /\ w \notin laid[c]
    BY <2>1, <2>3
  <2> QED
    BY <2>1, <2>2, <2>4
<1>25. ASSUME NEW c \in Callers, NEW m \in todo[c], Teardown(c, m) PROVE Kept
  BY <1>25 DEF Kept, Teardown
<1>26. ASSUME NEW c \in Callers, NEW m \in todo[c], Make(c, m) PROVE Kept
  BY <1>26 DEF Kept, Make
<1>27. ASSUME NEW c \in Callers, NEW w \in links[c], Lay(c, w) PROVE KnownDrawn'
  <2>1. /\ known' = known /\ drawn' = [drawn EXCEPT ![patch[c]] = @ \cup {w}]
        /\ laid' = [laid EXCEPT ![c] = @ \cup {w}]
    BY <1>27 DEF Lay
  <2>2. \A q \in Patches : drawn'[q] \subseteq drawn[q] \cup {w}
    BY <2>1
  <2>3. w \in laid'[c] /\ \A d \in Callers : laid[d] \subseteq laid'[d]
    BY <2>1
  <2>4. ASSUME NEW q \in Patches, NEW v \in drawn'[q]
        PROVE  Ends(v) \subseteq known' \/ \E d \in Callers : v \in laid'[d]
    <3>1. CASE v = w
      BY <2>3, <3>1
    <3>2. CASE v \in drawn[q]
      BY <2>1, <2>3, <3>2
    <3> QED
      BY <2>2, <3>1, <3>2
  <2> QED
    BY <2>4
<1>28. CASE UNCHANGED vars
  BY <1>28, <1>a DEF Kept, vars
<1> QED
  BY <1>a, <1>1, <1>2, <1>3, <1>4, <1>5, <1>6, <1>7, <1>8, <1>9, <1>10, <1>11, <1>12, <1>13,
      <1>14, <1>15, <1>16, <1>17, <1>18, <1>19, <1>20, <1>21, <1>22, <1>23, <1>24, <1>25,
      <1>26, <1>27, <1>28 DEF Next, Call, Continue

-----------------------------------------------------------------------------
\* The invariant behind the properties holds from the start.
LEMMA StructureInit == Init => StructureInv
<1> SUFFICES ASSUME Init PROVE StructureInv
  OBVIOUS
<1> USE DEF Init, Patches, Ids, NoPatch
<1>1. HomeInv
  BY StructureAssumption DEF HomeInv, Numbered, Todos, Homed, Linked, DrawnAtHome, Batching
<1>2. WireInv
  BY DEF WireInv, DrawnIsRouted, AllDrawn
<1>3. AllListed
  BY DEF AllListed
<1>4. KnownInv
  BY DEF KnownInv, KnownLinks, KnownModules, KnownListed, KnownDrawn, Batching
<1> QED
  BY <1>1, <1>2, <1>3, <1>4 DEF StructureInv

\* Everything is in the patch it belongs to, in the spec and in the maps alike,
\* or in the hands of the call that adds it or takes it away.
THEOREM StructureInvHolds == Spec => []StructureInv
<1>1. TypeOK /\ StructureInv /\ [Next]_vars => StructureInv'
  <2> SUFFICES ASSUME TypeOK, HomeInv, WireInv, AllListed, KnownInv, [Next]_vars
               PROVE  StructureInv'
    BY DEF StructureInv
  <2>1. HomeInv'
    BY HomeNext
  <2>2. WireInv'
    BY AllDrawnNext, DrawnNext DEF WireInv
  <2>3. AllListed'
    BY ListedNext
  <2>4. KnownInv'
    BY KnownLinksNext, KnownModulesNext, KnownListedNext, KnownDrawnNext DEF KnownInv
  <2> QED
    BY <2>1, <2>2, <2>3, <2>4 DEF StructureInv
<1> QED
  BY <1>1, StructureInit, StructureTypeCorrect, PTL DEF Spec

\* A connection drawn between two instances is routed, whatever other patches,
\* batches, rollbacks and removals do to the shared map.
THEOREM DrawnIsRoutedHolds == Spec => []DrawnIsRouted
<1>1. StructureInv => DrawnIsRouted
  BY DEF StructureInv, WireInv
<1> QED
  BY <1>1, StructureInvHolds, PTL

\* A route that starts in a live patch is drawn in its spec.
THEOREM RoutedIsDrawnHolds == Spec => []RoutedIsDrawn
<1>1. StructureInv => RoutedIsDrawn
  BY DEF StructureInv, WireInv, AllDrawn, RoutedIsDrawn
<1> QED
  BY <1>1, StructureInvHolds, PTL

\* When no call is under way, the instances of a live patch are in its spec.
THEOREM InstancesListedHolds == Spec => []InstancesListed
<1>1. StructureInv => InstancesListed
  BY DEF StructureInv, AllListed, InstancesListed, Quiet
<1> QED
  BY <1>1, StructureInvHolds, PTL

\* When no call is under way, an id no host was told of is in no map, no spec
\* and no route.
THEOREM FailuresLeaveNothingHolds == Spec => []FailuresLeaveNothing
<1>1. TypeOK /\ StructureInv => FailuresLeaveNothing
  <2> SUFFICES ASSUME TypeOK, StructureInv, Quiet, NEW i \in Ids, i \notin known
               PROVE  /\ i \notin modules
                      /\ \A w \in routes : i \notin Ends(w)
                      /\ \A p \in Patches : i \notin listed[p] /\ \A w \in drawn[p] : i \notin Ends(w)
    BY DEF FailuresLeaveNothing
  <2>1. \A c \in Callers : made[c] = {} /\ laid[c] = {} /\ pc[c] = "idle"
    BY DEF StructureInv, HomeInv, Linked, Quiet, Batching
  <2>2. i \notin modules
    BY <2>1 DEF StructureInv, KnownInv, KnownModules
  <2>3. \A p \in Patches : i \notin listed[p]
    BY <2>1 DEF StructureInv, KnownInv, KnownListed
  <2>4. \A p \in Patches : \A w \in drawn[p] : i \notin Ends(w)
    BY <2>1 DEF StructureInv, KnownInv, KnownDrawn
  <2>5. ASSUME NEW w \in routes PROVE i \notin Ends(w)
    <3>1. w[1] \in Ids
      BY WireEnds DEF TypeOK, Types
    <3>2. home[w[1]] \in Patches /\ w \in drawn[home[w[1]]]
      BY <3>1 DEF StructureInv, WireInv, AllDrawn, TypeOK, Types
    <3> QED
      BY <2>4, <3>2
  <2> QED
    BY <2>2, <2>3, <2>4, <2>5
<1> QED
  BY <1>1, StructureInvHolds, StructureTypeCorrect, PTL

\* The specs draw what the runtime routes.
THEOREM DrawnAsRoutedHolds == Spec => []DrawnAsRouted
<1>1. DrawnIsRouted /\ RoutedIsDrawn => DrawnAsRouted
  BY DEF DrawnAsRouted
<1>. QED
  BY <1>1, DrawnIsRoutedHolds, RoutedIsDrawnHolds, PTL

\* Instances are listed, and failed calls leave none.
THEOREM NothingIsOutOfReach == Spec => []NothingOutOfReach
<1>1. FailuresLeaveNothing /\ InstancesListed => NothingOutOfReach
  BY DEF NothingOutOfReach
<1>. QED
  BY <1>1, FailuresLeaveNothingHolds, InstancesListedHolds, PTL
=============================================================================
