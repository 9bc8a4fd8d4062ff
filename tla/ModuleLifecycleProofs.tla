------------------------ MODULE ModuleLifecycleProofs ------------------------
(***************************************************************************)
(* Theorems about ModuleLifecycle, for any set of modules, channels and    *)
(* host tasks and any menu of operations.                                  *)
(*                                                                         *)
(*   TypeCorrect        the type invariant, by parts                       *)
(*   SlotsAgreeHolds    inbox and token slot are of one incarnation        *)
(*   RegInvHolds        the inductive invariant behind ...                 *)
(*   RegistrationHolds  ... where an ExternalInputModule is listed         *)
(*   GenInvHolds        the one about the generations, and so ...          *)
(*   DeadInboxHolds     ... a dead inbox is that of a cancelled loop       *)
(*                                                                         *)
(* and, where modules are started with their patch (StartedByPatch),       *)
(*                                                                         *)
(*   RunInvHolds        the one about the patch lock and the tokens        *)
(*   OneLiveLoopHolds   a module has one loop that is not cancelled        *)
(*   OwnerProcessesHolds  only the owner of the slot goes on to process    *)
(***************************************************************************)
EXTENDS ModuleLifecycle, TLAPS

(* What the helpers of the specification return, given states of the right   *)
(* type.                                                                     *)

\* ExternalInputModule.start keeps the registrations well formed.
LEMMA RegisterType ==
  ASSUME ModulesOK, NEW m \in Modules, External(m)
  PROVE  Register(m) \in [Modules -> [Channels -> Nat]]
<1> DEFINE R == [registered[m] EXCEPT ![channel[m]] = @ + 1]
<1>1. channel[m] \in Channels
  BY DEF ModulesOK, External
<1>2. R \in [Channels -> Nat]
  BY <1>1 DEF ModulesOK
<1>3. Register(m) = [registered EXCEPT ![m] = R]
  BY DEF Register
<1>. QED
  BY <1>2, <1>3 DEF ModulesOK

\* ExternalInputModule.stop keeps the registrations well formed.
LEMMA UnregisterType ==
  ASSUME ModulesOK, NEW m \in Modules, External(m)
  PROVE  Unregister(m) \in [Modules -> [Channels -> Nat]]
<1> DEFINE R == [registered[m] EXCEPT ![channel[m]] = 0]
<1>1. R \in [Channels -> Nat]
  BY DEF ModulesOK
<1>2. Unregister(m) = [registered EXCEPT ![m] = R]
  BY DEF Unregister
<1>. QED
  BY <1>1, <1>2 DEF ModulesOK

\* configs_changed keeps channel and registrations well formed.
LEMMA ConfigureType ==
  ASSUME ModulesOK, NEW m \in Modules, NEW ch \in Channels, Configure(m, ch)
  PROVE  /\ channel' \in [Modules -> Channels \cup {NoChannel}]
         /\ registered' \in [Modules -> [Channels -> Nat]]
<1>1. channel' \in [Modules -> Channels \cup {NoChannel}]
  BY DEF Configure, ModulesOK
<1>2. CASE channel[m] # ch /\ status[m] = "Start" /\ External(m)
  <2> DEFINE U == Unregister(m)
             R == [U[m] EXCEPT ![ch] = @ + 1]
  <2>1. U \in [Modules -> [Channels -> Nat]]
    BY <1>2, UnregisterType
  <2>2. registered' = [U EXCEPT ![m] = R]
    BY <1>2 DEF Configure
  <2>. HIDE DEF U
  <2>3. R \in [Channels -> Nat]
    BY <2>1
  <2>. QED
    BY <1>1, <2>1, <2>2, <2>3
<1>3. CASE ~(channel[m] # ch /\ status[m] = "Start" /\ External(m))
  BY <1>1, <1>3 DEF Configure, ModulesOK
<1>. QED
  BY <1>2, <1>3

\* ModuleInbox::send keeps the queues well formed.
LEMMA PushType ==
  ASSUME LoopsOK, NEW g \in Gens, NEW msg \in Messages
  PROVE  Push(queue, g, msg) \in [Gens -> Seq(Messages)]
<1>1. queue \in [Gens -> Seq(Messages)]
  BY DEF LoopsOK
<1>2. Append(queue[g], msg) \in Seq(Messages)
  BY <1>1
<1>. QED
  BY <1>1, <1>2 DEF Push

\* Firing, replacing or removing a patch token keeps the tokens well formed.
LEMMA TokensType ==
  ASSUME NEW t \in [Gens -> TokenStates]
  PROVE  /\ FireAttached(t) \in [Gens -> TokenStates]
         /\ DetachAttached(t) \in [Gens -> TokenStates]
BY DEF FireAttached, DetachAttached, TokenStates

-----------------------------------------------------------------------------
\* Every variable keeps its type, and a call or a loop that is at a step which
\* uses a module, a generation or a channel has one at hand.
THEOREM TypeCorrect == Spec => []TypeOK
<1> USE LifecycleAssumption DEF Gens, Free, None, LoopStates, CallStates, TokenStates,
        ModuleStates, SendStates, PatchStates
<1>1. Init => TypeOK
  <2> SUFFICES ASSUME Init PROVE TypeOK
    OBVIOUS
  <2>1. ModulesOK /\ SlotsOK
    BY DEF Init, ModulesOK, SlotsOK
  <2>2. LoopsOK
    BY DEF Init, LoopsOK
  <2>3. PatchOK /\ CallsOK
    BY DEF Init, PatchOK, CallsOK
  <2>. QED
    BY <2>1, <2>2, <2>3 DEF TypeOK
<1>2. TypeOK /\ [Next]_vars => TypeOK'
  <2> SUFFICES ASSUME TypeOK, [Next]_vars
               PROVE  TypeOK'
    OBVIOUS
  <2> USE DEF moduleVars, slotVars, loopVars, patchVars, callVars, TypeOK
  <2>1. ASSUME NEW c \in Callers, CallStartPatch(c) PROVE TypeOK'
    BY <2>1 DEF CallStartPatch, ModulesOK, SlotsOK, LoopsOK, PatchOK, CallsOK
  <2>2. ASSUME NEW c \in Callers, CallStopPatch(c) PROVE TypeOK'
    BY <2>2 DEF CallStopPatch, ModulesOK, SlotsOK, LoopsOK, PatchOK, CallsOK
  <2>3. ASSUME NEW c \in Callers, NEW m \in Modules, CallStartModule(c, m) PROVE TypeOK'
    BY <2>3 DEF CallStartModule, ModulesOK, SlotsOK, LoopsOK, PatchOK, CallsOK
  <2>4. ASSUME NEW c \in Callers, NEW m \in Modules, CallStopModule(c, m) PROVE TypeOK'
    BY <2>4 DEF CallStopModule, ModulesOK, SlotsOK, LoopsOK, PatchOK, CallsOK
  <2>5. ASSUME NEW c \in Callers, NEW m \in Modules, CallInput(c, m) PROVE TypeOK'
    <3>1. ModulesOK'
      BY <2>5 DEF CallInput, External, ModulesOK
    <3>2. SlotsOK'
      BY <2>5 DEF CallInput, External, SlotsOK
    <3>3. LoopsOK'
      BY <2>5 DEF CallInput, External, LoopsOK, SlotsOK
    <3>4. PatchOK'
      BY <2>5 DEF CallInput, External, PatchOK
    <3>5. CallsOK'
      BY <2>5 DEF CallInput, External, CallsOK, SlotsOK
    <3>. QED
      BY <3>1, <3>2, <3>3, <3>4, <3>5
  <2>6. ASSUME NEW c \in Callers, NEW m \in Modules,
               NEW ch \in Channels, CallSetConfigs(c, m, ch)
        PROVE  TypeOK'
    <3>1. ModulesOK'
      BY <2>6 DEF CallSetConfigs, ModulesOK
    <3>2. SlotsOK'
      BY <2>6 DEF CallSetConfigs, SlotsOK
    <3>3. LoopsOK'
      BY <2>6 DEF CallSetConfigs, LoopsOK, SlotsOK
    <3>4. PatchOK'
      BY <2>6 DEF CallSetConfigs, PatchOK
    <3>5. CallsOK'
      BY <2>6 DEF CallSetConfigs, CallsOK, SlotsOK
    <3>. QED
      BY <3>1, <3>2, <3>3, <3>4, <3>5
  <2>7. ASSUME NEW c \in Callers, PatchAlreadyRunning(c) PROVE TypeOK'
    BY <2>7 DEF PatchAlreadyRunning, ModulesOK, SlotsOK, LoopsOK, PatchOK, CallsOK
  <2>8. ASSUME NEW c \in Callers, LockForStart(c) PROVE TypeOK'
    BY <2>8 DEF LockForStart, DetachAttached, ModulesOK, SlotsOK, LoopsOK, PatchOK,
       CallsOK
  <2>9. ASSUME NEW c \in Callers, EachStart(c) PROVE TypeOK'
    BY <2>9 DEF EachStart, ModulesOK, SlotsOK, LoopsOK, PatchOK, CallsOK
  <2>10. ASSUME NEW c \in Callers, PatchStarted(c) PROVE TypeOK'
    <3>1. ModulesOK' /\ SlotsOK'
      BY <2>10 DEF PatchStarted, ModulesOK, SlotsOK, LoopsOK
    <3>2. LoopsOK'
      BY <2>10 DEF PatchStarted, LoopsOK
    <3>3. PatchOK'
      BY <2>10 DEF PatchStarted, PatchOK, CallsOK
    <3>4. CallsOK'
      BY <2>10 DEF PatchStarted, CallsOK, PatchOK
    <3>. QED
      BY <3>1, <3>2, <3>3, <3>4
  <2>11. ASSUME NEW c \in Callers, LockForStop(c) PROVE TypeOK'
    <3>1. token' \in [Gens -> TokenStates] /\ fresh' \in [Gens -> TokenStates]
      BY <2>11, TokensType DEF LockForStop, LoopsOK
    <3>. QED
      BY <2>11, <3>1 DEF LockForStop, ModulesOK, SlotsOK, LoopsOK, PatchOK, CallsOK
  <2>12. ASSUME NEW c \in Callers, EachStop(c) PROVE TypeOK'
    BY <2>12 DEF EachStop, ModulesOK, SlotsOK, LoopsOK, PatchOK, CallsOK
  <2>13. ASSUME NEW c \in Callers, PatchStopped(c) PROVE TypeOK'
    <3>1. ModulesOK' /\ SlotsOK'
      BY <2>13 DEF PatchStopped, DetachAttached, ModulesOK, SlotsOK, LoopsOK
    <3>2. LoopsOK'
      BY <2>13 DEF PatchStopped, DetachAttached, LoopsOK
    <3>3. PatchOK'
      BY <2>13 DEF PatchStopped, DetachAttached, PatchOK, CallsOK
    <3>4. CallsOK'
      BY <2>13 DEF PatchStopped, DetachAttached, CallsOK, PatchOK
    <3>. QED
      BY <3>1, <3>2, <3>3, <3>4
  <2>14. ASSUME NEW c \in Callers, NotInit(c) PROVE TypeOK'
    BY <2>14 DEF NotInit, Return, ModulesOK, SlotsOK, LoopsOK, PatchOK, CallsOK
  <2>15. ASSUME NEW c \in Callers, ReadInit(c) PROVE TypeOK'
    BY <2>15 DEF ReadInit, ModulesOK, SlotsOK, LoopsOK, PatchOK, CallsOK
  <2>16. ASSUME NEW c \in Callers, NewToken(c) PROVE TypeOK'
    BY <2>16 DEF NewToken, ChildOf, ModulesOK, SlotsOK, LoopsOK, PatchOK, CallsOK
  <2>17. ASSUME NEW c \in Callers, Install(c) PROVE TypeOK'
    BY <2>17 DEF Install, Return, ModulesOK, SlotsOK, LoopsOK, PatchOK, CallsOK
  <2>18. ASSUME NEW c \in Callers, TakeInbox(c) PROVE TypeOK'
    <3>1. queue' \in [Gens -> Seq(Messages)]
      <4>1. StopMsg \in Messages
        BY DEF StopMsg, Messages
      <4>. QED
        BY <2>18, <4>1, PushType DEF TakeInbox, SlotsOK, LoopsOK, CallsOK
    <3>. QED
      BY <2>18, <3>1 DEF TakeInbox, ModulesOK, SlotsOK, LoopsOK, PatchOK, CallsOK
  <2>19. ASSUME NEW c \in Callers, TakeToken(c) PROVE TypeOK'
    <3>1. ModulesOK' /\ PatchOK'
      BY <2>19 DEF TakeToken, ModulesOK, PatchOK
    <3>2. SlotsOK' /\ LoopsOK'
      BY <2>19 DEF TakeToken, SlotsOK, LoopsOK
    <3>3. CallsOK'
      BY <2>19 DEF TakeToken, PatchOK, SlotsOK, CallsOK
    <3>. QED
      BY <3>1, <3>2, <3>3
  <2>20. ASSUME NEW c \in Callers, NothingToStop(c) PROVE TypeOK'
    BY <2>20 DEF NothingToStop, Return, ModulesOK, SlotsOK, LoopsOK, PatchOK, CallsOK
  <2>21. ASSUME NEW c \in Callers, BeginStop(c) PROVE TypeOK'
    BY <2>21 DEF BeginStop, ModulesOK, SlotsOK, LoopsOK, PatchOK, CallsOK
  <2>22. ASSUME NEW c \in Callers, Stopped(c) PROVE TypeOK'
    BY <2>22 DEF Stopped, External, Unregister, Return, ModulesOK, SlotsOK,
       LoopsOK, PatchOK, CallsOK
  <2>23. ASSUME NEW c \in Callers, StopFails(c) PROVE TypeOK'
    BY <2>23 DEF StopFails, External, Return, ModulesOK, SlotsOK, LoopsOK, PatchOK,
       CallsOK
  <2>24. ASSUME NEW c \in Callers, Send(c) PROVE TypeOK'
    <3> DEFINE msg == IF pc[c] = "sendInput" THEN InputMsg ELSE ConfigMsg(arg[c])
    <3>1. msg \in Messages
      BY <2>24 DEF Send, CallsOK, InputMsg, ConfigMsg, Messages
    <3>2. queue' \in [Gens -> Seq(Messages)]
      BY <2>24, <3>1, PushType DEF Send, CallsOK
    <3>3. ModulesOK' /\ SlotsOK' /\ PatchOK'
      BY <2>24 DEF Send, EndSend, ModulesOK, SlotsOK, PatchOK
    <3>4. LoopsOK'
      BY <2>24, <3>2 DEF Send, EndSend, LoopsOK
    <3>5. CallsOK'
      BY <2>24 DEF Send, EndSend, CallsOK, PatchOK
    <3>. QED
      BY <3>3, <3>4, <3>5
  <2>25. ASSUME NEW c \in Callers, SetDirect(c) PROVE TypeOK'
    BY <2>25 DEF SetDirect, Configure, External, Unregister, EndSend, ModulesOK,
       SlotsOK, LoopsOK, PatchOK, CallsOK
  <2>26. ASSUME NEW g \in Gens, PollStart(g) PROVE TypeOK'
    BY <2>26 DEF PollStart, LoopIs, Fired, LoopTo, ModulesOK, SlotsOK, LoopsOK,
       PatchOK, CallsOK
  <2>27. ASSUME NEW g \in Gens, StartCancelled(g) PROVE TypeOK'
    BY <2>27 DEF StartCancelled, LoopIs, Fired, LoopTo, ModulesOK, SlotsOK, LoopsOK,
       PatchOK, CallsOK
  <2>28. ASSUME NEW g \in Gens, StartPending(g) PROVE TypeOK'
    BY <2>28 DEF StartPending, LoopIs, LoopTo, ModulesOK, SlotsOK, LoopsOK, PatchOK,
       CallsOK
  <2>29. ASSUME NEW g \in Gens, StartExternal(g) PROVE TypeOK'
    <3>1. owner[g] \in Modules
      BY <2>29 DEF StartExternal, LoopIs, LoopsOK
    <3>2. registered' \in [Modules -> [Channels -> Nat]]
      BY <2>29, <3>1, RegisterType DEF StartExternal
    <3>. QED
      BY <2>29, <3>1, <3>2 DEF StartExternal, LoopIs, LoopTo, ModulesOK, SlotsOK,
         LoopsOK, PatchOK, CallsOK
  <2>30. ASSUME NEW g \in Gens, BeginStart(g) PROVE TypeOK'
    BY <2>30 DEF BeginStart, LoopIs, External, LoopTo, ModulesOK, SlotsOK, LoopsOK,
       PatchOK, CallsOK
  <2>31. ASSUME NEW g \in Gens, StartSucceeds(g) PROVE TypeOK'
    BY <2>31 DEF StartSucceeds, LoopIs, LoopTo, ModulesOK, SlotsOK, LoopsOK, PatchOK,
       CallsOK
  <2>32. ASSUME NEW g \in Gens, StartDropped(g) PROVE TypeOK'
    BY <2>32 DEF StartDropped, LoopIs, Fired, LoopTo, ModulesOK, SlotsOK, LoopsOK,
       PatchOK, CallsOK
  <2>33. ASSUME NEW g \in Gens, StartFails(g) PROVE TypeOK'
    BY <2>33 DEF StartFails, LoopIs, LoopTo, ModulesOK, SlotsOK, LoopsOK,
       PatchOK, CallsOK
  <2>34. ASSUME NEW g \in Gens, ReleaseSlot(g) PROVE TypeOK'
    <3>1. ModulesOK' /\ SlotsOK'
      BY <2>34 DEF ReleaseSlot, LoopIs, LoopTo, ModulesOK, SlotsOK, LoopsOK
    <3>2. LoopsOK'
      BY <2>34 DEF ReleaseSlot, LoopIs, LoopTo, LoopsOK
    <3>3. PatchOK'
      BY <2>34 DEF ReleaseSlot, LoopIs, LoopTo, PatchOK, CallsOK
    <3>4. CallsOK'
      BY <2>34 DEF ReleaseSlot, LoopIs, LoopTo, CallsOK, PatchOK
    <3>. QED
      BY <3>1, <3>2, <3>3, <3>4
  <2>35. ASSUME NEW g \in Gens, DropInput(g) PROVE TypeOK'
    BY <2>35 DEF DropInput, Receiving, LoopIs, ModulesOK, SlotsOK, LoopsOK, PatchOK,
       CallsOK
  <2>36. ASSUME NEW g \in Gens, RecvInput(g) PROVE TypeOK'
    BY <2>36 DEF RecvInput, Receiving, LoopIs, LoopTo, ModulesOK, SlotsOK, LoopsOK,
       PatchOK, CallsOK
  <2>37. ASSUME NEW g \in Gens, RecvConfig(g) PROVE TypeOK'
    <3>1. Head(queue[g]) \in Messages /\ Tail(queue[g]) \in Seq(Messages)
      BY <2>37 DEF RecvConfig, Receiving, LoopsOK
    <3>2. PICK ch \in Channels : ch = Head(queue[g]).channel
      BY <2>37, <3>1 DEF RecvConfig, Receiving, Messages
    <3>3. PICK m \in Modules : m = owner[g]
      BY <2>37 DEF RecvConfig, Receiving, LoopIs, LoopsOK
    <3>4. Configure(m, ch)
      BY <2>37, <3>2, <3>3 DEF RecvConfig
    <3>5. ModulesOK'
      BY <2>37, <3>4, ConfigureType DEF RecvConfig, ModulesOK
    <3>6. LoopsOK'
      BY <2>37, <3>1 DEF RecvConfig, LoopsOK
    <3>. QED
      BY <2>37, <3>5, <3>6 DEF RecvConfig, SlotsOK, PatchOK, CallsOK
  <2>38. ASSUME NEW g \in Gens, RecvStop(g) PROVE TypeOK'
    BY <2>38 DEF RecvStop, Receiving, LoopIs, LoopTo, ModulesOK, SlotsOK, LoopsOK,
       PatchOK, CallsOK
  <2>39. ASSUME NEW g \in Gens, RecvNone(g) PROVE TypeOK'
    <3>1. ModulesOK' /\ SlotsOK'
      BY <2>39 DEF RecvNone, LoopIs, HasSender, LoopTo, ModulesOK, SlotsOK, LoopsOK
    <3>2. LoopsOK'
      BY <2>39 DEF RecvNone, LoopIs, HasSender, LoopTo, LoopsOK
    <3>3. PatchOK'
      BY <2>39 DEF RecvNone, LoopIs, HasSender, LoopTo, PatchOK, CallsOK
    <3>4. CallsOK'
      BY <2>39 DEF RecvNone, LoopIs, HasSender, LoopTo, CallsOK, PatchOK
    <3>. QED
      BY <3>1, <3>2, <3>3, <3>4
  <2>40. ASSUME NEW g \in Gens, PollInput(g) PROVE TypeOK'
    BY <2>40 DEF PollInput, LoopIs, Fired, LoopTo, ModulesOK, SlotsOK, LoopsOK,
       PatchOK, CallsOK
  <2>41. ASSUME NEW g \in Gens, InputSkipped(g) PROVE TypeOK'
    BY <2>41 DEF InputSkipped, LoopIs, Fired, LoopTo, ModulesOK, SlotsOK, LoopsOK,
       PatchOK, CallsOK
  <2>42. ASSUME NEW g \in Gens, InputPending(g) PROVE TypeOK'
    BY <2>42 DEF InputPending, LoopIs, LoopTo, ModulesOK, SlotsOK, LoopsOK, PatchOK,
       CallsOK
  <2>43. ASSUME NEW g \in Gens, BeginProcess(g) PROVE TypeOK'
    BY <2>43 DEF BeginProcess, LoopIs, LoopTo, ModulesOK, SlotsOK, LoopsOK, PatchOK,
       CallsOK
  <2>44. ASSUME NEW g \in Gens, EndProcess(g) PROVE TypeOK'
    BY <2>44 DEF EndProcess, LoopIs, LoopTo, ModulesOK, SlotsOK, LoopsOK, PatchOK,
       CallsOK
  <2>45. ASSUME NEW g \in Gens, ProcessDropped(g) PROVE TypeOK'
    BY <2>45 DEF ProcessDropped, LoopIs, Fired, LoopTo, ModulesOK, SlotsOK, LoopsOK,
       PatchOK, CallsOK
  <2>46. ASSUME NEW g \in Gens, RenewLookup(g) PROVE TypeOK'
    <3>1. ModulesOK' /\ SlotsOK' /\ PatchOK'
      BY <2>46 DEF RenewLookup, ModulesOK, SlotsOK, PatchOK
    <3>2. LoopsOK'
      BY <2>46 DEF RenewLookup, LoopIs, LoopTo, ChildOf, LoopsOK
    <3>3. CallsOK'
      <4>1. \A h \in Gens : loop[h] # "none" => loop'[h] # "none"
        BY <2>46 DEF RenewLookup, LoopIs, LoopTo, LoopsOK
      <4>. QED
        BY <2>46, <4>1 DEF RenewLookup, CallsOK
    <3>. QED
      BY <3>1, <3>2, <3>3
  <2>47. ASSUME NEW g \in Gens, RenewInstall(g) PROVE TypeOK'
    BY <2>47 DEF RenewInstall, LoopIs, LoopTo, ModulesOK, SlotsOK, LoopsOK, PatchOK,
       CallsOK
  <2>49. ASSUME NEW c \in Callers, FireToken(c) PROVE TypeOK'
    BY <2>49 DEF FireToken, ModulesOK, SlotsOK, LoopsOK, PatchOK, CallsOK
  <2>48. CASE UNCHANGED vars
    BY <2>48 DEF vars, ModulesOK, SlotsOK, LoopsOK, PatchOK, CallsOK
  <2>. QED
    BY <2>1, <2>2, <2>3, <2>4, <2>5, <2>6, <2>7, <2>8, <2>9, <2>10, <2>11, <2>12,
       <2>13, <2>14, <2>15, <2>16, <2>17, <2>18, <2>19, <2>20, <2>21, <2>22, <2>23,
       <2>24, <2>25, <2>26, <2>27, <2>28, <2>29, <2>30, <2>31, <2>32, <2>33, <2>34,
       <2>35, <2>36, <2>37, <2>38, <2>39, <2>40, <2>41, <2>42, <2>43, <2>44, <2>45,
       <2>46, <2>47, <2>48, <2>49 DEF Next, Call, CallStep, PatchStep, ModuleStep,
       MessageStep, LoopStep, StartStep, RecvStep, ProcessStep
<1>. QED
  BY <1>1, <1>2, PTL DEF Spec

-----------------------------------------------------------------------------

\* create_module_slot, stop_module and release_module_slot never leave the
\* inbox of one incarnation of a module next to the token of another.
THEOREM SlotsAgreeHolds == Spec => []SlotsAgree
<1> USE LifecycleAssumption DEF Gens, None
<1>1. Init => SlotsAgree
  BY DEF Init, SlotsAgree
<1>2. TypeOK /\ SlotsAgree /\ [Next]_vars => SlotsAgree'
  <2> SUFFICES ASSUME TypeOK, SlotsAgree, [Next]_vars
               PROVE  SlotsAgree'
    OBVIOUS
  <2>1. ASSUME NEW c \in Callers, Install(c) PROVE SlotsAgree'
    BY <2>1 DEF Install, SlotsAgree, TypeOK, SlotsOK, CallsOK, ModuleStates
  <2>2. ASSUME NEW c \in Callers, TakeInbox(c) PROVE SlotsAgree'
    BY <2>2 DEF TakeInbox, SlotsAgree, TypeOK, SlotsOK, CallsOK, ModuleStates
  <2>3. ASSUME NEW c \in Callers, TakeToken(c) PROVE SlotsAgree'
    BY <2>3 DEF TakeToken, SlotsAgree, TypeOK, SlotsOK, CallsOK, ModuleStates
  <2>4. ASSUME NEW g \in Gens, ReleaseSlot(g) PROVE SlotsAgree'
    BY <2>4 DEF ReleaseSlot, LoopIs, LoopTo, SlotsAgree, TypeOK, SlotsOK, LoopsOK
  <2>5. ASSUME UNCHANGED slotVars PROVE SlotsAgree'
    BY <2>5 DEF slotVars, SlotsAgree
  <2>6. ASSUME NEW c \in Callers, Call(c) PROVE UNCHANGED slotVars
    BY <2>6 DEF Call, CallStartPatch, CallStopPatch, CallStartModule, CallStopModule,
                CallSetConfigs, CallInput
  <2>7. ASSUME NEW c \in Callers, PatchStep(c) \/ MessageStep(c)
        PROVE  UNCHANGED slotVars
    BY <2>7 DEF PatchStep, PatchAlreadyRunning, LockForStart, EachStart, PatchStarted,
                LockForStop, EachStop, PatchStopped, MessageStep, Send, SetDirect
  <2>8. ASSUME NEW c \in Callers, ModuleStep(c) PROVE SlotsAgree'
    <3>1. \/ Install(c) \/ TakeInbox(c) \/ TakeToken(c)
          \/ UNCHANGED slotVars
      BY <2>8 DEF ModuleStep, NotInit, ReadInit, NewToken, FireToken, NothingToStop,
                  BeginStop, Stopped, StopFails
    <3>. QED
      BY <3>1, <2>1, <2>2, <2>3, <2>5
  <2>9. ASSUME NEW g \in Gens, LoopStep(g) PROVE SlotsAgree'
    <3>1. ReleaseSlot(g) \/ UNCHANGED slotVars
      <4>1. CASE StartStep(g)
        BY <4>1 DEF StartStep, PollStart, StartCancelled, StartPending, StartExternal,
                    BeginStart, StartSucceeds, StartDropped, StartFails
      <4>2. CASE RecvStep(g)
        BY <4>2 DEF RecvStep, DropInput, RecvInput, RecvConfig, RecvStop, RecvNone
      <4>3. CASE ProcessStep(g)
        BY <4>3 DEF ProcessStep, PollInput, InputSkipped, InputPending, BeginProcess,
                    EndProcess, ProcessDropped, RenewLookup, RenewInstall
      <4>. QED
        BY <2>9, <4>1, <4>2, <4>3 DEF LoopStep
    <3>. QED
      BY <3>1, <2>4, <2>5
  <2>10. CASE UNCHANGED vars
    BY <2>10, <2>5 DEF vars
  <2>. QED
    BY <2>5, <2>6, <2>7, <2>8, <2>9, <2>10 DEF Next, CallStep
<1>. QED
  BY <1>1, <1>2, TypeCorrect, PTL DEF Spec

-----------------------------------------------------------------------------
(* The inductive invariant behind RegistrationMatches.  The property speaks of *)
(* the states in which the module lock is free; to be inductive it has to say  *)
(* what holds while start() or stop() of the module is in progress, and who    *)
(* then holds the lock.                                                        *)

\* A loop inside start() or process() holds its module's lock; the start() that
\* awaits is not that of an ExternalInputModule.
LockedLoops ==
    \A g \in Gens :
        /\ loop[g] \in {"inStart", "processing"} => lock[owner[g]] = g
        /\ loop[g] = "inStart" => status[owner[g]] = "Start" /\ ~External(owner[g])

\* A caller inside stop() holds the lock of a module whose status is Stop ...
LockedStops ==
    \A c \in Callers :
        pc[c] = "stopping" => lock[target[c]] = c /\ status[target[c]] = "Stop"

\* ... and nothing else explains that status in an ExternalInputModule, whose
\* stop() does not fail.
StopsInProgress ==
    \A m \in Modules :
        External(m) /\ status[m] = "Stop"
            => \E c \in Callers : pc[c] = "stopping" /\ target[c] = m

\* The entry is there from the end of start() to the end of stop().
Listed ==
    \A m \in Modules, ch \in Channels :
        External(m) =>
            (registered[m][ch] > 0 <=> status[m] # "Init" /\ channel[m] = ch)

RegInv == LockedLoops /\ LockedStops /\ StopsInProgress /\ Listed

\* A host task, a module loop and a free lock are told apart.
LEMMA LockHolders ==
  \A c \in Callers, g \in Gens : c # g /\ c # Free /\ g # Free
BY LifecycleAssumption DEF Gens, Free

\* Steps that leave the modules alone and neither enter nor leave a locked
\* section keep the invariant.
LEMMA RegFrame ==
  ASSUME RegInv, UNCHANGED moduleVars,
         \A c \in Callers :
            /\ pc'[c] = "stopping" <=> pc[c] = "stopping"
            /\ pc[c] = "stopping" => target'[c] = target[c],
         \A g \in Gens :
            loop'[g] \in {"inStart", "processing"} =>
                loop'[g] = loop[g] /\ owner'[g] = owner[g]
  PROVE  RegInv'
BY DEF RegInv, LockedLoops, LockedStops, StopsInProgress, Listed, moduleVars, External

\* A config edit moves the entry of a started module to its new channel and
\* adds none for a module that is not started.
LEMMA ConfigureListed ==
  ASSUME ModulesOK, RegInv, NEW m \in Modules, NEW ch \in Channels,
         Configure(m, ch), UNCHANGED status
  PROVE  Listed' /\ \A n \in Modules : External(n)' <=> External(n)
<1> USE LifecycleAssumption DEF External
<1>1. \A n \in Modules : External(n)' <=> External(n)
  BY DEF Configure, ModulesOK
<1>2. External(m) => status[m] # "Stop"
  BY DEF RegInv, StopsInProgress, LockedStops, Configure, Free
<1>3. CASE channel[m] # ch /\ status[m] = "Start" /\ External(m)
  <2> DEFINE U == [registered[m] EXCEPT ![channel[m]] = 0]
             R == [U EXCEPT ![ch] = @ + 1]
  <2>1. channel' = [channel EXCEPT ![m] = ch]
    BY <1>3 DEF Configure
  <2>2. registered' = [registered EXCEPT ![m] = R]
    BY <1>3 DEF Configure, Unregister, ModulesOK
  <2>3. registered[m] \in [Channels -> Nat] /\ channel[m] \in Channels
    BY <1>3 DEF ModulesOK
  <2>4. \A k \in Channels : registered[m][k] > 0 <=> channel[m] = k
    BY <1>3 DEF RegInv, Listed
  <2>5. \A k \in Channels : R[k] > 0 <=> k = ch
    BY <2>3, <2>4
  <2>6. registered'[m] = R
    BY <2>2 DEF ModulesOK
  <2>. HIDE DEF R, U
  <2>7. ASSUME NEW n \in Modules, NEW k \in Channels, External(n)'
        PROVE  registered'[n][k] > 0 <=> status'[n] # "Init" /\ channel'[n] = k
    <3>1. CASE n = m
      BY <3>1, <1>3, <2>1, <2>5, <2>6 DEF ModulesOK
    <3>2. CASE n # m
      BY <3>2, <2>7, <1>1, <2>1, <2>2 DEF RegInv, Listed, ModulesOK
    <3>. QED
      BY <3>1, <3>2
  <2>. QED
    BY <1>1, <2>7 DEF Listed
<1>4. CASE ~(channel[m] # ch /\ status[m] = "Start" /\ External(m))
  <2>1. registered' = registered
    BY <1>4 DEF Configure
  <2>2. \A n \in Modules : External(n) /\ status[n] # "Init" => channel'[n] = channel[n]
    BY <1>2, <1>4 DEF Configure, ModulesOK
  <2>3. ASSUME NEW n \in Modules, NEW k \in Channels, External(n)'
        PROVE  registered'[n][k] > 0 <=> status'[n] # "Init" /\ channel'[n] = k
    BY <2>1, <2>2, <2>3, <1>1 DEF RegInv, Listed
  <2>. QED
    BY <1>1, <2>3 DEF Listed
<1>. QED
  BY <1>3, <1>4

\* The invariant holds in every reachable state.
THEOREM RegInvHolds == Spec => []RegInv
<1> USE LifecycleAssumption DEF Free, Gens
<1>1. Init => RegInv
  BY DEF Init, RegInv, LockedLoops, LockedStops, StopsInProgress, Listed, External
<1>2. TypeOK /\ RegInv /\ [Next]_vars => RegInv'
  <2> SUFFICES ASSUME TypeOK, RegInv, [Next]_vars
               PROVE  RegInv'
    OBVIOUS
  <2> USE DEF TypeOK, moduleVars, slotVars, loopVars, patchVars, callVars
  <2>1. ASSUME NEW c \in Callers, BeginStop(c) PROVE RegInv'
    <3>1. target[c] \in Modules
      BY <2>1 DEF BeginStop, CallsOK, ModuleStates, SendStates
    <3>2. \A h \in Gens : loop[h] \in {"inStart", "processing"} =>
             owner[h] \in Modules /\ owner[h] # target[c]
      BY <2>1, LockHolders DEF BeginStop, RegInv, LockedLoops, LockedStops, LoopsOK
    <3>3. LockedLoops'
      BY <2>1, <3>1, <3>2, LockHolders DEF BeginStop, External, RegInv, LockedLoops,
         ModulesOK, LoopsOK
    <3>4. LockedStops'
      BY <2>1, <3>1, <3>2, LockHolders DEF BeginStop, RegInv, LockedStops, ModulesOK,
         CallsOK
    <3>5. StopsInProgress'
      BY <2>1, <3>1, <3>2, LockHolders DEF BeginStop, External, RegInv,
         StopsInProgress, LockedStops, ModulesOK, CallsOK
    <3>6. Listed'
      BY <2>1, <3>1 DEF BeginStop, External, RegInv, Listed, LockedLoops, ModulesOK
    <3>. QED
      BY <3>3, <3>4, <3>5, <3>6 DEF RegInv
  <2>2. ASSUME NEW c \in Callers, Stopped(c) PROVE RegInv'
    <3>1. target[c] \in Modules
      BY <2>2 DEF Stopped, CallsOK, ModuleStates, SendStates
    <3>2. \A h \in Gens : loop[h] \in {"inStart", "processing"} =>
             owner[h] \in Modules /\ owner[h] # target[c]
      BY <2>2, LockHolders DEF Stopped, RegInv, LockedLoops, LockedStops, LoopsOK
    <3>3. LockedLoops'
      BY <2>2, <3>1, <3>2, LockHolders DEF Stopped, External, Unregister, Return,
         RegInv, LockedLoops, ModulesOK, LoopsOK
    <3>4. LockedStops'
      BY <2>2, <3>1, <3>2, LockHolders DEF Stopped, External, Unregister, Return,
         RegInv, LockedStops, ModulesOK, CallsOK
    <3>5. StopsInProgress'
      BY <2>2, <3>1, <3>2, LockHolders DEF Stopped, External, Unregister, Return,
         RegInv, StopsInProgress, LockedStops, ModulesOK, CallsOK
    <3>6. Listed'
      BY <2>2, <3>1 DEF Stopped, External, Unregister, Return, RegInv, Listed,
         LockedLoops, ModulesOK
    <3>. QED
      BY <3>3, <3>4, <3>5, <3>6 DEF RegInv
  <2>3. ASSUME NEW c \in Callers, StopFails(c) PROVE RegInv'
    <3>1. target[c] \in Modules
      BY <2>3 DEF StopFails, CallsOK, ModuleStates, SendStates
    <3>2. \A h \in Gens : loop[h] \in {"inStart", "processing"} =>
             owner[h] \in Modules /\ owner[h] # target[c]
      BY <2>3, LockHolders DEF StopFails, RegInv, LockedLoops, LockedStops, LoopsOK
    <3>3. LockedLoops'
      BY <2>3, <3>1, <3>2, LockHolders DEF StopFails, External, Return, RegInv,
         LockedLoops, ModulesOK, LoopsOK
    <3>4. LockedStops'
      BY <2>3, <3>1, <3>2, LockHolders DEF StopFails, External, Return, RegInv,
         LockedStops, ModulesOK, CallsOK
    <3>5. StopsInProgress'
      BY <2>3, <3>1, <3>2, LockHolders DEF StopFails, External, Return, RegInv,
         StopsInProgress, LockedStops, ModulesOK, CallsOK
    <3>6. Listed'
      BY <2>3, <3>1 DEF StopFails, External, Return, RegInv, Listed, LockedLoops,
         ModulesOK
    <3>. QED
      BY <3>3, <3>4, <3>5, <3>6 DEF RegInv
  <2>4. ASSUME NEW g \in Gens, StartExternal(g) PROVE RegInv'
    <3>1. owner[g] \in Modules
      BY <2>4 DEF StartExternal, LoopIs, Receiving, LoopsOK
    <3>2. \A d \in Callers : pc[d] = "stopping" =>
             target[d] \in Modules /\ target[d] # owner[g]
      BY <2>4, LockHolders DEF StartExternal, LoopIs, RegInv, LockedLoops,
         LockedStops, CallsOK,
         ModuleStates, SendStates
    <3>3. LockedLoops'
      BY <2>4, <3>1, <3>2, LockHolders DEF StartExternal, LoopIs, External, LoopTo,
         RegInv, LockedLoops, ModulesOK, LoopsOK
    <3>4. LockedStops'
      BY <2>4, <3>1, <3>2, LockHolders DEF StartExternal, LoopIs, External, LoopTo,
         RegInv, LockedStops, ModulesOK, CallsOK
    <3>5. StopsInProgress'
      BY <2>4, <3>1, <3>2, LockHolders DEF StartExternal, LoopIs, External, LoopTo,
         RegInv, StopsInProgress, LockedStops, ModulesOK, CallsOK
    <3>6. Listed'
      <4> DEFINE m == owner[g]
                 R == [registered[m] EXCEPT ![channel[m]] = @ + 1]
      <4>1. registered[m] \in [Channels -> Nat] /\ channel[m] \in Channels
        BY <2>4, <3>1 DEF StartExternal, External, ModulesOK
      <4>2. registered'[m] = R
        BY <2>4, <3>1 DEF StartExternal, Register, ModulesOK
      <4>3. \A j \in Channels : j # channel[m] => ~(registered[m][j] > 0)
        BY <2>4, <3>1 DEF StartExternal, RegInv, Listed
      <4>4. \A j \in Channels : R[j] > 0 <=> j = channel[m]
        BY <4>1, <4>3
      <4>5. \A n \in Modules : n # m => registered'[n] = registered[n]
        BY <2>4, <3>1 DEF StartExternal, Register, ModulesOK
      <4>6. status' = [status EXCEPT ![m] = "Start"] /\ UNCHANGED channel
        BY <2>4 DEF StartExternal
      <4>7. ASSUME NEW n \in Modules, NEW j \in Channels, External(n)'
            PROVE  registered'[n][j] > 0 <=> status'[n] # "Init" /\ channel'[n] = j
        <5>1. CASE n = m
          <6>. HIDE DEF R
          <6>. QED
            BY <5>1, <3>1, <4>2, <4>4, <4>6 DEF ModulesOK
        <5>2. CASE n # m
          BY <5>2, <3>1, <4>5, <4>6, <4>7 DEF RegInv, Listed, ModulesOK, External
        <5>. QED
          BY <5>1, <5>2
      <4>. QED
        BY <4>7 DEF Listed
    <3>. QED
      BY <3>3, <3>4, <3>5, <3>6 DEF RegInv
  <2>5. ASSUME NEW g \in Gens, BeginStart(g) PROVE RegInv'
    <3>1. owner[g] \in Modules
      BY <2>5 DEF BeginStart, LoopIs, Receiving, LoopsOK
    <3>2. \A d \in Callers : pc[d] = "stopping" =>
             target[d] \in Modules /\ target[d] # owner[g]
      BY <2>5, LockHolders DEF BeginStart, LoopIs, RegInv, LockedLoops, LockedStops,
         CallsOK,
         ModuleStates, SendStates
    <3>3. LockedLoops'
      BY <2>5, <3>1, <3>2, LockHolders DEF BeginStart, LoopIs, External, LoopTo,
         RegInv, LockedLoops, ModulesOK, LoopsOK
    <3>4. LockedStops'
      BY <2>5, <3>1, <3>2, LockHolders DEF BeginStart, LoopIs, External, LoopTo,
         RegInv, LockedStops, ModulesOK, CallsOK
    <3>5. StopsInProgress'
      BY <2>5, <3>1, <3>2, LockHolders DEF BeginStart, LoopIs, External, LoopTo,
         RegInv, StopsInProgress, LockedStops, ModulesOK, CallsOK
    <3>6. Listed'
      BY <2>5, <3>1 DEF BeginStart, LoopIs, External, LoopTo, RegInv, Listed,
         LockedLoops, ModulesOK
    <3>. QED
      BY <3>3, <3>4, <3>5, <3>6 DEF RegInv
  <2>6. ASSUME NEW g \in Gens, StartSucceeds(g) PROVE RegInv'
    <3>1. owner[g] \in Modules
      BY <2>6 DEF StartSucceeds, LoopIs, Receiving, LoopsOK
    <3>2. \A d \in Callers : pc[d] = "stopping" =>
             target[d] \in Modules /\ target[d] # owner[g]
      BY <2>6, LockHolders DEF StartSucceeds, LoopIs, RegInv, LockedLoops,
         LockedStops, CallsOK,
         ModuleStates, SendStates
    <3>3. LockedLoops'
      BY <2>6, <3>1, <3>2, LockHolders DEF StartSucceeds, LoopIs, LoopTo, External,
         RegInv, LockedLoops, ModulesOK, LoopsOK
    <3>4. LockedStops'
      BY <2>6, <3>1, <3>2, LockHolders DEF StartSucceeds, LoopIs, LoopTo, RegInv,
         LockedStops, ModulesOK, CallsOK
    <3>5. StopsInProgress'
      BY <2>6, <3>1, <3>2, LockHolders DEF StartSucceeds, LoopIs, LoopTo, External,
         RegInv, StopsInProgress, LockedStops, ModulesOK, CallsOK
    <3>6. Listed'
      BY <2>6, <3>1 DEF StartSucceeds, LoopIs, LoopTo, External, RegInv, Listed,
         LockedLoops, ModulesOK
    <3>. QED
      BY <3>3, <3>4, <3>5, <3>6 DEF RegInv
  <2>7. ASSUME NEW g \in Gens, StartDropped(g) PROVE RegInv'
    <3>1. owner[g] \in Modules
      BY <2>7 DEF StartDropped, LoopIs, Receiving, LoopsOK
    <3>2. \A d \in Callers : pc[d] = "stopping" =>
             target[d] \in Modules /\ target[d] # owner[g]
      BY <2>7, LockHolders DEF StartDropped, LoopIs, RegInv, LockedLoops, LockedStops,
         CallsOK,
         ModuleStates, SendStates
    <3>3. LockedLoops'
      BY <2>7, <3>1, <3>2, LockHolders DEF StartDropped, LoopIs, Fired, LoopTo,
         External, RegInv, LockedLoops, ModulesOK, LoopsOK
    <3>4. LockedStops'
      BY <2>7, <3>1, <3>2, LockHolders DEF StartDropped, LoopIs, Fired, LoopTo,
         RegInv, LockedStops, ModulesOK, CallsOK
    <3>5. StopsInProgress'
      BY <2>7, <3>1, <3>2, LockHolders DEF StartDropped, LoopIs, Fired, LoopTo,
         External, RegInv, StopsInProgress, LockedStops, ModulesOK, CallsOK
    <3>6. Listed'
      BY <2>7, <3>1 DEF StartDropped, LoopIs, Fired, LoopTo, External, RegInv, Listed,
         LockedLoops, ModulesOK
    <3>. QED
      BY <3>3, <3>4, <3>5, <3>6 DEF RegInv
  <2>8. ASSUME NEW g \in Gens, StartFails(g) PROVE RegInv'
    <3>1. owner[g] \in Modules
      BY <2>8 DEF StartFails, LoopIs, Receiving, LoopsOK
    <3>2. \A d \in Callers : pc[d] = "stopping" =>
             target[d] \in Modules /\ target[d] # owner[g]
      BY <2>8, LockHolders DEF StartFails, LoopIs, RegInv, LockedLoops, LockedStops,
         CallsOK,
         ModuleStates, SendStates
    <3>3. LockedLoops'
      BY <2>8, <3>1, <3>2, LockHolders DEF StartFails, LoopIs, LoopTo, External,
         RegInv, LockedLoops, ModulesOK, LoopsOK
    <3>4. LockedStops'
      BY <2>8, <3>1, <3>2, LockHolders DEF StartFails, LoopIs, LoopTo, RegInv,
         LockedStops, ModulesOK, CallsOK
    <3>5. StopsInProgress'
      BY <2>8, <3>1, <3>2, LockHolders DEF StartFails, LoopIs, LoopTo, External,
         RegInv, StopsInProgress, LockedStops, ModulesOK, CallsOK
    <3>6. Listed'
      BY <2>8, <3>1 DEF StartFails, LoopIs, LoopTo, External, RegInv, Listed,
         LockedLoops, ModulesOK
    <3>. QED
      BY <3>3, <3>4, <3>5, <3>6 DEF RegInv
  <2>9. ASSUME NEW g \in Gens, BeginProcess(g) PROVE RegInv'
    <3>1. owner[g] \in Modules
      BY <2>9 DEF BeginProcess, LoopIs, Receiving, LoopsOK
    <3>2. \A d \in Callers : pc[d] = "stopping" =>
             target[d] \in Modules /\ target[d] # owner[g]
      BY <2>9, LockHolders DEF BeginProcess, LoopIs, RegInv, LockedLoops, LockedStops,
         CallsOK,
         ModuleStates, SendStates
    <3>3. LockedLoops'
      BY <2>9, <3>1, <3>2, LockHolders DEF BeginProcess, LoopIs, LoopTo, External,
         RegInv, LockedLoops, ModulesOK, LoopsOK
    <3>4. LockedStops'
      BY <2>9, <3>1, <3>2, LockHolders DEF BeginProcess, LoopIs, LoopTo, RegInv,
         LockedStops, ModulesOK, CallsOK
    <3>5. StopsInProgress'
      BY <2>9, <3>1, <3>2, LockHolders DEF BeginProcess, LoopIs, LoopTo, External,
         RegInv, StopsInProgress, LockedStops, ModulesOK, CallsOK
    <3>6. Listed'
      BY <2>9, <3>1 DEF BeginProcess, LoopIs, LoopTo, External, RegInv, Listed,
         LockedLoops, ModulesOK
    <3>. QED
      BY <3>3, <3>4, <3>5, <3>6 DEF RegInv
  <2>10. ASSUME NEW g \in Gens, EndProcess(g) PROVE RegInv'
    <3>1. owner[g] \in Modules
      BY <2>10 DEF EndProcess, LoopIs, Receiving, LoopsOK
    <3>2. \A d \in Callers : pc[d] = "stopping" =>
             target[d] \in Modules /\ target[d] # owner[g]
      BY <2>10, LockHolders DEF EndProcess, LoopIs, RegInv, LockedLoops, LockedStops,
         CallsOK,
         ModuleStates, SendStates
    <3>3. LockedLoops'
      BY <2>10, <3>1, <3>2, LockHolders DEF EndProcess, LoopIs, LoopTo, External,
         RegInv, LockedLoops, ModulesOK, LoopsOK
    <3>4. LockedStops'
      BY <2>10, <3>1, <3>2, LockHolders DEF EndProcess, LoopIs, LoopTo, RegInv,
         LockedStops, ModulesOK, CallsOK
    <3>5. StopsInProgress'
      BY <2>10, <3>1, <3>2, LockHolders DEF EndProcess, LoopIs, LoopTo, External,
         RegInv, StopsInProgress, LockedStops, ModulesOK, CallsOK
    <3>6. Listed'
      BY <2>10, <3>1 DEF EndProcess, LoopIs, LoopTo, External, RegInv, Listed,
         LockedLoops, ModulesOK
    <3>. QED
      BY <3>3, <3>4, <3>5, <3>6 DEF RegInv
  <2>11. ASSUME NEW g \in Gens, ProcessDropped(g) PROVE RegInv'
    <3>1. owner[g] \in Modules
      BY <2>11 DEF ProcessDropped, LoopIs, Receiving, LoopsOK
    <3>2. \A d \in Callers : pc[d] = "stopping" =>
             target[d] \in Modules /\ target[d] # owner[g]
      BY <2>11, LockHolders DEF ProcessDropped, LoopIs, RegInv, LockedLoops,
         LockedStops, CallsOK,
         ModuleStates, SendStates
    <3>3. LockedLoops'
      BY <2>11, <3>1, <3>2, LockHolders DEF ProcessDropped, LoopIs, Fired, LoopTo,
         External, RegInv, LockedLoops, ModulesOK, LoopsOK
    <3>4. LockedStops'
      BY <2>11, <3>1, <3>2, LockHolders DEF ProcessDropped, LoopIs, Fired, LoopTo,
         RegInv, LockedStops, ModulesOK, CallsOK
    <3>5. StopsInProgress'
      BY <2>11, <3>1, <3>2, LockHolders DEF ProcessDropped, LoopIs, Fired, LoopTo,
         External, RegInv, StopsInProgress, LockedStops, ModulesOK, CallsOK
    <3>6. Listed'
      BY <2>11, <3>1 DEF ProcessDropped, LoopIs, Fired, LoopTo, External, RegInv,
         Listed, LockedLoops, ModulesOK
    <3>. QED
      BY <3>3, <3>4, <3>5, <3>6 DEF RegInv
  <2>12. ASSUME NEW c \in Callers, SetDirect(c) PROVE RegInv'
    <3>1. target[c] \in Modules /\ arg[c] \in Channels
      BY <2>12 DEF SetDirect, CallsOK, SendStates
    <3>2. Listed' /\ \A n \in Modules : External(n)' <=> External(n)
      BY <2>12, <3>1, ConfigureListed DEF SetDirect
    <3>3. \A d \in Callers :
            /\ pc'[d] = "stopping" <=> pc[d] = "stopping"
            /\ pc[d] = "stopping" => target'[d] = target[d]
      BY <2>12 DEF SetDirect, EndSend, CallsOK
    <3>4. LockedLoops'
      BY <2>12, <3>2 DEF SetDirect, RegInv, LockedLoops, LoopsOK
    <3>5. LockedStops'
      BY <2>12, <3>3 DEF SetDirect, RegInv, LockedStops
    <3>6. StopsInProgress'
      BY <2>12, <3>2, <3>3 DEF SetDirect, RegInv, StopsInProgress
    <3>. QED
      BY <3>2, <3>4, <3>5, <3>6 DEF RegInv
  <2>13. ASSUME NEW g \in Gens, RecvConfig(g) PROVE RegInv'
    <3>1. owner[g] \in Modules
      BY <2>13 DEF RecvConfig, Receiving, LoopIs, LoopsOK
    <3>2. Head(queue[g]).channel \in Channels
      <4>1. Head(queue[g]) \in Messages
        BY <2>13 DEF RecvConfig, Receiving, LoopsOK
      <4>. QED
        BY <2>13, <4>1 DEF RecvConfig, Receiving, Messages
    <3>3. Listed' /\ \A n \in Modules : External(n)' <=> External(n)
      BY <2>13, <3>1, <3>2, ConfigureListed DEF RecvConfig
    <3>. QED
      BY <2>13, <3>3 DEF RecvConfig, RegInv, LockedLoops, LockedStops,
                          StopsInProgress, LoopsOK
  <2>14. ASSUME NEW c \in Callers, Call(c) PROVE RegInv'
    <3>1. ASSUME CallStartPatch(c) PROVE RegInv'
      BY <3>1, RegFrame DEF CallStartPatch, CallsOK
    <3>2. ASSUME CallStopPatch(c) PROVE RegInv'
      BY <3>2, RegFrame DEF CallStopPatch, CallsOK
    <3>3. ASSUME NEW m \in Modules, CallStartModule(c, m) PROVE RegInv'
      BY <3>3, RegFrame DEF CallStartModule, CallsOK
    <3>4. ASSUME NEW m \in Modules, CallStopModule(c, m) PROVE RegInv'
      BY <3>4, RegFrame DEF CallStopModule, CallsOK
    <3>5. ASSUME NEW m \in Modules, NEW ch \in Channels, CallSetConfigs(c, m, ch)
          PROVE  RegInv'
      BY <3>5, RegFrame DEF CallSetConfigs, CallsOK
    <3>6. ASSUME NEW m \in Modules, CallInput(c, m) PROVE RegInv'
      BY <3>6, RegFrame DEF CallInput, CallsOK
    <3>. QED
      BY <2>14, <3>1, <3>2, <3>3, <3>4, <3>5, <3>6 DEF Call
  <2>15. ASSUME NEW c \in Callers, PatchStep(c) PROVE RegInv'
    <3>1. ASSUME PatchAlreadyRunning(c) PROVE RegInv'
      BY <3>1, RegFrame DEF PatchAlreadyRunning, CallsOK
    <3>2. ASSUME LockForStart(c) PROVE RegInv'
      BY <3>2, RegFrame DEF LockForStart, CallsOK
    <3>3. ASSUME EachStart(c) PROVE RegInv'
      BY <3>3, RegFrame DEF EachStart, CallsOK
    <3>4. ASSUME PatchStarted(c) PROVE RegInv'
      BY <3>4, RegFrame DEF PatchStarted, CallsOK
    <3>5. ASSUME LockForStop(c) PROVE RegInv'
      BY <3>5, RegFrame DEF LockForStop, CallsOK
    <3>6. ASSUME EachStop(c) PROVE RegInv'
      BY <3>6, RegFrame DEF EachStop, CallsOK
    <3>7. ASSUME PatchStopped(c) PROVE RegInv'
      BY <3>7, RegFrame DEF PatchStopped, CallsOK
    <3>. QED
      BY <2>15, <3>1, <3>2, <3>3, <3>4, <3>5, <3>6, <3>7 DEF PatchStep
  <2>16. ASSUME NEW c \in Callers, ModuleStep(c) PROVE RegInv'
    <3>1. ASSUME NotInit(c) PROVE RegInv'
      BY <3>1, RegFrame DEF NotInit, Return, CallsOK
    <3>2. ASSUME ReadInit(c) PROVE RegInv'
      BY <3>2, RegFrame DEF ReadInit, CallsOK
    <3>3. ASSUME NewToken(c) PROVE RegInv'
      BY <3>3, RegFrame DEF NewToken, CallsOK, LoopsOK
    <3>4. ASSUME Install(c) PROVE RegInv'
      BY <3>4, RegFrame DEF Install, Return, CallsOK, LoopsOK
    <3>5. ASSUME TakeInbox(c) PROVE RegInv'
      BY <3>5, RegFrame DEF TakeInbox, CallsOK
    <3>6. ASSUME TakeToken(c) PROVE RegInv'
      BY <3>6, RegFrame DEF TakeToken, CallsOK
    <3>8. ASSUME FireToken(c) PROVE RegInv'
      BY <3>8, RegFrame DEF FireToken, CallsOK
    <3>7. ASSUME NothingToStop(c) PROVE RegInv'
      BY <3>7, RegFrame DEF NothingToStop, Return, CallsOK
    <3>. QED
      BY <2>16, <3>1, <3>2, <3>3, <3>4, <3>5, <3>6, <3>7, <3>8, <2>1, <2>2, <2>3 DEF
         ModuleStep
  <2>17. ASSUME NEW c \in Callers, MessageStep(c) PROVE RegInv'
    <3>1. ASSUME Send(c) PROVE RegInv'
      BY <3>1, RegFrame DEF Send, EndSend, CallsOK
    <3>. QED
      BY <2>17, <3>1, <2>12 DEF MessageStep
  <2>18. ASSUME NEW g \in Gens, StartStep(g) PROVE RegInv'
    <3>1. ASSUME PollStart(g) PROVE RegInv'
      BY <3>1, RegFrame DEF PollStart, LoopIs, LoopTo, LoopsOK
    <3>2. ASSUME StartCancelled(g) PROVE RegInv'
      BY <3>2, RegFrame DEF StartCancelled, LoopIs, LoopTo, LoopsOK
    <3>3. ASSUME StartPending(g) PROVE RegInv'
      BY <3>3, RegFrame DEF StartPending, LoopIs, LoopTo, LoopsOK
    <3>4. ASSUME ReleaseSlot(g) PROVE RegInv'
      BY <3>4, RegFrame DEF ReleaseSlot, LoopIs, LoopTo, LoopsOK
    <3>. QED
      BY <2>18, <3>1, <3>2, <3>3, <3>4, <2>4, <2>5, <2>6, <2>7, <2>8 DEF StartStep
  <2>19. ASSUME NEW g \in Gens, RecvStep(g) PROVE RegInv'
    <3>1. ASSUME DropInput(g) PROVE RegInv'
      BY <3>1, RegFrame DEF DropInput, Receiving, LoopIs, LoopsOK
    <3>2. ASSUME RecvInput(g) PROVE RegInv'
      BY <3>2, RegFrame DEF RecvInput, Receiving, LoopIs, LoopTo, LoopsOK
    <3>3. ASSUME RecvStop(g) PROVE RegInv'
      BY <3>3, RegFrame DEF RecvStop, Receiving, LoopIs, LoopTo, LoopsOK
    <3>4. ASSUME RecvNone(g) PROVE RegInv'
      BY <3>4, RegFrame DEF RecvNone, LoopIs, LoopTo, LoopsOK
    <3>. QED
      BY <2>19, <3>1, <3>2, <3>3, <3>4, <2>13 DEF RecvStep
  <2>20. ASSUME NEW g \in Gens, ProcessStep(g) PROVE RegInv'
    <3>1. ASSUME PollInput(g) PROVE RegInv'
      BY <3>1, RegFrame DEF PollInput, LoopIs, LoopTo, LoopsOK
    <3>2. ASSUME InputSkipped(g) PROVE RegInv'
      BY <3>2, RegFrame DEF InputSkipped, LoopIs, LoopTo, LoopsOK
    <3>3. ASSUME InputPending(g) PROVE RegInv'
      BY <3>3, RegFrame DEF InputPending, LoopIs, LoopTo, LoopsOK
    <3>4. ASSUME RenewLookup(g) PROVE RegInv'
      BY <3>4, RegFrame DEF RenewLookup, LoopIs, LoopTo, LoopsOK
    <3>5. ASSUME RenewInstall(g) PROVE RegInv'
      BY <3>5, RegFrame DEF RenewInstall, LoopIs, LoopTo, LoopsOK
    <3>. QED
      BY <2>20, <3>1, <3>2, <3>3, <3>4, <3>5, <2>9, <2>10, <2>11 DEF ProcessStep
  <2>21. CASE UNCHANGED vars
    BY <2>21, RegFrame DEF vars
  <2>. QED
    BY <2>14, <2>15, <2>16, <2>17, <2>18, <2>19, <2>20, <2>21 DEF Next, CallStep,
       LoopStep
<1>. QED
  BY <1>1, <1>2, TypeCorrect, PTL DEF Spec

\* Whoever gets the lock of an ExternalInputModule finds it listed under its
\* current channel if it is started and nowhere if it is not: the deliveries of
\* write_external_input go where the configuration says.
THEOREM RegistrationHolds == Spec => []RegistrationMatches
<1>1. TypeOK /\ RegInv => RegistrationMatches
  <2> SUFFICES ASSUME TypeOK, RegInv, NEW m \in Modules, NEW ch \in Channels,
                      External(m), lock[m] = Free
               PROVE  registered[m][ch] > 0 <=> status[m] = "Start" /\ channel[m] = ch
    BY DEF RegistrationMatches
  <2>1. status[m] # "Stop"
    BY LifecycleAssumption DEF RegInv, StopsInProgress, LockedStops, Free
  <2>2. status[m] \in {"Init", "Start"}
    BY <2>1 DEF TypeOK, ModulesOK
  <2>. QED
    BY <2>2 DEF RegInv, Listed
<1>. QED
  BY <1>1, TypeCorrect, RegInvHolds, PTL

-----------------------------------------------------------------------------
(* The generations: who has one in hand before its loop is spawned, what the *)
(* slots may name, and when a loop can be gone while its inbox is there.      *)

Spawned(g) == loop[g] \notin {"none", "allocated"}
HasStop(g) == \E i \in DOMAIN queue[g] : queue[g][i].kind = "stop"

\* A generation that was handed out and has no loop yet is in the hands of one
\* start_module, which will install it for its module.
Allocation ==
    /\ \A g \in Gens : g >= nextGen <=> loop[g] = "none"
    /\ \A c \in Callers : pc[c] = "install" =>
          /\ loop[held[c]] = "allocated" /\ owner[held[c]] = target[c]
          /\ \A d \in Callers : pc[d] = "install" /\ held[d] = held[c] => d = c

\* The slots of a module name loops of that module.
SlotsOwned ==
    \A m \in Modules :
        /\ inbox[m] # None => owner[inbox[m]] = m /\ Spawned(inbox[m])
        /\ tokenSlot[m] # None => owner[tokenSlot[m]] = m /\ Spawned(tokenSlot[m])

\* A token about to be fired has left its slot, for good.
Taken ==
    \A c \in Callers : pc[c] = "fireToken" =>
        Spawned(held[c]) /\ tokenSlot[owner[held[c]]] # held[c]

\* Stop is sent on an inbox that has left its slot, for good.
StopsTaken == \A g \in Gens : HasStop(g) => Spawned(g) /\ inbox[owner[g]] # g

\* A loop whose start failed only drains its queue, and has no token slot.
Unstarted ==
    \A g \in Gens : ~started[g] => loop[g] \in {"recv", "done"} /\ tokenSlot[owner[g]] # g

\* A loop loses its token slot before its inbox only to a stop that cancels it.
InboxHeld ==
    \A m \in Modules :
        inbox[m] # None => tokenSlot[m] = inbox[m] \/ Cancelled(inbox[m])

GenInv ==
    /\ Allocation /\ SlotsOwned /\ Taken /\ StopsTaken /\ Unstarted
    /\ InboxHeld /\ DeadInboxWasCancelled

\* A send adds a Stop only where it sends one.
LEMMA PushStops ==
  ASSUME LoopsOK, NEW g \in Gens, NEW msg \in Messages, queue' = Push(queue, g, msg)
  PROVE  \A h \in Gens : HasStop(h)' => HasStop(h) \/ (h = g /\ msg.kind = "stop")
<1>0. queue \in [Gens -> Seq(Messages)]
  BY DEF LoopsOK
<1>1. CASE InboxClosed(g)
  <2>1. queue' = queue
    BY <1>1 DEF Push
  <2>. QED
    BY <2>1 DEF HasStop
<1>2. CASE ~InboxClosed(g)
  <2>1. \A i \in DOMAIN Append(queue[g], msg) :
           \/ i \in DOMAIN queue[g] /\ Append(queue[g], msg)[i] = queue[g][i]
           \/ Append(queue[g], msg)[i] = msg
    BY <1>0
  <2>2. \A h \in Gens : queue'[h] = IF h = g THEN Append(queue[g], msg) ELSE queue[h]
    BY <1>0, <1>2 DEF Push
  <2>. QED
    BY <2>1, <2>2 DEF HasStop
<1>. QED
  BY <1>1, <1>2

\* recv() adds no Stop to a queue, nor does a loop that ends.
LEMMA RecvStops ==
  ASSUME LoopsOK, NEW g \in Gens,
         \/ queue' = [queue EXCEPT ![g] = <<>>]
         \/ queue[g] # <<>> /\ queue' = [queue EXCEPT ![g] = Tail(@)]
  PROVE  \A h \in Gens : HasStop(h)' => HasStop(h)
<1>0. queue \in [Gens -> Seq(Messages)]
  BY DEF LoopsOK
<1>1. CASE queue' = [queue EXCEPT ![g] = <<>>]
  BY <1>0, <1>1 DEF HasStop
<1>2. CASE queue[g] # <<>> /\ queue' = [queue EXCEPT ![g] = Tail(@)]
  <2>1. \A i \in DOMAIN Tail(queue[g]) : i + 1 \in DOMAIN queue[g] /\ Tail(queue[g])[i] = queue[g][i + 1]
    BY <1>0, <1>2
  <2>2. queue'[g] = Tail(queue[g]) /\ \A h \in Gens : h # g => queue'[h] = queue[h]
    BY <1>0, <1>2
  <2>3. HasStop(g)' => HasStop(g)
    <3> SUFFICES ASSUME NEW i \in DOMAIN Tail(queue[g]), Tail(queue[g])[i].kind = "stop"
                 PROVE  HasStop(g)
      BY <2>2 DEF HasStop
    <3>. QED
      BY <2>1 DEF HasStop
  <2>. QED
    BY <2>2, <2>3 DEF HasStop
<1>. QED
  BY <1>1, <1>2

\* What most steps of a call do to the generations: nothing but fire tokens.
CallKeeps(c) ==
    /\ UNCHANGED <<slotVars, nextGen, owner, loop, started>>
    /\ \A d \in Callers : d # c => pc'[d] = pc[d] /\ target'[d] = target[d] /\ held'[d] = held[d]
    /\ pc[c] \notin {"install", "fireToken"} /\ pc'[c] \notin {"install", "fireToken"}
    /\ \A g \in Gens : Fired(g) => Fired(g)'
    /\ \A g \in Gens : HasStop(g)' => HasStop(g)

LEMMA CallFrame ==
  ASSUME TypeOK, GenInv, NEW c \in Callers, CallKeeps(c)
  PROVE  GenInv'
<1> USE DEF GenInv, slotVars, CallKeeps
<1>1. Allocation' /\ Taken'
  BY DEF Allocation, Taken, Spawned
<1>2. SlotsOwned' /\ Unstarted'
  BY DEF SlotsOwned, Unstarted, Spawned
<1>3. StopsTaken'
  BY DEF StopsTaken, Spawned
<1>4. \A g \in Gens : Cancelled(g) => Cancelled(g)'
  BY DEF Cancelled
<1>5. InboxHeld' /\ DeadInboxWasCancelled'
  BY <1>4 DEF InboxHeld, DeadInboxWasCancelled, InboxClosed, TypeOK, SlotsOK
<1>. QED
  BY <1>1, <1>2, <1>3, <1>5

\* What most steps of a loop do to them: it runs on, or ends once it is
\* cancelled or its inbox has left the slot.
LoopKeeps(g) ==
    /\ UNCHANGED <<slotVars, nextGen, owner, started, pc, target, held>>
    /\ Spawned(g) /\ Spawned(g)'
    /\ \A h \in Gens : h # g => loop'[h] = loop[h] /\ token'[h] = token[h]
    /\ ~started[g] => loop'[g] \in {"recv", "done"}
    /\ \A h \in Gens : HasStop(h)' => HasStop(h)
    /\ Fired(g) => Fired(g)' \/ (tokenSlot[owner[g]] = g /\ started[g] /\ loop'[g] # "done")
    /\ loop'[g] = "done" => loop[g] = "done" \/ Cancelled(g) \/ inbox[owner[g]] # g

LEMMA LoopFrame ==
  ASSUME TypeOK, GenInv, NEW g \in Gens, LoopKeeps(g)
  PROVE  GenInv'
<1> USE DEF GenInv, slotVars, LoopKeeps
<1>0. \A h \in Gens : (Spawned(h) <=> Spawned(h)') /\ (loop[h] = "none" <=> loop'[h] = "none")
                      /\ (loop[h] = "allocated" => loop'[h] = "allocated")
  BY DEF Spawned
<1>1. Allocation'
  BY <1>0 DEF Allocation, TypeOK, CallsOK
<1>2. SlotsOwned'
  BY <1>0 DEF SlotsOwned, TypeOK, SlotsOK
<1>3. Taken'
  BY <1>0 DEF Taken, TypeOK, CallsOK
<1>4. StopsTaken'
  BY <1>0 DEF StopsTaken
<1>5. Unstarted'
  BY DEF Unstarted
<1>6. \A h \in Gens : h # g /\ Cancelled(h) => Cancelled(h)'
  BY DEF Cancelled, Fired
<1>7. Cancelled(g) => Cancelled(g)' \/ (tokenSlot[owner[g]] = g /\ started[g] /\ loop'[g] # "done")
  BY DEF Cancelled
<1>8. InboxHeld'
  <2> SUFFICES ASSUME NEW m \in Modules, inbox[m] # None, tokenSlot[m] # inbox[m]
               PROVE  Cancelled(inbox[m])'
    BY DEF InboxHeld
  <2>1. inbox[m] \in Gens /\ owner[inbox[m]] = m /\ Cancelled(inbox[m])
    BY DEF InboxHeld, SlotsOwned, TypeOK, SlotsOK
  <2>. QED
    BY <2>1, <1>6, <1>7
<1>9. DeadInboxWasCancelled'
  <2> SUFFICES ASSUME NEW m \in Modules, inbox[m] # None, InboxClosed(inbox[m])'
               PROVE  Cancelled(inbox[m])'
    BY DEF DeadInboxWasCancelled
  <2>1. inbox[m] \in Gens /\ owner[inbox[m]] = m
    BY DEF SlotsOwned, TypeOK, SlotsOK
  <2>2. CASE inbox[m] # g
    BY <2>1, <2>2, <1>6 DEF DeadInboxWasCancelled, InboxClosed
  <2>3. CASE inbox[m] = g
    <3>1. Cancelled(g) /\ (loop'[g] = "done" \/ ~started[g])
      BY <2>1, <2>3 DEF DeadInboxWasCancelled, InboxClosed
    <3>. QED
      BY <3>1, <2>3, <1>7
  <2>. QED
    BY <2>2, <2>3
<1>. QED
  BY <1>1, <1>2, <1>3, <1>4, <1>5, <1>8, <1>9

\* create_module_slot hands out a generation nobody knows of.
LEMMA NewTokenKeeps ==
  ASSUME TypeOK, GenInv, NEW c \in Callers, NewToken(c)
  PROVE  GenInv'
<1> DEFINE n == nextGen
<1> USE DEF GenInv
<1>0. n \in Gens /\ loop[n] = "none"
  BY DEF NewToken, TypeOK, LoopsOK, Gens, Allocation
<1>1. /\ nextGen' = n + 1 /\ UNCHANGED <<inbox, tokenSlot, started, queue, target>>
      /\ loop' = [loop EXCEPT ![n] = "allocated"]
      /\ owner' = [owner EXCEPT ![n] = target[c]]
      /\ \A g \in Gens : g # n => token'[g] = token[g]
      /\ held' = [held EXCEPT ![c] = n] /\ pc' = [pc EXCEPT ![c] = "install"]
      /\ pc[c] = "newToken"
  BY DEF NewToken, slotVars, TypeOK, LoopsOK
<1> HIDE DEF n
<1>2. \A g \in Gens : g # n => loop'[g] = loop[g] /\ owner'[g] = owner[g]
  BY <1>0, <1>1 DEF TypeOK, LoopsOK
<1>3. /\ loop'[n] = "allocated" /\ owner'[n] = target[c]
      /\ pc'[c] = "install" /\ held'[c] = n
      /\ \A d \in Callers : d # c => pc'[d] = pc[d] /\ held'[d] = held[d]
  BY <1>0, <1>1 DEF TypeOK, LoopsOK, CallsOK
<1>4. Allocation'
  <2>1. ASSUME NEW g \in Gens PROVE g >= n + 1 <=> loop'[g] = "none"
    BY <1>0, <1>2, <1>3 DEF Allocation, n, Gens, TypeOK, LoopsOK
  <2>2. ASSUME NEW d \in Callers, pc'[d] = "install"
        PROVE  /\ loop'[held'[d]] = "allocated" /\ owner'[held'[d]] = target[d]
               /\ \A e \in Callers : pc'[e] = "install" /\ held'[e] = held'[d] => e = d
    <3>1. \A e \in Callers : e # c /\ pc'[e] = "install" =>
             held'[e] \in Gens /\ held'[e] # n
      BY <1>0, <1>3 DEF Allocation, TypeOK, CallsOK
    <3>. QED
      BY <2>2, <3>1, <1>2, <1>3 DEF Allocation
  <2>. QED
    BY <2>1, <2>2, <1>1 DEF Allocation
<1>5. SlotsOwned'
  BY <1>0, <1>1, <1>2 DEF SlotsOwned, Spawned, TypeOK, SlotsOK
<1>6. Taken'
  <2> SUFFICES ASSUME NEW d \in Callers, pc'[d] = "fireToken"
               PROVE  Spawned(held[d])' /\ tokenSlot'[owner'[held'[d]]] # held'[d]
    BY DEF Taken, Spawned
  <2>1. d # c /\ pc[d] = "fireToken" /\ held'[d] = held[d] /\ held[d] \in Gens
    BY <1>3 DEF TypeOK, CallsOK
  <2>2. Spawned(held[d]) /\ tokenSlot[owner[held[d]]] # held[d] /\ held[d] # n
    BY <2>1, <1>0 DEF Taken, Spawned
  <2>. QED
    BY <2>1, <2>2, <1>1, <1>2 DEF Spawned
<1>7. StopsTaken' /\ Unstarted'
  BY <1>0, <1>1, <1>2 DEF StopsTaken, Unstarted, Spawned, HasStop
<1>8. \A g \in Gens : g # n /\ Cancelled(g) => Cancelled(g)'
  BY <1>1, <1>3 DEF Cancelled, Fired
<1>9. \A m \in Modules : inbox[m] # None => inbox[m] \in Gens \ {n}
  BY <1>0 DEF SlotsOwned, Spawned, TypeOK, SlotsOK
<1>10. InboxHeld' /\ DeadInboxWasCancelled'
  BY <1>1, <1>2, <1>8, <1>9 DEF InboxHeld, DeadInboxWasCancelled, InboxClosed
<1>. QED
  BY <1>4, <1>5, <1>6, <1>7, <1>10

\* The new loop takes both slots of its module at once.
LEMMA InstallKeeps ==
  ASSUME TypeOK, GenInv, NEW c \in Callers, Install(c)
  PROVE  GenInv'
<1> USE DEF GenInv
<1>0. PICK m \in Modules, g \in Gens : m = target[c] /\ g = held[c]
  BY DEF Install, TypeOK, CallsOK, ModuleStates
<1>1. /\ UNCHANGED <<nextGen, owner, started, queue, token>>
      /\ inbox' = [inbox EXCEPT ![m] = g] /\ tokenSlot' = [tokenSlot EXCEPT ![m] = g]
      /\ loop' = [loop EXCEPT ![g] = "starting"]
      /\ pc[c] = "install" /\ pc'[c] \in {"eachStart", "idle"}
      /\ \A d \in Callers : d # c => pc'[d] = pc[d] /\ target'[d] = target[d] /\ held'[d] = held[d]
  BY <1>0 DEF Install, Return, TypeOK, CallsOK
<1>2. loop[g] = "allocated" /\ owner[g] = m /\ started[g]
  BY <1>0, <1>1 DEF Allocation, Unstarted, TypeOK, LoopsOK
<1>3. /\ loop'[g] = "starting" /\ \A h \in Gens : h # g => loop'[h] = loop[h]
      /\ inbox'[m] = g /\ tokenSlot'[m] = g
      /\ \A k \in Modules : k # m => inbox'[k] = inbox[k] /\ tokenSlot'[k] = tokenSlot[k]
  BY <1>1 DEF TypeOK, LoopsOK, SlotsOK
<1>4. Allocation'
  <2>1. ASSUME NEW h \in Gens PROVE h >= nextGen <=> loop'[h] = "none"
    BY <1>2, <1>3 DEF Allocation
  <2>2. ASSUME NEW d \in Callers, pc'[d] = "install"
        PROVE  /\ d # c /\ held[d] \in Gens /\ loop'[held[d]] = "allocated"
               /\ owner[held[d]] = target[d]
               /\ \A e \in Callers : pc'[e] = "install" /\ held'[e] = held[d] => e = d
    <3>1. d # c /\ pc[d] = "install" /\ held[d] \in Gens /\ held[d] # g
      BY <2>2, <1>0, <1>1 DEF Allocation, TypeOK, CallsOK
    <3>. QED
      BY <3>1, <1>1, <1>3 DEF Allocation
  <2>. QED
    BY <2>1, <2>2, <1>1 DEF Allocation
<1>5. SlotsOwned'
  BY <1>1, <1>2, <1>3 DEF SlotsOwned, Spawned, TypeOK, SlotsOK
<1>6. Taken'
  <2> SUFFICES ASSUME NEW d \in Callers, pc'[d] = "fireToken"
               PROVE  Spawned(held[d])' /\ tokenSlot'[owner[held'[d]]] # held'[d]
    BY <1>1 DEF Taken, Spawned
  <2>1. d # c /\ pc[d] = "fireToken" /\ held'[d] = held[d] /\ held[d] \in Gens
    BY <1>1 DEF TypeOK, CallsOK
  <2>2. Spawned(held[d]) /\ tokenSlot[owner[held[d]]] # held[d] /\ held[d] # g
    BY <2>1, <1>2 DEF Taken, Spawned
  <2>3. owner[held[d]] \in Modules
    BY <2>1, <2>2 DEF Spawned, TypeOK, LoopsOK
  <2>. QED
    BY <2>1, <2>2, <2>3, <1>3 DEF Spawned
<1>7. ~HasStop(g)
  BY <1>2 DEF StopsTaken, Spawned
<1>8. StopsTaken'
  <2> SUFFICES ASSUME NEW h \in Gens, HasStop(h) PROVE Spawned(h)' /\ inbox'[owner[h]] # h
    BY <1>1 DEF StopsTaken, HasStop
  <2>1. h # g /\ Spawned(h) /\ inbox[owner[h]] # h /\ owner[h] \in Modules
    BY <1>7 DEF StopsTaken, Spawned, TypeOK, LoopsOK
  <2>. QED
    BY <2>1, <1>3 DEF Spawned
<1>9. Unstarted'
  <2> SUFFICES ASSUME NEW h \in Gens, ~started[h]
               PROVE  loop'[h] \in {"recv", "done"} /\ tokenSlot'[owner[h]] # h
    BY <1>1 DEF Unstarted
  <2>1. h # g /\ loop[h] \in {"recv", "done"} /\ tokenSlot[owner[h]] # h /\ owner[h] \in Modules
    BY <1>2 DEF Unstarted, TypeOK, LoopsOK
  <2>. QED
    BY <2>1, <1>3
<1>10. \A h \in Gens : Cancelled(h) => Cancelled(h)'
  BY <1>1 DEF Cancelled, Fired
<1>11. InboxHeld' /\ DeadInboxWasCancelled'
  <2> SUFFICES ASSUME NEW k \in Modules, inbox'[k] # None
               PROVE  /\ tokenSlot'[k] = inbox'[k] \/ Cancelled(inbox[k])'
                      /\ InboxClosed(inbox[k])' => Cancelled(inbox[k])'
    BY DEF InboxHeld, DeadInboxWasCancelled
  <2>1. CASE k = m
    BY <2>1, <1>1, <1>2, <1>3 DEF InboxClosed
  <2>2. CASE k # m
    <3>1. inbox'[k] = inbox[k] /\ inbox[k] \in Gens /\ inbox[k] # g
      BY <2>2, <1>2, <1>3 DEF SlotsOwned, TypeOK, SlotsOK
    <3>. QED
      BY <2>2, <3>1, <1>1, <1>3, <1>10 DEF InboxHeld, DeadInboxWasCancelled, InboxClosed
  <2>. QED
    BY <2>1, <2>2
<1>. QED
  BY <1>4, <1>5, <1>6, <1>8, <1>9, <1>11

\* A stop empties the inbox slot and sends Stop on what it held.
LEMMA TakeInboxKeeps ==
  ASSUME TypeOK, GenInv, NEW c \in Callers, TakeInbox(c)
  PROVE  GenInv'
<1> USE DEF GenInv
<1>0. PICK m \in Modules : m = target[c]
  BY DEF TakeInbox, TypeOK, CallsOK, ModuleStates
<1>1. /\ UNCHANGED <<tokenSlot, nextGen, owner, loop, started, token, held, target>>
      /\ inbox'[m] = None /\ \A k \in Modules : k # m => inbox'[k] = inbox[k]
      /\ pc[c] = "takeInbox" /\ pc'[c] = "takeToken" /\ \A d \in Callers : d # c => pc'[d] = pc[d]
  BY <1>0 DEF TakeInbox, TypeOK, SlotsOK, CallsOK
<1>2. \A h \in Gens : HasStop(h)' => HasStop(h) \/ (inbox[m] # None /\ h = inbox[m])
  <2>1. CASE inbox[m] = None
    BY <2>1, <1>0 DEF TakeInbox, HasStop
  <2>2. CASE inbox[m] # None
    <3>1. inbox[m] \in Gens /\ StopMsg \in Messages /\ queue' = Push(queue, inbox[m], StopMsg)
      BY <2>2, <1>0 DEF TakeInbox, TypeOK, SlotsOK, StopMsg, Messages
    <3>. QED
      BY <2>2, <3>1, PushStops DEF TypeOK
  <2>. QED
    BY <2>1, <2>2
<1>3. Allocation' /\ Taken'
  BY <1>1 DEF Allocation, Taken, Spawned
<1>4. SlotsOwned' /\ Unstarted'
  BY <1>1 DEF SlotsOwned, Unstarted, Spawned
<1>5. StopsTaken'
  <2> SUFFICES ASSUME NEW h \in Gens, HasStop(h)' PROVE Spawned(h) /\ inbox'[owner[h]] # h
    BY <1>1 DEF StopsTaken, Spawned
  <2>1. CASE HasStop(h)
    <3>1. Spawned(h) /\ inbox[owner[h]] # h /\ owner[h] \in Modules
      BY <2>1 DEF StopsTaken, Spawned, TypeOK, LoopsOK
    <3>. QED
      BY <3>1, <1>1 DEF None, Gens
  <2>2. CASE inbox[m] # None /\ h = inbox[m]
    BY <2>2, <1>1 DEF SlotsOwned, None, Gens
  <2>. QED
    BY <1>2, <2>1, <2>2
<1>6. \A g \in Gens : Cancelled(g) => Cancelled(g)'
  BY <1>1 DEF Cancelled, Fired
<1>7. InboxHeld' /\ DeadInboxWasCancelled'
  BY <1>1, <1>6 DEF InboxHeld, DeadInboxWasCancelled, InboxClosed, TypeOK, SlotsOK
<1>. QED
  BY <1>3, <1>4, <1>5, <1>7

\* ... then the token slot, and holds the token it is about to fire.
LEMMA TakeTokenKeeps ==
  ASSUME TypeOK, GenInv, NEW c \in Callers, TakeToken(c)
  PROVE  GenInv'
<1> USE DEF GenInv
<1>0. PICK m \in Modules : m = target[c]
  BY DEF TakeToken, TypeOK, CallsOK, ModuleStates
<1>1. /\ UNCHANGED <<inbox, nextGen, owner, loop, started, queue, token, target>>
      /\ tokenSlot'[m] = None /\ \A k \in Modules : k # m => tokenSlot'[k] = tokenSlot[k]
      /\ pc[c] = "takeToken" /\ held'[c] = tokenSlot[m]
      /\ pc'[c] = IF tokenSlot[m] = None THEN "lockModule" ELSE "fireToken"
      /\ \A d \in Callers : d # c => pc'[d] = pc[d] /\ held'[d] = held[d]
  <2>1. /\ UNCHANGED <<inbox, nextGen, owner, loop, started, queue, token, target>>
        /\ pc[c] = "takeToken" /\ tokenSlot' = [tokenSlot EXCEPT ![m] = None]
        /\ held' = [held EXCEPT ![c] = tokenSlot[m]]
        /\ pc' = [pc EXCEPT ![c] = IF tokenSlot[m] = None THEN "lockModule" ELSE "fireToken"]
    BY <1>0 DEF TakeToken, loopVars
  <2>. QED
    BY <2>1 DEF TypeOK, SlotsOK, CallsOK
<1>2. \A k \in Modules : tokenSlot'[k] \in {tokenSlot[k], None}
  BY <1>1
<1>3. Allocation'
  BY <1>1 DEF Allocation
<1>4. SlotsOwned'
  BY <1>1, <1>2 DEF SlotsOwned, Spawned
<1>5. Taken'
  <2> SUFFICES ASSUME NEW d \in Callers, pc'[d] = "fireToken"
               PROVE  Spawned(held'[d]) /\ tokenSlot'[owner[held'[d]]] # held'[d]
    BY <1>1 DEF Taken, Spawned
  <2>1. CASE d = c
    <3>1. held'[d] = tokenSlot[m] /\ tokenSlot[m] # None
      BY <2>1, <1>1
    <3>. QED
      BY <3>1, <1>1 DEF SlotsOwned
  <2>2. CASE d # c
    <3>1. held'[d] = held[d] /\ held[d] \in Gens /\ Spawned(held[d]) /\ tokenSlot[owner[held[d]]] # held[d]
      BY <2>2, <1>1 DEF Taken, TypeOK, CallsOK
    <3>2. owner[held[d]] \in Modules
      BY <3>1 DEF Spawned, TypeOK, LoopsOK
    <3>. QED
      BY <3>1, <3>2, <1>2 DEF None, Gens
  <2>. QED
    BY <2>1, <2>2
<1>6. StopsTaken'
  BY <1>1 DEF StopsTaken, HasStop, Spawned
<1>7. Unstarted'
  <2> SUFFICES ASSUME NEW g \in Gens, ~started[g]
               PROVE  loop[g] \in {"recv", "done"} /\ tokenSlot'[owner[g]] # g
    BY <1>1 DEF Unstarted
  <2>1. loop[g] \in {"recv", "done"} /\ tokenSlot[owner[g]] # g /\ owner[g] \in Modules
    BY DEF Unstarted, TypeOK, LoopsOK
  <2>. QED
    BY <2>1, <1>2 DEF None, Gens
<1>8. \A g \in Gens : Cancelled(g) => Cancelled(g)'
  BY <1>1 DEF Cancelled, Fired
<1>9. InboxHeld'
  <2> SUFFICES ASSUME NEW k \in Modules, inbox[k] # None
               PROVE  tokenSlot'[k] = inbox[k] \/ Cancelled(inbox[k])'
    BY <1>1 DEF InboxHeld
  <2>1. inbox[k] \in Gens /\ (tokenSlot[k] = inbox[k] \/ Cancelled(inbox[k]))
    BY DEF InboxHeld, TypeOK, SlotsOK
  <2>2. CASE k = m /\ tokenSlot[k] = inbox[k]
    BY <2>2, <1>1 DEF Cancelled
  <2>. QED
    BY <2>1, <2>2, <1>1, <1>8
<1>10. DeadInboxWasCancelled'
  BY <1>1, <1>8 DEF DeadInboxWasCancelled, InboxClosed, TypeOK, SlotsOK
<1>. QED
  BY <1>3, <1>4, <1>5, <1>6, <1>7, <1>9, <1>10

\* ... and fires it.
LEMMA FireTokenKeeps ==
  ASSUME TypeOK, GenInv, NEW c \in Callers, FireToken(c)
  PROVE  GenInv'
<1> USE DEF GenInv
<1>0. PICK g \in Gens : g = held[c]
  BY DEF FireToken, TypeOK, CallsOK
<1>1. /\ UNCHANGED <<slotVars, nextGen, owner, loop, started, queue, target>>
      /\ pc[c] = "fireToken" /\ pc'[c] = "lockModule"
      /\ \A d \in Callers : d # c => pc'[d] = pc[d] /\ held'[d] = held[d]
      /\ token'[g] = "fired" /\ \A h \in Gens : h # g => token'[h] = token[h]
  BY <1>0 DEF FireToken, TypeOK, LoopsOK, CallsOK
<1> USE DEF slotVars
<1>2. Allocation' /\ Taken'
  BY <1>1 DEF Allocation, Taken, Spawned
<1>3. SlotsOwned' /\ Unstarted'
  BY <1>1 DEF SlotsOwned, Unstarted, Spawned
<1>4. StopsTaken'
  BY <1>1 DEF StopsTaken, HasStop, Spawned
<1>5. \A h \in Gens : Cancelled(h) => Cancelled(h)'
  BY <1>0, <1>1 DEF Cancelled, Fired
<1>6. InboxHeld' /\ DeadInboxWasCancelled'
  BY <1>1, <1>5 DEF InboxHeld, DeadInboxWasCancelled, InboxClosed, TypeOK, SlotsOK
<1>. QED
  BY <1>2, <1>3, <1>4, <1>6

\* release_module_slot empties both slots, or leaves an inbox whose loop a stop
\* has cancelled.
LEMMA ReleaseSlotKeeps ==
  ASSUME TypeOK, GenInv, NEW g \in Gens, ReleaseSlot(g)
  PROVE  GenInv'
<1> USE DEF GenInv
<1>0. PICK m \in Modules : m = owner[g]
  BY DEF ReleaseSlot, LoopIs, TypeOK, LoopsOK
<1>1. /\ UNCHANGED <<nextGen, owner, queue, token, pc, held, target>>
      /\ loop[g] = "failed" /\ loop'[g] = "recv" /\ ~started'[g]
      /\ \A h \in Gens : h # g => loop'[h] = loop[h] /\ started'[h] = started[h]
      /\ \A k \in Modules :
            IF k = m /\ tokenSlot[m] = g THEN tokenSlot'[k] = None /\ inbox'[k] = None
                                         ELSE tokenSlot'[k] = tokenSlot[k] /\ inbox'[k] = inbox[k]
  BY <1>0 DEF ReleaseSlot, LoopIs, LoopTo, callVars, TypeOK, LoopsOK, SlotsOK
<1>2. \A k \in Modules : tokenSlot'[k] \in {tokenSlot[k], None} /\ inbox'[k] \in {inbox[k], None}
  BY <1>1
<1>3. \A h \in Gens : /\ Spawned(h) <=> Spawned(h)'
                      /\ loop[h] = "none" <=> loop'[h] = "none"
                      /\ loop[h] = "allocated" <=> loop'[h] = "allocated"
  BY <1>1 DEF Spawned
<1>4. Allocation'
  BY <1>1, <1>3 DEF Allocation, TypeOK, CallsOK
<1>5. SlotsOwned'
  BY <1>1, <1>2, <1>3 DEF SlotsOwned, TypeOK, SlotsOK
<1>6. Taken'
  <2> SUFFICES ASSUME NEW d \in Callers, pc[d] = "fireToken"
               PROVE  Spawned(held[d])' /\ tokenSlot'[owner[held[d]]] # held[d]
    BY <1>1 DEF Taken, Spawned
  <2>1. held[d] \in Gens /\ Spawned(held[d]) /\ tokenSlot[owner[held[d]]] # held[d]
    BY DEF Taken, TypeOK, CallsOK
  <2>2. owner[held[d]] \in Modules
    BY <2>1 DEF Spawned, TypeOK, LoopsOK
  <2>3. Spawned(held[d])'
    BY <2>1, <1>1 DEF Spawned
  <2>. QED
    BY <2>1, <2>2, <2>3, <1>2 DEF None, Gens
<1>7. StopsTaken'
  <2> SUFFICES ASSUME NEW h \in Gens, HasStop(h) PROVE Spawned(h)' /\ inbox'[owner[h]] # h
    BY <1>1 DEF StopsTaken, HasStop
  <2>1. Spawned(h) /\ inbox[owner[h]] # h /\ owner[h] \in Modules
    BY DEF StopsTaken, Spawned, TypeOK, LoopsOK
  <2>. QED
    BY <2>1, <1>2, <1>3 DEF None, Gens
<1>8. Unstarted'
  <2> SUFFICES ASSUME NEW h \in Gens, ~started'[h]
               PROVE  loop'[h] \in {"recv", "done"} /\ tokenSlot'[owner[h]] # h
    BY <1>1 DEF Unstarted
  <2>1. CASE h = g
    BY <2>1, <1>0, <1>1 DEF None, Gens
  <2>2. CASE h # g
    <3>1. loop[h] \in {"recv", "done"} /\ tokenSlot[owner[h]] # h /\ owner[h] \in Modules
      BY <2>2, <1>1 DEF Unstarted, TypeOK, LoopsOK
    <3>. QED
      BY <2>2, <3>1, <1>1, <1>2 DEF None, Gens
  <2>. QED
    BY <2>1, <2>2
<1>9. \A h \in Gens : Cancelled(h) <=> Cancelled(h)'
  BY <1>1 DEF Cancelled, Fired
<1>10. InboxHeld'
  BY <1>1, <1>9 DEF InboxHeld, TypeOK, SlotsOK
<1>11. DeadInboxWasCancelled'
  <2> SUFFICES ASSUME NEW k \in Modules, NEW h \in Gens, inbox'[k] = h, InboxClosed(h)'
               PROVE  Cancelled(h)
    <3>1. \A k \in Modules : inbox'[k] # None => inbox'[k] \in Gens
      BY <1>2 DEF TypeOK, SlotsOK
    <3>. QED
      BY <3>1, <1>9 DEF DeadInboxWasCancelled, Cancelled, Fired, InboxClosed
  <2>1. inbox[k] = h /\ owner[h] = k
    BY <1>2 DEF SlotsOwned, None, Gens
  <2>2. CASE h = g
    BY <2>1, <2>2, <1>0, <1>1 DEF InboxHeld, None, Gens
  <2>3. CASE h # g
    BY <2>1, <2>3, <1>1 DEF InboxClosed, DeadInboxWasCancelled, None, Gens
  <2>. QED
    BY <2>2, <2>3
<1>. QED
  BY <1>4, <1>5, <1>6, <1>7, <1>8, <1>10, <1>11

\* An inbox in a slot is dead only after its loop was cancelled, whatever starts,
\* stops and messages interleave.
THEOREM GenInvHolds == Spec => []GenInv
<1>1. Init => GenInv
  <2>1. Init => Allocation /\ SlotsOwned /\ Taken
    BY LifecycleAssumption DEF Init, Allocation, SlotsOwned, Taken, Gens
  <2>2. Init => StopsTaken /\ Unstarted /\ InboxHeld /\ DeadInboxWasCancelled
    BY DEF Init, StopsTaken, HasStop, Unstarted, InboxHeld, DeadInboxWasCancelled
  <2>. QED
    BY <2>1, <2>2 DEF GenInv
<1>2. TypeOK /\ GenInv /\ [Next]_vars => GenInv'
  <2> SUFFICES ASSUME TypeOK, GenInv, [Next]_vars
               PROVE  GenInv'
    OBVIOUS
  <2>1. ASSUME NEW c \in Callers, Call(c) PROVE CallKeeps(c)
    <3> USE DEF TypeOK, CallsOK, CallKeeps, slotVars, loopVars, HasStop, Fired
    <3>1. ASSUME CallStartPatch(c) PROVE CallKeeps(c)
      BY <3>1 DEF CallStartPatch
    <3>2. ASSUME CallStopPatch(c) PROVE CallKeeps(c)
      BY <3>2 DEF CallStopPatch
    <3>3. ASSUME NEW m \in Modules, CallStartModule(c, m) PROVE CallKeeps(c)
      BY <3>3 DEF CallStartModule
    <3>4. ASSUME NEW m \in Modules, CallStopModule(c, m) PROVE CallKeeps(c)
      BY <3>4 DEF CallStopModule
    <3>5. ASSUME NEW m \in Modules, CallInput(c, m) PROVE CallKeeps(c)
      BY <3>5 DEF CallInput
    <3>6. ASSUME NEW m \in Modules, NEW ch \in Channels, CallSetConfigs(c, m, ch) PROVE CallKeeps(c)
      BY <3>6 DEF CallSetConfigs
    <3>. QED
      BY <2>1, <3>1, <3>2, <3>3, <3>4, <3>5, <3>6 DEF Call
  <2>2. ASSUME NEW c \in Callers, PatchStep(c) PROVE GenInv'
    <3> USE DEF TypeOK, LoopsOK, CallsOK, CallKeeps, slotVars, loopVars, HasStop, Fired
    <3>1. CASE PatchAlreadyRunning(c)
      <4>1. CallKeeps(c)
        BY <3>1 DEF PatchAlreadyRunning
      <4>. QED
        BY <4>1, CallFrame
    <3>2. CASE LockForStart(c)
      <4>1. CallKeeps(c)
        BY <3>2 DEF DetachAttached, LockForStart
      <4>. QED
        BY <4>1, CallFrame
    <3>3. CASE EachStart(c)
      <4>1. CallKeeps(c)
        BY <3>3 DEF EachStart
      <4>. QED
        BY <4>1, CallFrame
    <3>4. CASE PatchStarted(c)
      <4>1. CallKeeps(c)
        BY <3>4 DEF PatchStarted
      <4>. QED
        BY <4>1, CallFrame
    <3>5. CASE LockForStop(c)
      <4>1. CallKeeps(c)
        BY <3>5 DEF FireAttached, LockForStop
      <4>. QED
        BY <4>1, CallFrame
    <3>6. CASE EachStop(c)
      <4>1. CallKeeps(c)
        BY <3>6 DEF EachStop
      <4>. QED
        BY <4>1, CallFrame
    <3>7. CASE PatchStopped(c)
      <4>1. CallKeeps(c)
        BY <3>7 DEF DetachAttached, PatchStopped
      <4>. QED
        BY <4>1, CallFrame
    <3>. QED
      BY <2>2, <3>1, <3>2, <3>3, <3>4, <3>5, <3>6, <3>7 DEF PatchStep
  <2>3. ASSUME NEW c \in Callers, ModuleStep(c) PROVE GenInv'
    <3> USE DEF TypeOK, LoopsOK, CallsOK, CallKeeps, slotVars, loopVars, HasStop, Fired
    <3>1. CASE NotInit(c)
      <4>1. CallKeeps(c)
        BY <3>1 DEF Return, NotInit
      <4>. QED
        BY <4>1, CallFrame
    <3>2. CASE ReadInit(c)
      <4>1. CallKeeps(c)
        BY <3>2 DEF ReadInit
      <4>. QED
        BY <4>1, CallFrame
    <3>3. CASE NewToken(c)
      BY <3>3, NewTokenKeeps
    <3>4. CASE Install(c)
      BY <3>4, InstallKeeps
    <3>5. CASE TakeInbox(c)
      BY <3>5, TakeInboxKeeps
    <3>6. CASE TakeToken(c)
      BY <3>6, TakeTokenKeeps
    <3>7. CASE FireToken(c)
      BY <3>7, FireTokenKeeps
    <3>8. CASE NothingToStop(c)
      <4>1. CallKeeps(c)
        BY <3>8 DEF Return, NothingToStop
      <4>. QED
        BY <4>1, CallFrame
    <3>9. CASE BeginStop(c)
      <4>1. CallKeeps(c)
        BY <3>9 DEF BeginStop
      <4>. QED
        BY <4>1, CallFrame
    <3>10. CASE Stopped(c)
      <4>1. CallKeeps(c)
        BY <3>10 DEF Return, Stopped
      <4>. QED
        BY <4>1, CallFrame
    <3>11. CASE StopFails(c)
      <4>1. CallKeeps(c)
        BY <3>11 DEF Return, StopFails
      <4>. QED
        BY <4>1, CallFrame
    <3>. QED
      BY <2>3, <3>1, <3>2, <3>3, <3>4, <3>5, <3>6, <3>7, <3>8, <3>9, <3>10, <3>11 DEF ModuleStep
  <2>4. ASSUME NEW c \in Callers, MessageStep(c) PROVE CallKeeps(c)
    <3>1. CASE Send(c)
      <4> DEFINE msg == IF pc[c] = "sendInput" THEN InputMsg ELSE ConfigMsg(arg[c])
      <4>1. msg \in Messages /\ msg.kind # "stop" /\ held[c] \in Gens
        BY <3>1 DEF Send, TypeOK, CallsOK, InputMsg, ConfigMsg, Messages
      <4>2. queue' = Push(queue, held[c], msg)
        BY <3>1 DEF Send
      <4>3. \A g \in Gens : HasStop(g)' => HasStop(g)
        BY <4>1, <4>2, PushStops DEF TypeOK
      <4>. QED
        BY <3>1, <4>3 DEF Send, EndSend, CallKeeps, slotVars, Fired, TypeOK, CallsOK
    <3>2. CASE SetDirect(c)
      BY <3>2 DEF SetDirect, EndSend, CallKeeps, slotVars, loopVars, HasStop, Fired, TypeOK, CallsOK
    <3>. QED
      BY <2>4, <3>1, <3>2 DEF MessageStep
  <2>5. ASSUME NEW g \in Gens, StartStep(g) PROVE GenInv'
    <3> USE DEF TypeOK, LoopsOK, LoopKeeps, LoopIs, LoopTo, slotVars, callVars, Spawned
    <3>1. CASE PollStart(g)
      <4>1. loop[g] \in {"recv", "done"} \/ started[g]
        BY DEF GenInv, Unstarted
      <4>2. \A h \in Gens : HasStop(h)' => HasStop(h)
        BY <3>1 DEF PollStart, HasStop
      <4>. QED
        BY <3>1, <4>1, <4>2, LoopFrame DEF PollStart, Fired
    <3>2. CASE StartCancelled(g)
      <4>1. loop[g] \in {"recv", "done"} \/ started[g]
        BY DEF GenInv, Unstarted
      <4>2. \A h \in Gens : HasStop(h)' => HasStop(h)
        BY <3>2, RecvStops DEF StartCancelled, Receiving
      <4>. QED
        BY <3>2, <4>1, <4>2, LoopFrame DEF StartCancelled, Cancelled, Fired
    <3>3. CASE StartPending(g)
      <4>1. loop[g] \in {"recv", "done"} \/ started[g]
        BY DEF GenInv, Unstarted
      <4>2. \A h \in Gens : HasStop(h)' => HasStop(h)
        BY <3>3 DEF StartPending, HasStop
      <4>. QED
        BY <3>3, <4>1, <4>2, LoopFrame DEF StartPending, Fired
    <3>4. CASE StartExternal(g)
      <4>1. loop[g] \in {"recv", "done"} \/ started[g]
        BY DEF GenInv, Unstarted
      <4>2. \A h \in Gens : HasStop(h)' => HasStop(h)
        BY <3>4 DEF StartExternal, HasStop
      <4>. QED
        BY <3>4, <4>1, <4>2, LoopFrame DEF StartExternal, Fired
    <3>5. CASE BeginStart(g)
      <4>1. loop[g] \in {"recv", "done"} \/ started[g]
        BY DEF GenInv, Unstarted
      <4>2. \A h \in Gens : HasStop(h)' => HasStop(h)
        BY <3>5 DEF BeginStart, HasStop
      <4>. QED
        BY <3>5, <4>1, <4>2, LoopFrame DEF BeginStart, Fired
    <3>6. CASE StartSucceeds(g)
      <4>1. loop[g] \in {"recv", "done"} \/ started[g]
        BY DEF GenInv, Unstarted
      <4>2. \A h \in Gens : HasStop(h)' => HasStop(h)
        BY <3>6 DEF StartSucceeds, HasStop
      <4>. QED
        BY <3>6, <4>1, <4>2, LoopFrame DEF StartSucceeds, Fired
    <3>7. CASE StartDropped(g)
      <4>1. loop[g] \in {"recv", "done"} \/ started[g]
        BY DEF GenInv, Unstarted
      <4>2. \A h \in Gens : HasStop(h)' => HasStop(h)
        BY <3>7, RecvStops DEF StartDropped, Receiving
      <4>. QED
        BY <3>7, <4>1, <4>2, LoopFrame DEF StartDropped, Cancelled, Fired
    <3>8. CASE StartFails(g)
      <4>1. loop[g] \in {"recv", "done"} \/ started[g]
        BY DEF GenInv, Unstarted
      <4>2. \A h \in Gens : HasStop(h)' => HasStop(h)
        BY <3>8 DEF StartFails, HasStop
      <4>. QED
        BY <3>8, <4>1, <4>2, LoopFrame DEF StartFails, Fired
    <3>9. CASE ReleaseSlot(g)
      BY <3>9, ReleaseSlotKeeps
    <3>. QED
      BY <2>5, <3>1, <3>2, <3>3, <3>4, <3>5, <3>6, <3>7, <3>8, <3>9 DEF StartStep
  <2>6. ASSUME NEW g \in Gens, RecvStep(g) PROVE GenInv'
    <3> USE DEF TypeOK, LoopsOK, LoopKeeps, LoopIs, LoopTo, slotVars, callVars, Spawned
    <3>1. CASE DropInput(g)
      <4>1. loop[g] \in {"recv", "done"} \/ started[g]
        BY DEF GenInv, Unstarted
      <4>2. \A h \in Gens : HasStop(h)' => HasStop(h)
        BY <3>1, RecvStops DEF DropInput, Receiving
      <4>. QED
        BY <3>1, <4>1, <4>2, LoopFrame DEF DropInput, Receiving, Fired
    <3>2. CASE RecvInput(g)
      <4>1. loop[g] \in {"recv", "done"} \/ started[g]
        BY DEF GenInv, Unstarted
      <4>2. \A h \in Gens : HasStop(h)' => HasStop(h)
        BY <3>2, RecvStops DEF RecvInput, Receiving
      <4>. QED
        BY <3>2, <4>1, <4>2, LoopFrame DEF RecvInput, Receiving, Fired
    <3>3. CASE RecvConfig(g)
      <4>1. loop[g] \in {"recv", "done"} \/ started[g]
        BY DEF GenInv, Unstarted
      <4>2. \A h \in Gens : HasStop(h)' => HasStop(h)
        BY <3>3, RecvStops DEF RecvConfig, Receiving
      <4>. QED
        BY <3>3, <4>1, <4>2, LoopFrame DEF RecvConfig, Receiving, Fired
    <3>4. CASE RecvStop(g)
      <4>1. loop[g] \in {"recv", "done"} \/ started[g]
        BY DEF GenInv, Unstarted
      <4>2. \A h \in Gens : HasStop(h)' => HasStop(h)
        BY <3>4, RecvStops DEF RecvStop, Receiving
      <4>3. inbox[owner[g]] # g
        BY <3>4 DEF RecvStop, Receiving, HasStop, GenInv, StopsTaken
      <4>. QED
        BY <3>4, <4>1, <4>2, <4>3, LoopFrame DEF RecvStop, Receiving, Fired
    <3>5. CASE RecvNone(g)
      <4>1. loop[g] \in {"recv", "done"} \/ started[g]
        BY DEF GenInv, Unstarted
      <4>2. \A h \in Gens : HasStop(h)' => HasStop(h)
        BY <3>5 DEF RecvNone, HasStop
      <4>3. Cancelled(g) \/ inbox[owner[g]] # g
        BY <3>5 DEF RecvNone, HasSender, InboxClosed, GenInv, DeadInboxWasCancelled, None, Gens
      <4>. QED
        BY <3>5, <4>1, <4>2, <4>3, LoopFrame DEF RecvNone, Fired
    <3>. QED
      BY <2>6, <3>1, <3>2, <3>3, <3>4, <3>5 DEF RecvStep
  <2>7. ASSUME NEW g \in Gens, ProcessStep(g) PROVE GenInv'
    <3> USE DEF TypeOK, LoopsOK, LoopKeeps, LoopIs, LoopTo, slotVars, callVars, Spawned
    <3>1. CASE PollInput(g)
      <4>1. loop[g] \in {"recv", "done"} \/ started[g]
        BY DEF GenInv, Unstarted
      <4>2. \A h \in Gens : HasStop(h)' => HasStop(h)
        BY <3>1 DEF PollInput, HasStop
      <4>. QED
        BY <3>1, <4>1, <4>2, LoopFrame DEF PollInput, Fired
    <3>2. CASE InputSkipped(g)
      <4>1. loop[g] \in {"recv", "done"} \/ started[g]
        BY DEF GenInv, Unstarted
      <4>2. \A h \in Gens : HasStop(h)' => HasStop(h)
        BY <3>2 DEF InputSkipped, HasStop
      <4>. QED
        BY <3>2, <4>1, <4>2, LoopFrame DEF InputSkipped, Fired
    <3>3. CASE InputPending(g)
      <4>1. loop[g] \in {"recv", "done"} \/ started[g]
        BY DEF GenInv, Unstarted
      <4>2. \A h \in Gens : HasStop(h)' => HasStop(h)
        BY <3>3 DEF InputPending, HasStop
      <4>. QED
        BY <3>3, <4>1, <4>2, LoopFrame DEF InputPending, Fired
    <3>4. CASE BeginProcess(g)
      <4>1. loop[g] \in {"recv", "done"} \/ started[g]
        BY DEF GenInv, Unstarted
      <4>2. \A h \in Gens : HasStop(h)' => HasStop(h)
        BY <3>4 DEF BeginProcess, HasStop
      <4>. QED
        BY <3>4, <4>1, <4>2, LoopFrame DEF BeginProcess, Fired
    <3>5. CASE EndProcess(g)
      <4>1. loop[g] \in {"recv", "done"} \/ started[g]
        BY DEF GenInv, Unstarted
      <4>2. \A h \in Gens : HasStop(h)' => HasStop(h)
        BY <3>5 DEF EndProcess, HasStop
      <4>. QED
        BY <3>5, <4>1, <4>2, LoopFrame DEF EndProcess, Fired
    <3>6. CASE ProcessDropped(g)
      <4>1. loop[g] \in {"recv", "done"} \/ started[g]
        BY DEF GenInv, Unstarted
      <4>2. \A h \in Gens : HasStop(h)' => HasStop(h)
        BY <3>6 DEF ProcessDropped, HasStop
      <4>. QED
        BY <3>6, <4>1, <4>2, LoopFrame DEF ProcessDropped, Fired
    <3>7. CASE RenewLookup(g)
      <4>1. loop[g] \in {"recv", "done"} \/ started[g]
        BY DEF GenInv, Unstarted
      <4>2. \A h \in Gens : HasStop(h)' => HasStop(h)
        BY <3>7 DEF RenewLookup, HasStop
      <4>. QED
        BY <3>7, <4>1, <4>2, LoopFrame DEF RenewLookup, Fired
    <3>8. CASE RenewInstall(g)
      <4>1. loop[g] \in {"recv", "done"} \/ started[g]
        BY DEF GenInv, Unstarted
      <4>2. \A h \in Gens : HasStop(h)' => HasStop(h)
        BY <3>8 DEF RenewInstall, HasStop
      <4>. QED
        BY <3>8, <4>1, <4>2, LoopFrame DEF RenewInstall, Fired
    <3>. QED
      BY <2>7, <3>1, <3>2, <3>3, <3>4, <3>5, <3>6, <3>7, <3>8 DEF ProcessStep
  <2>8. CASE UNCHANGED vars
    <3> USE <2>8 DEF vars, slotVars, loopVars, callVars, GenInv
    <3>1. Allocation' /\ SlotsOwned' /\ Taken'
      BY DEF Allocation, SlotsOwned, Taken, Spawned
    <3>2. StopsTaken' /\ Unstarted'
      BY DEF StopsTaken, HasStop, Spawned, Unstarted
    <3>3. InboxHeld' /\ DeadInboxWasCancelled'
      BY DEF InboxHeld, DeadInboxWasCancelled, InboxClosed, Cancelled, Fired
    <3>. QED
      BY <3>1, <3>2, <3>3
  <2>. QED
    BY <2>1, <2>2, <2>3, <2>4, <2>5, <2>6, <2>7, <2>8, CallFrame
       DEF Next, CallStep, LoopStep
<1>. QED
  BY <1>1, <1>2, TypeCorrect, PTL DEF Spec

\* A sender that leads nowhere is left in module_txs only by a cancelled loop.
THEOREM DeadInboxHolds == Spec => []DeadInboxWasCancelled
<1>1. GenInv => DeadInboxWasCancelled
  BY DEF GenInv
<1>. QED
  BY <1>1, GenInvHolds, PTL

-----------------------------------------------------------------------------
(* One loop at a time: while modules are started with their patch only, the  *)
(* patch lock keeps starts and stops apart, and a stop fires every token of  *)
(* the patch before it visits the modules.                                   *)

StartPhase == {"eachStart", "readStatus", "newToken", "install"}
StopPhase  == {"eachStop", "takeInbox", "takeToken", "fireToken", "lockModule", "stopping"}

\* A loop may still run: its token has not fired, or it could be renewed.
Claim(g) == loop[g] # "none" /\ (~Fired(g) \/ tokenSlot[owner[g]] = g)

\* A module is started under the patch lock and a live patch token, and a patch
\* is stopped under the lock and a patch token that is not live.
Holding(c) ==
    /\ pc[c] \in StartPhase \cup {"eachStop"} => patchLock = c
    /\ patchLock = c => (patchToken = "live" <=> pc[c] \in StartPhase)
    /\ pc[c] \in StartPhase \ {"eachStart"} => target[c] \notin todo[c]
    /\ pc[c] = "install" => token[held[c]] = "attached"

\* Patch::start finds no claim on a module it has not started yet, Patch::stop
\* leaves none on a module it has visited.
Visiting(c) ==
    \A g \in Gens : patchLock = c /\ Claim(g) =>
        /\ pc[c] \in StartPhase => owner[g] \notin todo[c]
        /\ pc[c] \in {"readStatus", "newToken"} => owner[g] # target[c]
        /\ pc[c] = "install" /\ owner[g] = target[c] => g = held[c]
        /\ pc[c] \in StopPhase =>
              \/ owner[g] \in todo[c]
              \/ owner[g] = target[c] /\ pc[c] \in {"takeInbox", "takeToken"}

\* No token is ever cut off from a parent that may still fire.
Tokens ==
    /\ patchToken = "live" => running
    /\ \A g \in Gens :
          /\ token[g] # "detached" /\ fresh[g] # "detached"
          /\ patchToken # "live" => token[g] # "attached" /\ fresh[g] # "attached"
          /\ loop[g] = "none" <=> token[g] = "none"
          /\ loop[g] = "renewSlot" => fresh[g] # "none"

OneClaim ==
    \A g, h \in Gens : Claim(g) /\ Claim(h) /\ owner[g] = owner[h] => g = h

AtRest == ~running /\ patchLock = Free => \A g \in Gens : ~Claim(g)

\* Under a live patch token the loop that has the slot has a live token.
LiveSlots ==
    \A g \in Gens :
        Spawned(g) /\ tokenSlot[owner[g]] = g /\ patchToken = "live" =>
            ~Fired(g) /\ (loop[g] = "renewSlot" => fresh[g] = "attached")

\* A loop that runs without the slot has been cancelled.
Owns ==
    \A g \in Gens :
        Spawned(g) /\ started[g] =>
            tokenSlot[owner[g]] = g \/ Cancelled(g) \/ loop[g] = "done"

Patches == Tokens /\ OneClaim /\ AtRest /\ LiveSlots /\ Owns

RunInv == Patches /\ \A c \in Callers : Holding(c) /\ Visiting(c)

\* A call that touches neither the patch nor the tokens keeps the invariant if
\* it keeps its own part.
CallStays(c) ==
    /\ UNCHANGED <<tokenSlot, owner, loop, started, token, fresh, patchVars>>
    /\ \A d \in Callers : d # c => /\ pc'[d] = pc[d] /\ target'[d] = target[d]
                                   /\ held'[d] = held[d] /\ todo'[d] = todo[d]
    /\ pc[c] # "fireToken"
    /\ Holding(c)' /\ Visiting(c)'

LEMMA StayFrame ==
  ASSUME TypeOK, GenInv, RunInv, NEW c \in Callers, CallStays(c)
  PROVE  RunInv'
<1> USE DEF RunInv, Patches, CallStays, patchVars
<1>1. \A g \in Gens : (Claim(g) <=> Claim(g)') /\ (Cancelled(g) => Cancelled(g)')
  BY DEF Claim, Fired, Cancelled
<1>2. Tokens' /\ OneClaim' /\ AtRest'
  BY <1>1 DEF Tokens, OneClaim, AtRest
<1>3. LiveSlots' /\ Owns'
  BY <1>1 DEF LiveSlots, Owns, Spawned, Fired
<1>4. ASSUME NEW d \in Callers, d # c PROVE Holding(d)' /\ Visiting(d)'
  BY <1>1, <1>4 DEF Holding, Visiting
<1>. QED
  BY <1>2, <1>3, <1>4

\* Firing, replacing or removing the patch token makes no claim.
LEMMA LockForStartRuns ==
  ASSUME TypeOK, GenInv, RunInv, NEW c \in Callers, LockForStart(c)
  PROVE  RunInv'
<1> USE DEF RunInv, Patches
<1>1. /\ ~running /\ patchLock = Free /\ patchToken # "live"
      /\ patchLock' = c /\ running' /\ patchToken' = "live"
      /\ UNCHANGED <<tokenSlot, owner, loop, started, target, held>>
      /\ todo'[c] = Modules \ Disabled /\ pc[c] = "lockForStart" /\ pc'[c] = "eachStart"
      /\ \A d \in Callers : d # c => pc'[d] = pc[d] /\ todo'[d] = todo[d]
  BY DEF LockForStart, slotVars, Tokens, TypeOK, CallsOK
<1>2. \A g \in Gens : token'[g] = token[g] /\ fresh'[g] = fresh[g]
  BY <1>1 DEF LockForStart, DetachAttached, Tokens
<1>3. \A g \in Gens : ~Claim(g) /\ ~Claim(g)'
  BY <1>1, <1>2 DEF AtRest, Claim, Fired
<1>4. Tokens' /\ OneClaim' /\ AtRest'
  BY <1>1, <1>2, <1>3 DEF Tokens, OneClaim, AtRest
<1>5. LiveSlots'
  BY <1>1, <1>3 DEF LiveSlots, Spawned, Claim
<1>6. Owns'
  BY <1>1, <1>2 DEF Owns, Spawned, Cancelled, Fired
<1>7. Free \notin Callers
  BY LifecycleAssumption DEF Free
<1>8. ASSUME NEW d \in Callers PROVE Holding(d)' /\ Visiting(d)'
  <2>1. Visiting(d)'
    BY <1>3 DEF Visiting
  <2>2. CASE d = c
    BY <2>1, <2>2, <1>1 DEF Holding, StartPhase
  <2>3. CASE d # c
    <3>1. patchLock # d /\ patchLock' # d
      BY <2>3, <1>1, <1>7
    <3>2. pc[d] \notin StartPhase \cup {"eachStop"}
      BY <3>1 DEF Holding
    <3>. QED
      BY <2>1, <2>3, <3>1, <3>2, <1>1 DEF Holding, StartPhase
  <2>. QED
    BY <2>2, <2>3
<1>. QED
  BY <1>4, <1>5, <1>6, <1>8

LEMMA LockForStopRuns ==
  ASSUME TypeOK, GenInv, RunInv, NEW c \in Callers, LockForStop(c)
  PROVE  RunInv'
<1> USE DEF RunInv, Patches
<1>1. /\ patchLock = Free /\ patchLock' = c /\ patchToken' # "live"
      /\ UNCHANGED <<tokenSlot, owner, loop, started, target, held, running>>
      /\ todo'[c] = Modules /\ pc[c] = "lockForStop" /\ pc'[c] = "eachStop"
      /\ \A d \in Callers : d # c => pc'[d] = pc[d] /\ todo'[d] = todo[d]
  BY DEF LockForStop, slotVars, TypeOK, CallsOK, PatchOK
<1>2. \A g \in Gens :
         /\ token'[g] = IF token[g] = "attached" THEN "fired" ELSE token[g]
         /\ fresh'[g] = IF fresh[g] = "attached" THEN "fired" ELSE fresh[g]
  BY DEF LockForStop, FireAttached
<1>3. \A g \in Gens : (Claim(g)' => Claim(g)) /\ (Fired(g) => Fired(g)')
  BY <1>1, <1>2 DEF Claim, Fired
<1>4. Free \notin Callers
  BY LifecycleAssumption DEF Free
<1>5. Tokens'
  BY <1>1, <1>2 DEF Tokens
<1>6. OneClaim' /\ AtRest'
  BY <1>1, <1>3, <1>4 DEF OneClaim, AtRest
<1>7. LiveSlots' /\ Owns'
  BY <1>1, <1>3 DEF LiveSlots, Owns, Spawned, Cancelled
<1>8. ASSUME NEW d \in Callers PROVE Holding(d)' /\ Visiting(d)'
  <2>1. CASE d = c
    <3>1. \A g \in Gens : Claim(g)' => owner'[g] \in Modules
      BY <1>1 DEF Claim, TypeOK, LoopsOK
    <3>. QED
      BY <2>1, <3>1, <1>1 DEF Holding, Visiting, StartPhase
  <2>2. CASE d # c
    <3>1. patchLock # d /\ patchLock' # d
      BY <2>2, <1>1, <1>4
    <3>2. pc[d] \notin StartPhase \cup {"eachStop"}
      BY <3>1 DEF Holding
    <3>. QED
      BY <2>2, <3>1, <3>2, <1>1 DEF Holding, Visiting, StartPhase
  <2>. QED
    BY <2>1, <2>2
<1>. QED
  BY <1>5, <1>6, <1>7, <1>8

LEMMA PatchEndRuns ==
  ASSUME TypeOK, GenInv, RunInv, NEW c \in Callers, PatchStarted(c) \/ PatchStopped(c)
  PROVE  RunInv'
<1> USE DEF RunInv, Patches
<1>1. /\ UNCHANGED <<tokenSlot, owner, loop, started, target, held, todo>>
      /\ pc[c] \in {"eachStart", "eachStop"} /\ patchLock = c /\ patchLock' = Free
      /\ pc'[c] = "idle" /\ \A d \in Callers : d # c => pc'[d] = pc[d]
  BY DEF PatchStarted, PatchStopped, Holding, StartPhase, slotVars, loopVars, TypeOK, CallsOK
<1>2. Free \notin Callers
  BY LifecycleAssumption DEF Free
<1>3. /\ pc[c] = "eachStart" => patchToken = "live" /\ patchToken' = "live" /\ running'
      /\ pc[c] = "eachStop" => todo[c] = {} /\ patchToken # "live" /\ patchToken' # "live"
      /\ \A g \in Gens : token'[g] = token[g] /\ fresh'[g] = fresh[g]
  <2>1. CASE PatchStarted(c)
    BY <2>1, <1>1 DEF PatchStarted, Holding, StartPhase, Tokens, loopVars
  <2>2. CASE PatchStopped(c)
    <3>1. patchToken # "live"
      BY <2>2, <1>1 DEF PatchStopped, Holding, StartPhase
    <3>. QED
      BY <2>2, <3>1 DEF PatchStopped, DetachAttached, Tokens
  <2>. QED
    BY <2>1, <2>2
<1>4. \A g \in Gens : (Claim(g) <=> Claim(g)') /\ (Cancelled(g) => Cancelled(g)')
  BY <1>1, <1>3 DEF Claim, Cancelled, Fired
<1>5. Tokens' /\ OneClaim'
  BY <1>1, <1>3, <1>4 DEF Tokens, OneClaim
<1>6. AtRest'
  BY <1>1, <1>3, <1>4 DEF AtRest, Visiting, StopPhase
<1>7. LiveSlots' /\ Owns'
  BY <1>1, <1>3, <1>4 DEF LiveSlots, Owns, Spawned, Fired
<1>8. ASSUME NEW d \in Callers PROVE Holding(d)' /\ Visiting(d)'
  <2>1. patchLock' # d
    BY <1>1, <1>2
  <2>2. CASE d = c
    BY <2>1, <2>2, <1>1 DEF Holding, Visiting, StartPhase
  <2>3. CASE d # c
    <3>1. pc[d] \notin StartPhase \cup {"eachStop"}
      BY <2>3, <1>1 DEF Holding
    <3>. QED
      BY <2>1, <2>3, <3>1, <1>1 DEF Holding, Visiting, StartPhase
  <2>. QED
    BY <2>2, <2>3
<1>. QED
  BY <1>5, <1>6, <1>7, <1>8

\* A start makes the one claim on a module that has none ...
LEMMA NewTokenRuns ==
  ASSUME TypeOK, GenInv, RunInv, NEW c \in Callers, NewToken(c)
  PROVE  RunInv'
<1> DEFINE n == nextGen
<1> USE DEF RunInv, Patches
<1>0. n \in Gens /\ loop[n] = "none" /\ pc[c] = "newToken" /\ patchLock = c /\ patchToken = "live"
  BY DEF NewToken, TypeOK, LoopsOK, Gens, GenInv, Allocation, Holding, StartPhase
<1>1. /\ UNCHANGED <<tokenSlot, started, target, todo, fresh, patchVars>>
      /\ loop' = [loop EXCEPT ![n] = "allocated"]
      /\ owner' = [owner EXCEPT ![n] = target[c]]
      /\ token' = [token EXCEPT ![n] = "attached"]
      /\ held' = [held EXCEPT ![c] = n] /\ pc' = [pc EXCEPT ![c] = "install"]
  BY <1>0 DEF NewToken, slotVars, patchVars, ChildOf
<1> HIDE DEF n
<1>2. /\ loop'[n] = "allocated" /\ owner'[n] = target[c] /\ token'[n] = "attached"
      /\ pc'[c] = "install" /\ held'[c] = n
      /\ \A g \in Gens : g # n => loop'[g] = loop[g] /\ owner'[g] = owner[g] /\ token'[g] = token[g]
      /\ \A d \in Callers : d # c => pc'[d] = pc[d] /\ held'[d] = held[d]
  BY <1>0, <1>1 DEF TypeOK, LoopsOK, CallsOK
<1>3. \A g \in Gens : g # n => (Claim(g) <=> Claim(g)')
  BY <1>1, <1>2 DEF Claim, Fired
<1>4. Tokens'
  BY <1>0, <1>1, <1>2 DEF Tokens, patchVars
<1>5. OneClaim'
  <2> SUFFICES ASSUME NEW g \in Gens, NEW h \in Gens, Claim(g)', Claim(h)', owner'[g] = owner'[h]
               PROVE  g = h
    BY DEF OneClaim
  <2>1. \A k \in Gens : k # n /\ Claim(k)' => owner'[k] # target[c]
    BY <1>0, <1>2, <1>3 DEF Visiting
  <2>2. CASE g # n /\ h # n
    BY <2>2, <1>2, <1>3 DEF OneClaim
  <2>. QED
    BY <2>1, <2>2, <1>2
<1>6. AtRest'
  BY <1>0, <1>1, LifecycleAssumption DEF AtRest, patchVars, Free
<1>7. LiveSlots' /\ Owns'
  <2>1. \A g \in Gens : Spawned(g)' => g # n /\ Spawned(g)
    BY <1>2 DEF Spawned
  <2>2. \A g \in Gens : g # n /\ Cancelled(g) => Cancelled(g)'
    BY <1>0, <1>2 DEF Cancelled, Fired
  <2>. QED
    BY <2>1, <2>2, <1>1, <1>2 DEF LiveSlots, Owns, Fired, patchVars
<1>8. ASSUME NEW d \in Callers PROVE Holding(d)' /\ Visiting(d)'
  <2> USE DEF patchVars
  <2>1. CASE d = c
    <3>1. Holding(d)'
      BY <2>1, <1>0, <1>1, <1>2 DEF Holding, StartPhase
    <3>2. ASSUME NEW g \in Gens, Claim(g)'
          PROVE  owner'[g] \notin todo[c] /\ (owner'[g] = target[c] => g = n)
      <4>1. CASE g = n
        BY <4>1, <1>0, <1>2 DEF Holding, StartPhase
      <4>2. CASE g # n
        BY <4>2, <3>2, <1>0, <1>2, <1>3 DEF Visiting, StartPhase
      <4>. QED
        BY <4>1, <4>2
    <3>3. Visiting(d)'
      BY <2>1, <3>2, <1>1, <1>2 DEF Visiting, StopPhase
    <3>. QED
      BY <3>1, <3>3
  <2>2. CASE d # c
    <3>1. patchLock # d /\ patchLock' # d
      BY <2>2, <1>0, <1>1
    <3>2. pc[d] \notin StartPhase \cup {"eachStop"}
      BY <3>1 DEF Holding
    <3>. QED
      BY <2>2, <3>1, <3>2, <1>1, <1>2 DEF Holding, Visiting, StartPhase
  <2>. QED
    BY <2>1, <2>2
<1>. QED
  BY <1>4, <1>5, <1>6, <1>7, <1>8

\* ... and gives it the slot.
LEMMA InstallRuns ==
  ASSUME TypeOK, GenInv, RunInv, NEW c \in Callers, Install(c)
  PROVE  RunInv'
<1> USE DEF RunInv, Patches
<1>0. PICK m \in Modules, g \in Gens : m = target[c] /\ g = held[c]
  BY DEF Install, TypeOK, CallsOK, ModuleStates
<1>1. /\ UNCHANGED <<owner, started, token, fresh, patchVars, todo>>
      /\ tokenSlot' = [tokenSlot EXCEPT ![m] = g]
      /\ loop' = [loop EXCEPT ![g] = "starting"]
      /\ pc[c] = "install" /\ patchLock = c
      /\ pc' = [pc EXCEPT ![c] = "eachStart"]
      /\ \A d \in Callers : d # c => target'[d] = target[d] /\ held'[d] = held[d]
  BY <1>0 DEF Install, Return, patchVars, TypeOK, CallsOK, Holding, StartPhase
<1>2. /\ loop'[g] = "starting" /\ \A h \in Gens : h # g => loop'[h] = loop[h]
      /\ tokenSlot'[m] = g /\ \A k \in Modules : k # m => tokenSlot'[k] = tokenSlot[k]
      /\ pc'[c] = "eachStart" /\ \A d \in Callers : d # c => pc'[d] = pc[d]
  BY <1>1 DEF TypeOK, LoopsOK, SlotsOK, CallsOK
<1>3. /\ loop[g] = "allocated" /\ owner[g] = m /\ token[g] = "attached" /\ patchToken = "live"
      /\ m \notin todo[c]
  BY <1>0, <1>1 DEF GenInv, Allocation, Holding, StartPhase
<1>4. \A h \in Gens : Claim(h)' => Claim(h)
  <2> SUFFICES ASSUME NEW h \in Gens, Claim(h)' PROVE Claim(h)
    OBVIOUS
  <2>1. CASE h = g
    BY <2>1, <1>3 DEF Claim, Fired
  <2>2. CASE h # g
    <3>1. owner[h] \in Modules
      BY <2>2, <1>2 DEF Claim, TypeOK, LoopsOK
    <3>. QED
      BY <2>2, <3>1, <1>1, <1>2 DEF Claim, Fired
  <2>. QED
    BY <2>1, <2>2
<1>5. Tokens'
  BY <1>1, <1>2, <1>3 DEF Tokens, patchVars
<1>6. OneClaim' /\ AtRest'
  BY <1>1, <1>4 DEF OneClaim, AtRest, patchVars
<1>7. \A h \in Gens : h # g => (Spawned(h)' <=> Spawned(h))
  BY <1>2 DEF Spawned
<1>8. LiveSlots'
  <2> SUFFICES ASSUME NEW h \in Gens, Spawned(h)', tokenSlot'[owner[h]] = h
               PROVE  ~Fired(h)' /\ (loop'[h] = "renewSlot" => fresh[h] = "attached")
    BY <1>1 DEF LiveSlots
  <2>1. CASE h = g
    BY <2>1, <1>1, <1>2, <1>3 DEF Fired
  <2>2. CASE h # g
    <3>1. Spawned(h) /\ owner[h] \in Modules
      BY <2>2, <1>7 DEF Spawned, TypeOK, LoopsOK
    <3>. QED
      BY <2>2, <3>1, <1>1, <1>2, <1>3 DEF LiveSlots, Fired
  <2>. QED
    BY <2>1, <2>2
<1>9. \A h \in Gens : Cancelled(h) => Cancelled(h)'
  BY <1>1, <1>2 DEF Cancelled, Fired
<1>10. Owns'
  <2> SUFFICES ASSUME NEW h \in Gens, Spawned(h)', started[h], loop'[h] # "done", ~Cancelled(h)'
               PROVE  tokenSlot'[owner[h]] = h
    BY <1>1 DEF Owns
  <2>1. CASE h = g
    BY <2>1, <1>2, <1>3
  <2>2. CASE h # g
    <3>1. Spawned(h) /\ owner[h] \in Modules /\ tokenSlot[owner[h]] = h
      BY <2>2, <1>2, <1>7, <1>9 DEF Owns, Spawned, TypeOK, LoopsOK
    <3>2. Claim(h)
      BY <3>1 DEF Claim, Spawned
    <3>3. owner[h] # m
      BY <2>2, <3>2, <1>0, <1>1 DEF Visiting
    <3>. QED
      BY <3>1, <3>3, <1>2
  <2>. QED
    BY <2>1, <2>2
<1>11. ASSUME NEW d \in Callers PROVE Holding(d)' /\ Visiting(d)'
  <2> USE DEF patchVars
  <2>1. CASE d = c
    <3>1. Holding(d)'
      BY <2>1, <1>1, <1>2, <1>3 DEF Holding, StartPhase
    <3>2. Visiting(d)'
      BY <2>1, <1>1, <1>2, <1>4 DEF Visiting, StartPhase, StopPhase
    <3>. QED
      BY <3>1, <3>2
  <2>2. CASE d # c
    <3>1. patchLock # d /\ patchLock' # d
      BY <2>2, <1>1
    <3>2. pc[d] \notin StartPhase \cup {"eachStop"}
      BY <3>1 DEF Holding
    <3>. QED
      BY <2>2, <3>1, <3>2, <1>1, <1>2 DEF Holding, Visiting, StartPhase
  <2>. QED
    BY <2>1, <2>2
<1>. QED
  BY <1>5, <1>6, <1>8, <1>10, <1>11

\* Once the patch token has fired, a loop that loses its slot has no claim left.
LEMMA TakeTokenRuns ==
  ASSUME TypeOK, GenInv, RunInv, NEW c \in Callers, TakeToken(c)
  PROVE  RunInv'
<1> USE DEF RunInv, Patches
<1>0. PICK m \in Modules : m = target[c]
  BY DEF TakeToken, TypeOK, CallsOK, ModuleStates
<1>1. /\ UNCHANGED <<owner, loop, started, token, fresh, patchVars, todo, target>>
      /\ tokenSlot' = [tokenSlot EXCEPT ![m] = None]
      /\ held' = [held EXCEPT ![c] = tokenSlot[m]]
      /\ pc[c] = "takeToken"
      /\ pc' = [pc EXCEPT ![c] = IF tokenSlot[m] = None THEN "lockModule" ELSE "fireToken"]
  BY <1>0 DEF TakeToken, loopVars
<1>2. /\ tokenSlot'[m] = None /\ \A k \in Modules : k # m => tokenSlot'[k] = tokenSlot[k]
      /\ held'[c] = tokenSlot[m]
      /\ pc'[c] \in {"lockModule", "fireToken"} /\ (tokenSlot[m] # None => pc'[c] = "fireToken")
      /\ \A d \in Callers : d # c => pc'[d] = pc[d] /\ held'[d] = held[d]
  BY <1>1 DEF TypeOK, SlotsOK, CallsOK
<1>3. \A g \in Gens : loop[g] # "none" => owner[g] \in Modules
  BY DEF TypeOK, LoopsOK
<1>4. \A g \in Gens : loop[g] # "none" /\ tokenSlot'[owner[g]] = g => tokenSlot[owner[g]] = g
  BY <1>2, <1>3 DEF None, Gens
<1>5. \A g \in Gens : Claim(g)' => Claim(g)
  BY <1>1, <1>4 DEF Claim, Fired
<1>6. Tokens' /\ OneClaim' /\ AtRest'
  BY <1>1, <1>5 DEF Tokens, OneClaim, AtRest, patchVars
<1>7. LiveSlots'
  BY <1>1, <1>4 DEF LiveSlots, Spawned, Fired, patchVars
<1>8. Owns'
  <2> SUFFICES ASSUME NEW g \in Gens, Spawned(g), started[g], loop[g] # "done"
               PROVE  tokenSlot'[owner[g]] = g \/ Cancelled(g)'
    BY <1>1 DEF Owns, Spawned
  <2>1. CASE Cancelled(g)
    BY <2>1, <1>1, <1>2 DEF Cancelled, Fired
  <2>2. CASE tokenSlot[owner[g]] = g /\ owner[g] = m
    BY <2>2, <1>2 DEF Cancelled, None, Gens
  <2>3. CASE tokenSlot[owner[g]] = g /\ owner[g] # m
    BY <2>3, <1>2, <1>3 DEF Spawned
  <2>. QED
    BY <2>1, <2>2, <2>3 DEF Owns
<1>9. ASSUME NEW d \in Callers PROVE Holding(d)' /\ Visiting(d)'
  <2> USE DEF patchVars
  <2>1. CASE d = c
    <3>1. Holding(d)'
      BY <2>1, <1>1, <1>2 DEF Holding, StartPhase
    <3>2. ASSUME NEW g \in Gens, patchLock = c, Claim(g)' PROVE owner[g] \in todo[c]
      <4>1. Fired(g)
        BY <3>2, <1>1, <1>5 DEF Holding, StartPhase, Tokens, Claim, Fired, TypeOK, LoopsOK, TokenStates
      <4>2. tokenSlot'[owner[g]] = g
        BY <3>2, <4>1, <1>1 DEF Claim, Fired
      <4>3. owner[g] # m
        BY <4>2, <1>2 DEF None, Gens
      <4>. QED
        BY <3>2, <4>3, <1>0, <1>1, <1>5 DEF Visiting, StopPhase
    <3>3. Visiting(d)'
      BY <2>1, <3>2, <1>1, <1>2 DEF Visiting, StartPhase
    <3>. QED
      BY <3>1, <3>3
  <2>2. CASE d # c
    BY <2>2, <1>1, <1>2, <1>5 DEF Holding, Visiting
  <2>. QED
    BY <2>1, <2>2
<1>. QED
  BY <1>6, <1>7, <1>8, <1>9

LEMMA FireTokenRuns ==
  ASSUME TypeOK, GenInv, RunInv, NEW c \in Callers, FireToken(c)
  PROVE  RunInv'
<1> USE DEF RunInv, Patches
<1>0. PICK g \in Gens : g = held[c]
  BY DEF FireToken, TypeOK, CallsOK
<1>1. /\ UNCHANGED <<tokenSlot, owner, loop, started, fresh, patchVars, todo, target>>
      /\ pc[c] = "fireToken" /\ pc'[c] = "lockModule"
      /\ \A d \in Callers : d # c => pc'[d] = pc[d] /\ held'[d] = held[d]
      /\ token'[g] = "fired" /\ \A h \in Gens : h # g => token'[h] = token[h]
  BY <1>0 DEF FireToken, slotVars, TypeOK, LoopsOK, CallsOK
<1>2. Spawned(g) /\ tokenSlot[owner[g]] # g
  BY <1>0, <1>1 DEF GenInv, Taken
<1>3. \A h \in Gens : (Claim(h)' => Claim(h)) /\ (Cancelled(h) => Cancelled(h)')
  BY <1>0, <1>1 DEF Claim, Cancelled, Fired
<1>4. Tokens' /\ OneClaim' /\ AtRest'
  BY <1>1, <1>2, <1>3 DEF Tokens, OneClaim, AtRest, Spawned, patchVars
<1>5. LiveSlots' /\ Owns'
  BY <1>1, <1>2, <1>3 DEF LiveSlots, Owns, Spawned, Fired, patchVars
<1>6. ASSUME NEW d \in Callers PROVE Holding(d)' /\ Visiting(d)'
  <2> USE DEF patchVars
  <2>1. CASE d = c
    BY <2>1, <1>1, <1>3 DEF Holding, Visiting, StartPhase, StopPhase
  <2>2. CASE d # c
    <3>1. pc[d] = "install" => held[d] \in Gens /\ held[d] # g
      BY <1>2 DEF GenInv, Allocation, Spawned, TypeOK, CallsOK
    <3>. QED
      BY <2>2, <3>1, <1>1, <1>3 DEF Holding, Visiting
  <2>. QED
    BY <2>1, <2>2
<1>. QED
  BY <1>4, <1>5, <1>6

\* A call without the patch lock has no part in the patch.
LEMMA Outside ==
  ASSUME NEW c \in Callers, patchLock # c, UNCHANGED patchVars,
         pc'[c] \notin StartPhase \cup {"eachStop"}
  PROVE  Holding(c)' /\ Visiting(c)'
BY DEF Holding, Visiting, patchVars, StartPhase

\* A loop that makes no claim leaves the calls their part.
LEMMA LoopRuns ==
  ASSUME TypeOK, GenInv, RunInv, NEW g \in Gens,
         UNCHANGED <<owner, patchVars, callVars>>,
         Spawned(g), \A h \in Gens : h # g => token'[h] = token[h],
         \A h \in Gens : Claim(h)' => Claim(h),
         Tokens', LiveSlots', Owns'
  PROVE  RunInv'
<1> USE DEF RunInv, Patches, patchVars, callVars
<1>1. OneClaim' /\ AtRest'
  BY DEF OneClaim, AtRest
<1>2. ASSUME NEW d \in Callers PROVE Holding(d)' /\ Visiting(d)'
  <2>1. pc[d] = "install" => held[d] \in Gens /\ held[d] # g
    BY DEF GenInv, Allocation, Spawned, TypeOK, CallsOK
  <2>. QED
    BY <2>1 DEF Holding, Visiting
<1>. QED
  BY <1>1, <1>2

\* What most steps of a loop do to the tokens: nothing.
LoopStays(g) ==
    /\ UNCHANGED <<tokenSlot, owner, started, token, fresh, patchVars, callVars>>
    /\ \A h \in Gens : h # g => loop'[h] = loop[h]
    /\ Spawned(g) /\ loop[g] # "done" /\ Spawned(g)' /\ loop'[g] # "renewSlot"

LEMMA LoopStayFrame ==
  ASSUME TypeOK, GenInv, RunInv, NEW g \in Gens, LoopStays(g)
  PROVE  RunInv'
<1> USE DEF RunInv, Patches, LoopStays
<1>1. Tokens'
  BY DEF Tokens, Spawned, patchVars
<1>2. LiveSlots'
  BY DEF LiveSlots, Spawned, Fired, patchVars
<1>3. Owns'
  BY DEF Owns, Spawned, Cancelled, Fired, callVars
<1>4. \A h \in Gens : Claim(h)' => Claim(h)
  BY DEF Claim, Fired, Spawned
<1>. QED
  BY <1>1, <1>2, <1>3, <1>4, LoopRuns

LEMMA ReleaseSlotRuns ==
  ASSUME TypeOK, GenInv, RunInv, NEW g \in Gens, ReleaseSlot(g)
  PROVE  RunInv'
<1> USE DEF RunInv, Patches
<1>1. /\ UNCHANGED <<owner, token, fresh, patchVars, callVars>>
      /\ loop[g] = "failed" /\ loop'[g] = "recv" /\ ~started'[g]
      /\ \A h \in Gens : h # g => loop'[h] = loop[h] /\ started'[h] = started[h]
      /\ \A k \in Modules : tokenSlot'[k] = IF k = owner[g] /\ tokenSlot[k] = g THEN None ELSE tokenSlot[k]
  BY DEF ReleaseSlot, LoopIs, LoopTo, TypeOK, LoopsOK, SlotsOK
<1>2. \A h \in Gens : loop[h] # "none" => owner[h] \in Modules
  BY DEF TypeOK, LoopsOK
<1>3. \A h \in Gens : loop[h] # "none" /\ tokenSlot'[owner[h]] = h => tokenSlot[owner[h]] = h
  BY <1>1, <1>2 DEF None, Gens
<1>4. Tokens'
  BY <1>1 DEF Tokens, patchVars
<1>5. LiveSlots'
  <2>1. \A h \in Gens : Spawned(h)' => Spawned(h)
    BY <1>1 DEF Spawned
  <2>. QED
    BY <2>1, <1>1, <1>3 DEF LiveSlots, Spawned, Fired, patchVars
<1>6. Owns'
  <2> SUFFICES ASSUME NEW h \in Gens, Spawned(h)', started'[h]
               PROVE  tokenSlot'[owner[h]] = h \/ Cancelled(h)' \/ loop'[h] = "done"
    BY <1>1 DEF Owns
  <2>1. h # g /\ Spawned(h) /\ started[h] /\ owner[h] \in Modules
    BY <1>1, <1>2 DEF Spawned
  <2>2. Cancelled(h) => Cancelled(h)'
    BY <1>1 DEF Cancelled, Fired, callVars
  <2>. QED
    BY <2>1, <2>2, <1>1 DEF Owns
<1>7. \A h \in Gens : Claim(h)' => Claim(h)
  BY <1>1, <1>3 DEF Claim, Fired
<1>. QED
  BY <1>1, <1>4, <1>5, <1>6, <1>7, LoopRuns DEF Spawned

\* renew_module_token derives from the patch token of that moment ...
LEMMA RenewLookupRuns ==
  ASSUME TypeOK, GenInv, RunInv, NEW g \in Gens, RenewLookup(g)
  PROVE  RunInv'
<1> USE DEF RunInv, Patches
<1>1. /\ UNCHANGED <<tokenSlot, owner, started, token, patchVars, callVars>>
      /\ loop[g] = "renew" /\ \A h \in Gens : h # g => loop'[h] = loop[h] /\ fresh'[h] = fresh[h]
      /\ \/ patchToken = "none" /\ loop'[g] = "recv" /\ fresh'[g] = fresh[g]
         \/ patchToken = "fired" /\ loop'[g] = "renewSlot" /\ fresh'[g] = "fired"
         \/ patchToken = "live" /\ loop'[g] = "renewSlot" /\ fresh'[g] = "attached"
  BY DEF RenewLookup, LoopIs, LoopTo, ChildOf, slotVars, TypeOK, LoopsOK, PatchOK
<1>2. Tokens'
  BY <1>1 DEF Tokens, patchVars
<1>3. LiveSlots'
  BY <1>1 DEF LiveSlots, Spawned, Fired, patchVars
<1>4. Owns'
  BY <1>1 DEF Owns, Spawned, Cancelled, Fired, callVars
<1>5. \A h \in Gens : Claim(h)' => Claim(h)
  BY <1>1 DEF Claim, Fired
<1>. QED
  BY <1>1, <1>2, <1>3, <1>4, <1>5, LoopRuns DEF Spawned

\* ... and is installed only in a slot that is still the loop's own.
LEMMA RenewInstallRuns ==
  ASSUME TypeOK, GenInv, RunInv, NEW g \in Gens, RenewInstall(g)
  PROVE  RunInv' /\ \A h \in Gens : Fired(h) => Fired(h)'
<1> USE DEF RunInv, Patches
<1>1. /\ UNCHANGED <<tokenSlot, owner, started, patchVars, callVars>>
      /\ loop[g] = "renewSlot" /\ loop'[g] = "recv" /\ fresh'[g] = "none"
      /\ \A h \in Gens : h # g => loop'[h] = loop[h] /\ fresh'[h] = fresh[h] /\ token'[h] = token[h]
      /\ token'[g] = IF tokenSlot[owner[g]] = g THEN fresh[g] ELSE token[g]
  BY DEF RenewInstall, LoopIs, LoopTo, slotVars, TypeOK, LoopsOK
<1>2. /\ patchToken = "live" /\ tokenSlot[owner[g]] = g => fresh[g] = "attached" /\ ~Fired(g)
      /\ patchToken # "live" => fresh[g] = "fired"
  <2>1. fresh[g] \in {"attached", "fired"}
    BY <1>1 DEF Tokens, TypeOK, LoopsOK, TokenStates
  <2>. QED
    BY <2>1, <1>1 DEF Tokens, LiveSlots, Spawned
<1>3. \A h \in Gens : Fired(h) => Fired(h)'
  BY <1>1, <1>2 DEF Fired
<1>4. Tokens'
  BY <1>1 DEF Tokens, patchVars
<1>5. LiveSlots'
  BY <1>1, <1>2 DEF LiveSlots, Spawned, Fired, patchVars
<1>6. Owns'
  <2>1. \A h \in Gens : Cancelled(h) => Cancelled(h)'
    BY <1>1, <1>3 DEF Cancelled, callVars
  <2>. QED
    BY <2>1, <1>1 DEF Owns, Spawned
<1>7. \A h \in Gens : Claim(h)' => Claim(h)
  BY <1>1 DEF Claim, Fired
<1>. QED
  BY <1>1, <1>3, <1>4, <1>5, <1>6, <1>7, LoopRuns DEF Spawned

\* The patch lock and the patch token keep the loops of a module apart.
THEOREM RunInvHolds ==
  ASSUME StartedByPatch
  PROVE  Spec => []RunInv
<1>1. Init => RunInv
  <2> SUFFICES ASSUME Init PROVE RunInv
    OBVIOUS
  <2>1. \A g \in Gens : loop[g] = "none"
    BY DEF Init
  <2>2. Patches
    BY <2>1 DEF Init, Patches, Tokens, OneClaim, AtRest, Claim, LiveSlots, Owns, Spawned
  <2>3. ASSUME NEW c \in Callers PROVE Holding(c) /\ Visiting(c)
    BY <2>1, LifecycleAssumption DEF Init, Holding, Visiting, Claim, StartPhase, Free
  <2>. QED
    BY <2>2, <2>3 DEF RunInv
<1>2. TypeOK /\ GenInv /\ RunInv /\ [Next]_vars => RunInv'
  <2> SUFFICES ASSUME TypeOK, GenInv, RunInv, [Next]_vars
               PROVE  RunInv'
    OBVIOUS
  <2>0. Free \notin Callers
    BY LifecycleAssumption DEF Free
  <2>1. ASSUME NEW c \in Callers, Call(c) PROVE RunInv'
    <3> DEFINE Begins ==
          /\ UNCHANGED <<tokenSlot, owner, loop, started, token, fresh, patchVars>>
          /\ \A d \in Callers : d # c => /\ pc'[d] = pc[d] /\ target'[d] = target[d]
                                         /\ held'[d] = held[d] /\ todo'[d] = todo[d]
          /\ pc[c] = "idle"
          /\ pc'[c] \in {"lockForStart", "lockForStop", "takeInbox", "setDirect", "sendConfig", "sendInput"}
    <3>1. Begins
      <4> USE DEF slotVars, loopVars, patchVars, TypeOK, CallsOK
      <4>1. CASE CallStartPatch(c)
        BY <4>1 DEF CallStartPatch
      <4>2. CASE CallStopPatch(c)
        BY <4>2 DEF CallStopPatch
      <4>3. ASSUME NEW m \in Modules, CallStopModule(c, m) PROVE Begins
        BY <4>3 DEF CallStopModule
      <4>4. ASSUME NEW m \in Modules, NEW ch \in Channels, CallSetConfigs(c, m, ch) PROVE Begins
        BY <4>4 DEF CallSetConfigs
      <4>5. ASSUME NEW m \in Modules, CallInput(c, m) PROVE Begins
        BY <4>5 DEF CallInput
      <4>6. ASSUME NEW m \in Modules PROVE ~CallStartModule(c, m)
        BY StartedByPatch DEF CallStartModule, StartedByPatch
      <4>. QED
        BY <2>1, <4>1, <4>2, <4>3, <4>4, <4>5, <4>6 DEF Call
    <3>2. patchLock # c
      BY <3>1 DEF TypeOK, CallsOK, PatchStates, ModuleStates
    <3>3. Holding(c)' /\ Visiting(c)'
      BY <3>1, <3>2, Outside DEF StartPhase
    <3>4. CallStays(c)
      BY <3>1, <3>3 DEF CallStays
    <3>. QED
      BY <3>4, StayFrame
  <2>2. ASSUME NEW c \in Callers, PatchStep(c) PROVE RunInv'
    <3> USE DEF RunInv, Patches, TypeOK, CallsOK
    <3>1. CASE PatchAlreadyRunning(c)
      <4>1. Holding(c)' /\ Visiting(c)'
        BY <2>0, <3>1, Outside DEF PatchAlreadyRunning, StartPhase
      <4>. QED
        BY <3>1, <4>1, StayFrame DEF PatchAlreadyRunning, CallStays, slotVars, loopVars
    <3>2. CASE LockForStart(c)
      BY <3>2, LockForStartRuns
    <3>3. CASE EachStart(c)
      <4>1. Holding(c)' /\ Visiting(c)'
        BY <3>3 DEF EachStart, Holding, Visiting, StartPhase, StopPhase, Claim, Fired, slotVars, loopVars, patchVars
      <4>. QED
        BY <3>3, <4>1, StayFrame DEF EachStart, CallStays, slotVars, loopVars
    <3>4. CASE PatchStarted(c) \/ PatchStopped(c)
      BY <3>4, PatchEndRuns
    <3>5. CASE LockForStop(c)
      BY <3>5, LockForStopRuns
    <3>6. CASE EachStop(c)
      <4>1. Holding(c)' /\ Visiting(c)'
        BY <3>6 DEF EachStop, Holding, Visiting, StartPhase, StopPhase, Claim, Fired, slotVars, loopVars, patchVars
      <4>. QED
        BY <3>6, <4>1, StayFrame DEF EachStop, CallStays, slotVars, loopVars
    <3>. QED
      BY <2>2, <3>1, <3>2, <3>3, <3>4, <3>5, <3>6 DEF PatchStep
  <2>3. ASSUME NEW c \in Callers, ModuleStep(c) PROVE RunInv'
    <3> USE DEF RunInv, TypeOK, CallsOK
    <3>1. CASE NotInit(c)
      <4>1. Holding(c)' /\ Visiting(c)'
        BY <3>1 DEF NotInit, Return, Holding, Visiting, StartPhase, StopPhase, Claim, Fired, slotVars, loopVars, patchVars
      <4>. QED
        BY <3>1, <4>1, StayFrame DEF NotInit, Return, CallStays, slotVars, loopVars
    <3>2. CASE ReadInit(c)
      <4>1. Holding(c)' /\ Visiting(c)'
        BY <3>2 DEF ReadInit, Holding, Visiting, StartPhase, StopPhase, Claim, Fired, slotVars, loopVars, patchVars
      <4>. QED
        BY <3>2, <4>1, StayFrame DEF ReadInit, CallStays, slotVars, loopVars
    <3>3. CASE NewToken(c)
      BY <3>3, NewTokenRuns
    <3>4. CASE Install(c)
      BY <3>4, InstallRuns
    <3>5. CASE TakeInbox(c)
      <4>1. Holding(c)' /\ Visiting(c)'
        BY <3>5 DEF TakeInbox, Holding, Visiting, StartPhase, StopPhase, Claim, Fired, slotVars, loopVars, patchVars
      <4>. QED
        BY <3>5, <4>1, StayFrame DEF TakeInbox, CallStays, slotVars, loopVars
    <3>6. CASE TakeToken(c)
      BY <3>6, TakeTokenRuns
    <3>7. CASE FireToken(c)
      BY <3>7, FireTokenRuns
    <3>8. CASE NothingToStop(c)
      <4>1. Holding(c)' /\ Visiting(c)'
        BY <3>8 DEF NothingToStop, Return, Holding, Visiting, StartPhase, StopPhase, Claim, Fired, slotVars, loopVars, patchVars
      <4>. QED
        BY <3>8, <4>1, StayFrame DEF NothingToStop, Return, CallStays, slotVars, loopVars
    <3>9. CASE BeginStop(c)
      <4>1. Holding(c)' /\ Visiting(c)'
        BY <3>9 DEF BeginStop, Holding, Visiting, StartPhase, StopPhase, Claim, Fired, slotVars, loopVars, patchVars
      <4>. QED
        BY <3>9, <4>1, StayFrame DEF BeginStop, CallStays, slotVars, loopVars
    <3>10. CASE Stopped(c)
      <4>1. Holding(c)' /\ Visiting(c)'
        BY <3>10 DEF Stopped, Return, Holding, Visiting, StartPhase, StopPhase, Claim, Fired, slotVars, loopVars, patchVars
      <4>. QED
        BY <3>10, <4>1, StayFrame DEF Stopped, Return, CallStays, slotVars, loopVars
    <3>11. CASE StopFails(c)
      <4>1. Holding(c)' /\ Visiting(c)'
        BY <3>11 DEF StopFails, Return, Holding, Visiting, StartPhase, StopPhase, Claim, Fired, slotVars, loopVars, patchVars
      <4>. QED
        BY <3>11, <4>1, StayFrame DEF StopFails, Return, CallStays, slotVars, loopVars
    <3>. QED
      BY <2>3, <3>1, <3>2, <3>3, <3>4, <3>5, <3>6, <3>7, <3>8, <3>9, <3>10, <3>11 DEF ModuleStep
  <2>4. ASSUME NEW c \in Callers, MessageStep(c) PROVE RunInv'
    <3> USE DEF TypeOK, CallsOK
    <3>1. patchLock # c
      BY <2>4 DEF MessageStep, Send, SetDirect, PatchStates, ModuleStates
    <3>2. CASE Send(c)
      <4>1. Holding(c)' /\ Visiting(c)'
        BY <3>1, <3>2, Outside DEF Send, EndSend, StartPhase
      <4>. QED
        BY <3>2, <4>1, StayFrame DEF Send, EndSend, CallStays, slotVars
    <3>3. CASE SetDirect(c)
      <4>1. Holding(c)' /\ Visiting(c)'
        BY <3>1, <3>3, Outside DEF SetDirect, EndSend, StartPhase
      <4>. QED
        BY <3>3, <4>1, StayFrame DEF SetDirect, EndSend, CallStays, slotVars, loopVars
    <3>. QED
      BY <2>4, <3>2, <3>3 DEF MessageStep
  <2>5. ASSUME NEW g \in Gens, StartStep(g) PROVE RunInv'
    <3> USE DEF TypeOK, LoopsOK, LoopStays, LoopIs, LoopTo, slotVars, Spawned
    <3>1. CASE PollStart(g)
      BY <3>1, LoopStayFrame DEF PollStart
    <3>2. CASE StartCancelled(g)
      BY <3>2, LoopStayFrame DEF StartCancelled
    <3>3. CASE StartPending(g)
      BY <3>3, LoopStayFrame DEF StartPending
    <3>4. CASE StartExternal(g)
      BY <3>4, LoopStayFrame DEF StartExternal
    <3>5. CASE BeginStart(g)
      BY <3>5, LoopStayFrame DEF BeginStart
    <3>6. CASE StartSucceeds(g)
      BY <3>6, LoopStayFrame DEF StartSucceeds
    <3>7. CASE StartDropped(g)
      BY <3>7, LoopStayFrame DEF StartDropped
    <3>8. CASE StartFails(g)
      BY <3>8, LoopStayFrame DEF StartFails
    <3>9. CASE ReleaseSlot(g)
      BY <3>9, ReleaseSlotRuns
    <3>. QED
      BY <2>5, <3>1, <3>2, <3>3, <3>4, <3>5, <3>6, <3>7, <3>8, <3>9 DEF StartStep
  <2>6. ASSUME NEW g \in Gens, RecvStep(g) PROVE RunInv'
    <3> USE DEF TypeOK, LoopsOK, LoopStays, LoopIs, LoopTo, slotVars, Spawned
    <3>1. CASE DropInput(g)
      BY <3>1, LoopStayFrame DEF DropInput, Receiving
    <3>2. CASE RecvInput(g)
      BY <3>2, LoopStayFrame DEF RecvInput, Receiving
    <3>3. CASE RecvConfig(g)
      BY <3>3, LoopStayFrame DEF RecvConfig, Receiving
    <3>4. CASE RecvStop(g)
      BY <3>4, LoopStayFrame DEF RecvStop, Receiving
    <3>5. CASE RecvNone(g)
      BY <3>5, LoopStayFrame DEF RecvNone
    <3>. QED
      BY <2>6, <3>1, <3>2, <3>3, <3>4, <3>5 DEF RecvStep
  <2>7. ASSUME NEW g \in Gens, ProcessStep(g) PROVE RunInv'
    <3> USE DEF TypeOK, LoopsOK, LoopStays, LoopIs, LoopTo, slotVars, Spawned
    <3>1. CASE PollInput(g)
      BY <3>1, LoopStayFrame DEF PollInput
    <3>2. CASE InputSkipped(g)
      BY <3>2, LoopStayFrame DEF InputSkipped
    <3>3. CASE InputPending(g)
      BY <3>3, LoopStayFrame DEF InputPending
    <3>4. CASE BeginProcess(g)
      BY <3>4, LoopStayFrame DEF BeginProcess
    <3>5. CASE EndProcess(g)
      BY <3>5, LoopStayFrame DEF EndProcess
    <3>6. CASE ProcessDropped(g)
      BY <3>6, LoopStayFrame DEF ProcessDropped
    <3>7. CASE RenewLookup(g)
      BY <3>7, RenewLookupRuns
    <3>8. CASE RenewInstall(g)
      BY <3>8, RenewInstallRuns
    <3>. QED
      BY <2>7, <3>1, <3>2, <3>3, <3>4, <3>5, <3>6, <3>7, <3>8 DEF ProcessStep
  <2>8. CASE UNCHANGED vars
    <3> USE <2>8 DEF vars, slotVars, loopVars, patchVars, callVars, RunInv, Patches
    <3>1. Tokens' /\ OneClaim' /\ AtRest'
      BY DEF Tokens, OneClaim, AtRest, Claim, Fired
    <3>2. LiveSlots' /\ Owns'
      BY DEF LiveSlots, Owns, Spawned, Fired, Cancelled
    <3>3. ASSUME NEW c \in Callers PROVE Holding(c)' /\ Visiting(c)'
      BY DEF Holding, Visiting, Claim, Fired
    <3>. QED
      BY <3>1, <3>2, <3>3
  <2>. QED
    BY <2>1, <2>2, <2>3, <2>4, <2>5, <2>6, <2>7, <2>8 DEF Next, CallStep, LoopStep
<1>. QED
  BY <1>1, <1>2, TypeCorrect, GenInvHolds, PTL DEF Spec

\* While modules are started with their patch, no module has two loops that have
\* not been cancelled.
THEOREM OneLiveLoopHolds ==
  ASSUME StartedByPatch
  PROVE  Spec => []OneLiveLoop
<1>1. RunInv => OneLiveLoop
  BY DEF RunInv, Patches, OneClaim, Claim, OneLiveLoop, Live
<1>. QED
  BY <1>1, RunInvHolds, PTL

\* While modules are started with their patch, a loop processes only what it owns
\* the slot for, or a stop has yet to cancel, and a fired token stays fired.
THEOREM OwnerProcessesHolds ==
  ASSUME StartedByPatch
  PROVE  Spec => OwnerProcesses
<1> DEFINE Owning(g) ==
      /\ loop[g] = "input" /\ loop'[g] = "polledInput" => tokenSlot[owner[g]] = g \/ Cancelled(g)
      /\ Fired(g) => Fired(g)'
<1>1. TypeOK /\ GenInv /\ RunInv /\ [Next]_vars => [\A g \in Gens : Owning(g)]_vars
  <2> SUFFICES ASSUME TypeOK, GenInv, RunInv, Next
               PROVE  \A g \in Gens : Owning(g)
    OBVIOUS
  <2>1. ASSUME NEW g \in Gens, loop[g] = "input", loop'[g] = "polledInput"
        PROVE  tokenSlot[owner[g]] = g \/ Cancelled(g)
    <3>1. started[g]
      BY <2>1 DEF GenInv, Unstarted
    <3>. QED
      BY <2>1, <3>1 DEF RunInv, Patches, Owns, Spawned
  <2> USE DEF Fired, TypeOK, LoopsOK
  <2>2. ASSUME NEW c \in Callers, Call(c) PROVE UNCHANGED token
    BY <2>2 DEF Call, CallStartPatch, CallStopPatch, CallStartModule, CallStopModule,
       CallSetConfigs, CallInput, loopVars
  <2>3. ASSUME NEW c \in Callers, PatchStep(c) PROVE \A g \in Gens : Fired(g) => Fired(g)'
    BY <2>3 DEF PatchStep, PatchAlreadyRunning, LockForStart, EachStart, PatchStarted,
       LockForStop, EachStop, PatchStopped, FireAttached, DetachAttached, loopVars
  <2>4. ASSUME NEW c \in Callers, ModuleStep(c) PROVE \A g \in Gens : Fired(g) => Fired(g)'
    <3>1. CASE NewToken(c)
      <4>1. \A g \in Gens : g # nextGen => token'[g] = token[g]
        BY <3>1 DEF NewToken
      <4>2. nextGen \in Gens => loop[nextGen] = "none"
        BY DEF GenInv, Allocation, Gens
      <4>3. \A g \in Gens : Fired(g) => g # nextGen
        BY <4>2 DEF RunInv, Patches, Tokens
      <4>. QED
        BY <4>1, <4>3
    <3>2. CASE FireToken(c)
      BY <3>2 DEF FireToken
    <3>3. CASE ~NewToken(c) /\ ~FireToken(c)
      BY <2>4, <3>3 DEF ModuleStep, NotInit, ReadInit, Install, TakeInbox, TakeToken,
         NothingToStop, BeginStop, Stopped, StopFails, loopVars
    <3>. QED
      BY <3>1, <3>2, <3>3
  <2>5. ASSUME NEW c \in Callers, MessageStep(c) PROVE UNCHANGED token
    BY <2>5 DEF MessageStep, Send, SetDirect, loopVars
  <2>6. ASSUME NEW g \in Gens, StartStep(g) PROVE UNCHANGED token
    BY <2>6 DEF StartStep, PollStart, StartCancelled, StartPending, StartExternal, BeginStart,
       StartSucceeds, StartDropped, StartFails, ReleaseSlot
  <2>7. ASSUME NEW g \in Gens, RecvStep(g) PROVE UNCHANGED token
    BY <2>7 DEF RecvStep, DropInput, RecvInput, RecvConfig, RecvStop, RecvNone
  <2>8. ASSUME NEW g \in Gens, ProcessStep(g) PROVE \A h \in Gens : Fired(h) => Fired(h)'
    <3>1. CASE RenewInstall(g)
      BY <3>1, RenewInstallRuns
    <3>2. CASE ~RenewInstall(g)
      BY <2>8, <3>2 DEF ProcessStep, PollInput, InputSkipped, InputPending, BeginProcess,
         EndProcess, ProcessDropped, RenewLookup
    <3>. QED
      BY <3>1, <3>2
  <2>. QED
    BY <2>1, <2>2, <2>3, <2>4, <2>5, <2>6, <2>7, <2>8 DEF Next, CallStep, LoopStep
<1>. QED
  BY <1>1, TypeCorrect, GenInvHolds, RunInvHolds, PTL DEF Spec, OwnerProcesses
=============================================================================
