------------------------- MODULE PluginHost_proofs -------------------------
(***************************************************************************)
(* Proofs about PluginHost: for any set of plugins, tools and dependencies *)
(* (cycles among them as well), any failing inits, and any number of       *)
(* reloads.                                                                *)
(***************************************************************************)
EXTENDS PluginHost, SequenceTheorems, TLAPS

\* A reload is begun only within the bound, and gathers once.
TypeInv ==
    /\ TypeOK
    /\ again /\ hpc \notin {"idle", "load"} => gen < MaxLoads

\* g_plugins holds each plugin that is mapped once, after those it depends on,
\* and a load counts exactly these as loaded.
OrderInv ==
    /\ mapped = {order[i] : i \in 1 .. Len(order)}
    /\ \A i, j \in 1 .. Len(order) : order[i] = order[j] => i = j
    /\ DepsUp
    /\ hpc \in {"idle", "load"} =>
           \A p \in Plugins : cand[p] = "loaded" <=> p \in mapped
    /\ hpc = "close" => order # <<>>

\* Each table is empty of plugins from the step of the unload that clears it
\* on; what is withdrawn last is the plugin that goes next.
AfterModes == {"deactivate", "waitoff", "unsubscribe", "waitcb", "gain",
               "effects", "withdraw", "close"}
AfterCallback == {"gain", "effects", "withdraw", "close"}
Live(r) == r = NoRef \/ Valid(r)
Last == Instance(order[Len(order)])

TableInv ==
    /\ \A r \in modes \union chain \union services : Valid(r)
    /\ Live(effect) /\ Live(frame) /\ \A t \in Tools : Live(tools[t])
    /\ hpc \in AfterModes => modes = {}
    /\ hpc \in {"withdraw", "close"} => effect = NoRef /\ services = {}
    /\ hpc = "close" => /\ Last \notin chain /\ frame # Last
                        /\ \A t \in Tools : tools[t] # Last

\* The same of the hearing, the gain policy and the calls under way, unless
\* an unload and bot_set_mode have overlapped.
CallInv ==
    /\ tool # NoRef => hearing # NoRef
    /\ ~late =>
           /\ Live(utter) /\ Live(gain) /\ Live(hearing) /\ Live(tool)
           /\ wpc # "idle" => hpc = "idle" /\ Live(on)
           /\ hpc \in {"waitcb"} \union AfterCallback => utter = NoRef
           /\ hpc \in AfterCallback => hearing = NoRef
           /\ hpc \in {"effects", "withdraw", "close"} => gain = NoRef

\* Outside an unload the hearing belongs to the registered plugin whose mode
\* is selected, and to none while bot_set_mode hands it over.
ModeInv ==
    ~late /\ hpc \in {"idle", "load"} =>
        /\ wpc = "idle" /\ utter # NoRef => utter \in modes /\ utter.plg = mode
        /\ wpc \in {"waitoff", "on"} => utter = NoRef
        /\ wpc # "idle" /\ on # NoRef => on \in modes /\ on.plg = mode

\* A plugin is skipped for a reason that stays as long as the load lasts.
Excused(p) == Missing(p) \/ Len(order) >= PlgMax \/ p \in broken
LoadInv ==
    /\ \A S \in SUBSET mapped : Closed(S, mapped) => S = mapped
    /\ hpc = "load" =>
           \A p \in Plugins : cand[p] = "skipped" => Excused(p)
    /\ LoadsAllItCan

LEMMA InitTypeInv == Init => TypeInv
<1> SUFFICES ASSUME Init PROVE TypeInv
  OBVIOUS
<1>1. 0 \in 0 .. MaxLoads /\ 0 \in 0 .. QueueMax /\ <<>> \in Seq(Plugins)
  BY BoundsAssumption
<1>2. NoRef \in RefOrNone /\ Bots \subseteq Plugins
  BY PluginsAssumption DEF RefOrNone
<1> QED BY <1>1, <1>2 DEF Init, TypeInv, TypeOK, HostPcs, ClickPcs, Threads

\* What a mode has registered is in the table of modes.
LEMMA RegisteredMode ==
    ASSUME modes \subseteq Ref, NEW m
    PROVE  /\ Registered(m) # NoRef => /\ Registered(m) \in modes
                                       /\ Registered(m).plg = m
           /\ Registered(m) \in RefOrNone
           /\ \A r \in modes : r.plg = m => Registered(m) # NoRef
<1>1. NoRef \notin Ref
  BY PluginsAssumption DEF NoRef, Ref
<1>2. CASE \E r \in modes : r.plg = m
  <2> DEFINE r == CHOOSE r \in modes : r.plg = m
  <2>1. r \in modes /\ r.plg = m /\ Registered(m) = r
    BY <1>2 DEF Registered
  <2> QED BY <1>1, <2>1 DEF RefOrNone
<1>3. CASE ~\E r \in modes : r.plg = m
  BY <1>3 DEF Registered, RefOrNone
<1> QED BY <1>2, <1>3

\* A plugin's current instance is a reference, and no plugin is none.
LEMMA InstanceRef ==
    ASSUME TypeOK, NEW p \in Plugins
    PROVE  Instance(p) \in Ref /\ Instance(p) # NoRef
  BY PluginsAssumption, BoundsAssumption
  DEF TypeOK, Instance, Ref, NoRef

\* Every step keeps the types.
LEMMA StepTypeInv == TypeInv /\ [Next]_vars => TypeInv'
<1> SUFFICES ASSUME TypeInv, [Next]_vars PROVE TypeInv'
  OBVIOUS
<1>0. NoRef \in RefOrNone /\ \A r \in Ref : r \in RefOrNone
  BY DEF RefOrNone
<1> USE <1>0
    DEF TypeInv, TypeOK, HostPcs, ClickPcs, rigid, job, set, loader, botmode,
        calls, ear, mediafx, others, click
<1>1. ASSUME NEW t \in Threads, NEW reload \in BOOLEAN, Start(t, reload)
      PROVE  TypeInv'
  BY <1>1 DEF Start, Threads
<1>2. ASSUME ClearModes PROVE TypeInv'
  BY <1>2, RegisteredMode DEF ClearModes
<1>3. ASSUME Deactivate PROVE TypeInv'
  BY <1>3 DEF Deactivate
<1>4. ASSUME WaitOff PROVE TypeInv'
  BY <1>4 DEF WaitOff, WorkerOut
<1>5. ASSUME Unsubscribe PROVE TypeInv'
  BY <1>5 DEF Unsubscribe
<1>6. ASSUME WaitCallback PROVE TypeInv'
  BY <1>6 DEF WaitCallback, WorkerOut
<1>7. ASSUME ClearGain PROVE TypeInv'
  BY <1>7 DEF ClearGain
<1>8. ASSUME ClearEffects PROVE TypeInv'
  BY <1>8 DEF ClearEffects, FxLockFree
<1>9. ASSUME Withdraw PROVE TypeInv'
  BY <1>9 DEF Withdraw, FxLockFree, ToolsWithout
<1>10. ASSUME Close PROVE TypeInv'
  BY <1>10 DEF Close
<1>11. ASSUME UnloadEnds PROVE TypeInv'
  BY <1>11 DEF UnloadEnds
<1>12. ASSUME NEW present \in SUBSET Plugins, Gather(present) PROVE TypeInv'
  BY <1>12, BoundsAssumption DEF Gather
<1>13. ASSUME NEW p \in Plugins, Skip(p) PROVE TypeInv'
  BY <1>13 DEF Skip, Missing, Ready
<1>14. ASSUME NEW p \in Plugins, InitPlugin(p) PROVE TypeInv'
  <2>1. Instance(p) \in Ref
    BY InstanceRef
  <2>2. /\ order' \in Seq(Plugins) /\ mapped' \subseteq Plugins
        /\ cand' \in [Plugins -> {"absent", "pending", "loaded", "skipped"}]
    BY <1>14 DEF InitPlugin
  <2>3. tools' \in [Tools -> RefOrNone]
    BY <1>14, <2>1 DEF InitPlugin
  <2>4. /\ modes' \subseteq Ref /\ chain' \subseteq Ref /\ services' \subseteq Ref
        /\ utter' \in RefOrNone /\ gain' \in RefOrNone /\ effect' \in RefOrNone
    BY <1>14, <2>1 DEF InitPlugin
  <2> QED BY <1>14, <2>2, <2>3, <2>4 DEF InitPlugin
<1>15. ASSUME Loaded PROVE TypeInv'
  BY <1>15 DEF Loaded, Settled, Missing, Ready
<1>16. ASSUME NEW m \in Bots \union {Audio}, SetMode(m) PROVE TypeInv'
  BY <1>16, RegisteredMode, PluginsAssumption DEF SetMode, Left
<1>17. ASSUME ModeOff PROVE TypeInv'
  BY <1>17 DEF ModeOff
<1>18. ASSUME ModeWaitOff PROVE TypeInv'
  BY <1>18 DEF ModeWaitOff, WorkerOut
<1>19. ASSUME ModeOn PROVE TypeInv'
  BY <1>19 DEF ModeOn
<1>20. ASSUME Utterance PROVE TypeInv'
  BY <1>20, BoundsAssumption DEF Utterance
<1>21. ASSUME Hear PROVE TypeInv'
  BY <1>21, BoundsAssumption DEF Hear
<1>22. ASSUME HearReturn PROVE TypeInv'
  BY <1>22 DEF HearReturn, InCbAfterReturn
<1>23. ASSUME NEW t \in Tools, Invoke(t) PROVE TypeInv'
  BY <1>23 DEF Invoke
<1>24. ASSUME InvokeReturn PROVE TypeInv'
  BY <1>24 DEF InvokeReturn
<1>25. ASSUME ReadPolicy PROVE TypeInv'
  BY <1>25 DEF ReadPolicy
<1>26. ASSUME PolicyReturn PROVE TypeInv'
  BY <1>26 DEF PolicyReturn
<1>27. ASSUME NEW r \in chain \union {effect}, Frame(r) PROVE TypeInv'
  BY <1>27 DEF Frame, FxLockFree
<1>28. ASSUME FrameDone PROVE TypeInv'
  BY <1>28 DEF FrameDone
<1>29. CASE UNCHANGED vars
  BY <1>29 DEF vars
<1> QED BY <1>1, <1>2, <1>3, <1>4, <1>5, <1>6, <1>7, <1>8, <1>9, <1>10, <1>11,
    <1>12, <1>13, <1>14, <1>15, <1>16, <1>17, <1>18, <1>19, <1>20, <1>21,
    <1>22, <1>23, <1>24, <1>25, <1>26, <1>27, <1>28, <1>29 DEF Next, Unload,
    Load, Web, Worker, Media

\* Type correctness of the plugin host.
THEOREM TypeCorrect == Spec => []TypeOK
<1>1. Init => TypeInv
  BY InitTypeInv
<1>2. TypeInv /\ [Next]_vars => TypeInv'
  BY StepTypeInv
<1>3. TypeInv => TypeOK
  BY DEF TypeInv
<1> QED BY <1>1, <1>2, <1>3, PTL DEF Spec

-----------------------------------------------------------------------------
LEMMA InitOrderInv == Init => OrderInv
  BY DEF Init, OrderInv, DepsUp

\* Every step keeps g_plugins in the order of the dependencies.
LEMMA StepOrderInv == TypeInv /\ OrderInv /\ [Next]_vars => OrderInv'
<1> SUFFICES ASSUME TypeInv, OrderInv, [Next]_vars PROVE OrderInv'
  OBVIOUS
<1>0. order \in Seq(Plugins) /\ Len(order) \in Nat
  BY DEF TypeInv, TypeOK
<1>1. ASSUME Withdraw PROVE OrderInv'
  BY <1>1, <1>0 DEF Withdraw, ToolsWithout, OrderInv, DepsUp, TypeInv, TypeOK,
      rigid, job, set
\* The last plugin goes: nothing that stays depends on it.
<1>2. ASSUME Close PROVE OrderInv'
  <2> DEFINE n == Len(order)
  <2>1. n \in Nat \ {0}
    BY <1>2, <1>0 DEF Close, OrderInv
  <2>2. /\ order' \in Seq(Plugins) /\ Len(order') = n - 1
        /\ \A i \in 1 .. n - 1 : order'[i] = order[i]
    <3>1. order' = SubSeq(order, 1, n - 1) /\ 1 \in Int /\ n - 1 \in Int
      BY <1>2, <2>1 DEF Close
    <3>2. \A i \in 1 .. n - 1 : order[i] \in Plugins
      BY <1>0, <2>1
    <3>3. order' \in Seq(Plugins)
      BY <3>1, <3>2, SubSeqProperties
    <3>4. Len(order') = n - 1
      <4>1. Len(order') = IF 1 <= n - 1 THEN n - 1 - 1 + 1 ELSE 0
        BY <3>1, <3>2, SubSeqProperties
      <4>2. CASE n = 1
        BY <4>1, <4>2
      <4>3. CASE n # 1
        <5>1. 1 <= n - 1 /\ n - 1 - 1 + 1 = n - 1
          BY <2>1, <4>3
        <5> QED BY <4>1, <5>1
      <4> QED BY <4>2, <4>3
    <3>5. ASSUME NEW i \in 1 .. n - 1 PROVE order'[i] = order[i]
      <4>1. i \in 1 .. n - 1 - 1 + 1 /\ 1 + i - 1 = i
        BY <2>1
      <4>2. \A k \in 1 .. n - 1 - 1 + 1 : order'[k] = order[1 + k - 1]
        BY <3>1, <3>2, SubSeqProperties
      <4> QED BY <4>1, <4>2
    <3> QED BY <3>3, <3>4, <3>5
  <2>3. mapped' = {order'[i] : i \in 1 .. Len(order')}
    BY <1>2, <1>0, <2>1, <2>2 DEF Close, OrderInv
  <2>4. DepsUp'
    <3> SUFFICES ASSUME NEW i \in 1 .. n - 1, NEW d \in deps[order[i]]
                 PROVE  \E j \in 1 .. i - 1 : order'[j] = d
      BY <1>2, <2>1, <2>2 DEF Close, DepsUp, rigid
    <3>1. PICK j \in 1 .. i - 1 : order[j] = d
      BY <2>1 DEF OrderInv, DepsUp
    <3> QED BY <2>1, <2>2, <3>1
  <2>5. \A i, j \in 1 .. Len(order') : order'[i] = order'[j] => i = j
    BY <2>1, <2>2 DEF OrderInv
  <2> QED BY <1>2, <2>3, <2>4, <2>5 DEF Close, OrderInv
<1>3. ASSUME UnloadEnds PROVE OrderInv'
  BY <1>3, <1>0 DEF UnloadEnds, OrderInv, DepsUp, TypeInv, TypeOK, rigid, job,
      set
<1>4. ASSUME NEW present \in SUBSET Plugins, Gather(present) PROVE OrderInv'
  BY <1>4, <1>0 DEF Gather, OrderInv, DepsUp, TypeInv, TypeOK, rigid, job, set
<1>5. ASSUME NEW p \in Plugins, Skip(p) PROVE OrderInv'
  BY <1>5, <1>0 DEF Skip, Missing, Ready, OrderInv, DepsUp, TypeInv, TypeOK,
      rigid, job, set
\* What the new plugin depends on is loaded, so it is before it.
<1>6. ASSUME NEW p \in Plugins, InitPlugin(p) PROVE OrderInv'
  <2> DEFINE n == Len(order)
  <2>1. /\ order' \in Seq(Plugins) /\ Len(order') = n + 1 /\ order'[n + 1] = p
        /\ \A i \in 1 .. n : order'[i] = order[i]
    BY <1>6, <1>0 DEF InitPlugin
  <2>2. p \notin mapped /\ deps[p] \subseteq mapped
    <3>1. deps[p] \subseteq Plugins
      BY PluginsAssumption DEF TypeInv, TypeOK
    <3> QED BY <1>6, <3>1 DEF InitPlugin, Ready, OrderInv
  <2>3. mapped' = {order'[i] : i \in 1 .. Len(order')}
    BY <1>6, <1>0, <2>1 DEF InitPlugin, OrderInv
  <2>4. \A i, j \in 1 .. Len(order') : order'[i] = order'[j] => i = j
    BY <1>0, <2>1, <2>2 DEF OrderInv
  <2>5. DepsUp'
    <3>1. deps' = deps
      BY <1>6 DEF InitPlugin, rigid
    <3> SUFFICES ASSUME NEW i \in 1 .. n + 1, NEW d \in deps[order'[i]]
                 PROVE  \E j \in 1 .. i - 1 : order'[j] = d
      BY <2>1, <3>1 DEF DepsUp
    <3>2. CASE i \in 1 .. n
      <4>1. PICK j \in 1 .. i - 1 : order[j] = d
        BY <1>0, <2>1, <3>2 DEF OrderInv, DepsUp
      <4> QED BY <1>0, <2>1, <3>2, <4>1
    <3>3. CASE i = n + 1
      BY <1>0, <2>1, <2>2, <3>3 DEF OrderInv
    <3> QED BY <1>0, <3>2, <3>3
  <2>6. \A q \in Plugins : cand'[q] = "loaded" <=> q \in mapped'
    BY <1>6 DEF InitPlugin, OrderInv, TypeInv, TypeOK
  <2>7. hpc' = "load"
    BY <1>6 DEF InitPlugin, job
  <2> QED BY <2>3, <2>4, <2>5, <2>6, <2>7 DEF OrderInv
<1>7. ASSUME Loaded PROVE OrderInv'
  BY <1>7, <1>0 DEF Loaded, Settled, Missing, Ready, OrderInv, DepsUp, TypeInv,
      TypeOK, rigid, job, set
<1>8. ASSUME \/ \E t \in Threads, reload \in BOOLEAN : Start(t, reload)
             \/ ClearModes \/ Deactivate \/ WaitOff \/ Unsubscribe
             \/ WaitCallback \/ ClearGain \/ ClearEffects
             \/ \E m \in Bots \union {Audio} : SetMode(m)
             \/ ModeOff \/ ModeWaitOff \/ ModeOn \/ Utterance \/ Hear
             \/ HearReturn
             \/ \E t \in Tools : Invoke(t)
             \/ InvokeReturn \/ ReadPolicy \/ PolicyReturn
             \/ \E r \in chain \union {effect} : Frame(r)
             \/ FrameDone \/ UNCHANGED vars
      PROVE  OrderInv'
  <2>1. /\ UNCHANGED <<deps, cand, order, mapped>>
        /\ hpc' = hpc \/ hpc' \notin {"idle", "load", "close"}
    BY <1>8 DEF Start, ClearModes, Deactivate, WaitOff, Unsubscribe,
        WaitCallback, ClearGain, ClearEffects, SetMode, ModeOff, ModeWaitOff,
        ModeOn, Utterance, Hear, HearReturn, Invoke, InvokeReturn, ReadPolicy,
        PolicyReturn, Frame, FrameDone, rigid, job, set, loader, botmode,
        calls, ear, mediafx, others, click, vars
  <2> QED BY <2>1 DEF OrderInv, DepsUp
<1> QED BY <1>1, <1>2, <1>3, <1>4, <1>5, <1>6, <1>7, <1>8 DEF Next, Unload,
    Load, Web, Worker, Media

\* Plugins are brought up and down in the order of their dependencies: for any
\* graph of them, while a plugin is up, so is everything it depends on.
THEOREM DependenciesUp == Spec => []DepsUp
<1>1. Init => TypeInv /\ OrderInv
  BY InitTypeInv, InitOrderInv
<1>2. TypeInv /\ OrderInv /\ [Next]_vars => (TypeInv /\ OrderInv)'
  BY StepTypeInv, StepOrderInv
<1>3. OrderInv => DepsUp
  BY DEF OrderInv
<1> QED BY <1>1, <1>2, <1>3, PTL DEF Spec

-----------------------------------------------------------------------------
\* No reference is valid before a plugin is mapped, and none is no reference.
LEMMA NoRefInvalid ==
    ASSUME TypeOK
    PROVE  ~Valid(NoRef) /\ NoRef \notin Ref
  BY PluginsAssumption DEF TypeOK, Valid, NoRef, Ref

LEMMA InitTableInv == Init => TableInv
  BY DEF Init, TableInv, Live, AfterModes

\* Every step keeps the tables live.
LEMMA StepTableInv ==
    TypeInv /\ OrderInv /\ TableInv /\ [Next]_vars => TableInv'
<1> SUFFICES ASSUME TypeInv, OrderInv, TableInv, [Next]_vars PROVE TableInv'
  OBVIOUS
<1>0. TypeOK /\ ~Valid(NoRef)
  BY NoRefInvalid DEF TypeInv
<1> USE DEF TableInv, Live, AfterModes
<1>1. ASSUME NEW t \in Threads, NEW reload \in BOOLEAN, Start(t, reload)
      PROVE  TableInv'
  BY <1>1, <1>0 DEF Start, Valid, rigid, job, set, loader, botmode, calls, ear,
      mediafx, others, click
<1>2. ASSUME ClearModes PROVE TableInv'
  BY <1>2, <1>0 DEF ClearModes, Valid, rigid, job, set, loader, botmode, calls,
      ear, mediafx, others, click
<1>3. ASSUME Deactivate PROVE TableInv'
  BY <1>3, <1>0 DEF Deactivate, Valid, rigid, job, set, loader, botmode, calls,
      ear, mediafx, others, click
<1>4. ASSUME WaitOff PROVE TableInv'
  BY <1>4, <1>0 DEF WaitOff, WorkerOut, Valid, rigid, job, set, loader, botmode,
      calls, ear, mediafx, others, click
<1>5. ASSUME Unsubscribe PROVE TableInv'
  BY <1>5, <1>0 DEF Unsubscribe, Valid, rigid, job, set, loader, botmode, calls,
      ear, mediafx, others, click
<1>6. ASSUME WaitCallback PROVE TableInv'
  BY <1>6, <1>0 DEF WaitCallback, WorkerOut, Valid, rigid, job, set, loader,
      botmode, calls, ear, mediafx, others, click
<1>7. ASSUME ClearGain PROVE TableInv'
  BY <1>7, <1>0 DEF ClearGain, Valid, rigid, job, set, loader, botmode, calls,
      ear, mediafx, others, click
<1>8. ASSUME ClearEffects PROVE TableInv'
  BY <1>8, <1>0 DEF ClearEffects, FxLockFree, Valid, rigid, job, set, loader,
      botmode, calls, ear, mediafx, others, click
\* What the last plugin has registered goes first ...
<1>9. ASSUME Withdraw PROVE TableInv'
  <2>1. UNCHANGED <<gen, mapped, order, modes, services, effect, frame>>
    BY <1>9 DEF Withdraw, set, botmode, others
  <2>2. /\ hpc' = "close" /\ effect = NoRef /\ services = {} /\ modes = {}
        /\ frame = NoRef /\ chain' = chain \ {Last}
        /\ \A t \in Tools : tools'[t] = IF tools[t] = Last THEN NoRef ELSE tools[t]
    BY <1>9 DEF Withdraw, Last, ToolsWithout, FxLockFree
  <2>3. NoRef # Last
    <3>1. order \in Seq(Plugins) /\ order # <<>>
      BY <1>9, <1>0 DEF Withdraw, TypeOK
    <3>2. order[Len(order)] \in Plugins
      BY <3>1
    <3> QED BY <1>0, <3>2, InstanceRef DEF Last
  <2>4. Last' = Last /\ \A r : Valid(r)' <=> Valid(r)
    BY <2>1 DEF Last, Instance, Valid
  <2> QED BY <2>1, <2>2, <2>3, <2>4
\* ... so that nothing refers to it when its code goes.
<1>10. ASSUME Close PROVE TableInv'
  <2>1. UNCHANGED <<gen, modes, services, effect, frame, chain, tools>>
    BY <1>10 DEF Close, botmode, mediafx, others
  <2>2. hpc = "close" /\ hpc' = "withdraw"
    BY <1>10 DEF Close
  <2>3. \A r : Valid(r) /\ r # Last /\ r \in Ref => Valid(r)'
    <3> SUFFICES ASSUME NEW r \in Ref, Valid(r), r # Last PROVE Valid(r)'
      OBVIOUS
    <3>1. r.plg # order[Len(order)]
      BY DEF Valid, Last, Instance, Ref
    <3> QED BY <1>10, <2>1, <3>1 DEF Close, Valid
  <2>4. \A r \in RefOrNone : Live(r) /\ r # Last => Live(r)'
    BY <2>3 DEF RefOrNone
  <2> QED BY <1>0, <2>1, <2>2, <2>3, <2>4 DEF TypeOK
<1>11. ASSUME UnloadEnds PROVE TableInv'
  BY <1>11, <1>0 DEF UnloadEnds, Valid, rigid, job, set, loader, botmode, calls,
      ear, mediafx, others, click
\* Nothing is mapped, so nothing is registered.
<1>12. ASSUME NEW present \in SUBSET Plugins, Gather(present) PROVE TableInv'
  <2>1. mapped = {}
    BY <1>12 DEF Gather, OrderInv
  <2>2. /\ \A r \in modes \union chain \union services : FALSE
        /\ effect = NoRef /\ frame = NoRef /\ \A t \in Tools : tools[t] = NoRef
    BY <2>1 DEF Valid
  <2>3. UNCHANGED <<modes, chain, services, effect, frame, tools>> /\ hpc' = "load"
    BY <1>12 DEF Gather, botmode, mediafx, others
  <2> QED BY <2>2, <2>3
<1>13. ASSUME NEW p \in Plugins, InitPlugin(p) PROVE TableInv'
  <2>1. /\ gen' = gen /\ mapped' = mapped \union {p} /\ hpc' = "load"
        /\ frame' = frame
    BY <1>13 DEF InitPlugin, job, others
  <2>2. Valid(Instance(p))' /\ Instance(p) # NoRef
        /\ \A r : Valid(r) => Valid(r)'
    BY <2>1, <1>0, InstanceRef DEF Valid, Instance
  <2>3. /\ modes' \subseteq modes \union {Instance(p)}
        /\ chain' \subseteq chain \union {Instance(p)}
        /\ services' = services \union {Instance(p)}
        /\ effect' \in {effect, Instance(p)}
    BY <1>13 DEF InitPlugin
  <2>4. \A t \in Tools : tools'[t] \in {tools[t], Instance(p)}
    BY <1>13, <1>0 DEF InitPlugin, TypeOK
  <2>5. UNCHANGED gen
    BY <2>1
  <2>6. \A r \in (modes \union chain \union services)' : Valid(r)'
    BY <2>2, <2>3, <2>5 DEF Instance
  <2>7. Live(effect)' /\ Live(frame)' /\ \A t \in Tools : Live(tools[t])'
    BY <2>1, <2>2, <2>3, <2>4, <2>5 DEF Instance
  <2> QED BY <2>1, <2>6, <2>7
<1>14. ASSUME Loaded PROVE TableInv'
  BY <1>14, <1>0 DEF Loaded, Settled, Missing, Ready, Valid, rigid, job, set,
      loader, botmode, calls, ear, mediafx, others, click
\* A media thread takes what is in a table.
<1>15. ASSUME NEW r \in chain \union {effect}, Frame(r) PROVE TableInv'
  <2>1. UNCHANGED <<gen, mapped, order, modes, chain, services, effect, tools,
                    hpc>>
    BY <1>15 DEF Frame, loader, set, botmode, mediafx
  <2>2. frame' = r /\ (r = effect \/ r \in chain) /\ r # NoRef
    BY <1>15 DEF Frame
  <2> QED BY <2>1, <2>2 DEF Valid, Last, Instance
<1>16. ASSUME FrameDone PROVE TableInv'
  <2>1. UNCHANGED <<gen, mapped, order, modes, chain, services, effect, tools,
                    hpc>> /\ frame' = NoRef
    BY <1>16 DEF FrameDone, loader, set, botmode, mediafx
  <2>2. hpc = "close" => NoRef # Last
    <3>1. hpc = "close" => order[Len(order)] \in Plugins
      BY <1>0 DEF OrderInv, TypeOK
    <3> QED BY <1>0, <3>1, InstanceRef DEF Last
  <2> QED BY <2>1, <2>2 DEF Valid, Last, Instance
<1>17. ASSUME \/ \E p \in Plugins : Skip(p)
              \/ \E m \in Bots \union {Audio} : SetMode(m)
              \/ ModeOff \/ ModeWaitOff \/ ModeOn \/ Utterance \/ Hear
              \/ HearReturn
              \/ \E t \in Tools : Invoke(t)
              \/ InvokeReturn \/ ReadPolicy \/ PolicyReturn
              \/ UNCHANGED vars
       PROVE  TableInv'
  <2>1. UNCHANGED <<gen, mapped, order, modes, chain, services, effect, frame,
                    tools, hpc>>
    BY <1>17 DEF Skip, Missing, Ready, SetMode, ModeOff, ModeWaitOff, ModeOn,
        Utterance, Hear, HearReturn, Invoke, InvokeReturn, ReadPolicy,
        PolicyReturn, rigid, job, set, loader, botmode, calls, ear, mediafx,
        others, click, vars
  <2> QED BY <2>1 DEF Valid, Last, Instance
<1> QED BY <1>1, <1>2, <1>3, <1>4, <1>5, <1>6, <1>7, <1>8, <1>9, <1>10, <1>11,
    <1>12, <1>13, <1>14, <1>15, <1>16, <1>17 DEF Next, Unload, Load, Web,
    Worker, Media

-----------------------------------------------------------------------------
LEMMA InitCallInv == Init => CallInv
  BY DEF Init, CallInv, Live, AfterCallback

\* Every step keeps the calls inside plugins that are mapped.
LEMMA StepCallInv ==
    TypeInv /\ OrderInv /\ TableInv /\ CallInv /\ [Next]_vars => CallInv'
<1> SUFFICES ASSUME TypeInv, OrderInv, TableInv, CallInv, [Next]_vars
             PROVE  CallInv'
  OBVIOUS
<1>0. TypeOK /\ ~Valid(NoRef)
  BY NoRefInvalid DEF TypeInv
<1> USE DEF CallInv, Live, AfterCallback
\* An unload amid bot_set_mode is late from here on.
<1>1. ASSUME NEW t \in Threads, NEW reload \in BOOLEAN, Start(t, reload)
      PROVE  CallInv'
  BY <1>1, <1>0 DEF Start, Valid, rigid, job, set, loader, botmode, calls, ear,
      mediafx, others, click
<1>2. ASSUME ClearModes PROVE CallInv'
  BY <1>2, <1>0 DEF ClearModes, Valid, rigid, job, set, loader, botmode, calls,
      ear, mediafx, others, click
<1>3. ASSUME Deactivate PROVE CallInv'
  BY <1>3, <1>0 DEF Deactivate, Valid, rigid, job, set, loader, botmode, calls,
      ear, mediafx, others, click
<1>4. ASSUME WaitOff PROVE CallInv'
  BY <1>4, <1>0 DEF WaitOff, WorkerOut, Valid, rigid, job, set, loader, botmode,
      calls, ear, mediafx, others, click
<1>5. ASSUME Unsubscribe PROVE CallInv'
  BY <1>5, <1>0 DEF Unsubscribe, Valid, rigid, job, set, loader, botmode, calls,
      ear, mediafx, others, click
<1>6. ASSUME WaitCallback PROVE CallInv'
  BY <1>6, <1>0 DEF WaitCallback, WorkerOut, Valid, rigid, job, set, loader,
      botmode, calls, ear, mediafx, others, click
<1>7. ASSUME ClearGain PROVE CallInv'
  BY <1>7, <1>0 DEF ClearGain, Valid, rigid, job, set, loader, botmode, calls,
      ear, mediafx, others, click
<1>8. ASSUME ClearEffects PROVE CallInv'
  BY <1>8, <1>0 DEF ClearEffects, FxLockFree, Valid, rigid, job, set, loader,
      botmode, calls, ear, mediafx, others, click
<1>9. ASSUME Withdraw PROVE CallInv'
  BY <1>9, <1>0 DEF Withdraw, FxLockFree, ToolsWithout, Valid, rigid, job, set,
      loader, botmode, calls, ear, mediafx, others, click
\* Nobody hears a plugin any more, or calls its tools.
<1>10. ASSUME Close PROVE CallInv'
  <2>1. UNCHANGED <<gen, utter, gain, hearing, tool, click, late>>
    BY <1>10 DEF Close, ear, calls
  <2>2. hpc = "close" /\ hpc' = "withdraw"
    BY <1>10 DEF Close
  <2>3. ~late => /\ utter = NoRef /\ gain = NoRef /\ hearing = NoRef /\ tool = NoRef
                 /\ wpc = "idle"
    BY <2>2
  <2> QED BY <2>1, <2>2, <2>3 DEF click
<1>11. ASSUME UnloadEnds PROVE CallInv'
  BY <1>11, <1>0 DEF UnloadEnds, Valid, rigid, job, set, loader, botmode, calls,
      ear, mediafx, others, click
<1>12. ASSUME NEW present \in SUBSET Plugins, Gather(present) PROVE CallInv'
  <2>1. UNCHANGED <<utter, gain, hearing, tool, click, late>>
    BY <1>12 DEF Gather, ear, calls
  <2>2. hpc = "withdraw" /\ hpc' = "load"
    BY <1>12 DEF Gather
  <2>3. ~late => /\ utter = NoRef /\ gain = NoRef /\ hearing = NoRef /\ tool = NoRef
                 /\ wpc = "idle"
    BY <2>2
  <2> QED BY <2>1, <2>2, <2>3 DEF click
<1>13. ASSUME NEW p \in Plugins, InitPlugin(p) PROVE CallInv'
  <2>1. /\ UNCHANGED <<gen, hearing, tool, click, late>>
        /\ mapped' = mapped \union {p} /\ hpc = "load" /\ hpc' = "load"
    BY <1>13 DEF InitPlugin, job, calls
  <2>2. Valid(Instance(p))' /\ \A r : Valid(r) => Valid(r)'
    BY <2>1 DEF Valid, Instance
  <2>3. Instance(p)' = Instance(p)
    BY <2>1 DEF Instance
  <2>4. utter' \in {utter, Instance(p)} /\ gain' \in {gain, Instance(p)}
    BY <1>13 DEF InitPlugin
  <2>5. ~late => wpc = "idle"
    BY <2>1
  <2> QED BY <2>1, <2>2, <2>3, <2>4, <2>5 DEF click
<1>14. ASSUME Loaded PROVE CallInv'
  BY <1>14, <1>0 DEF Loaded, Settled, Missing, Ready, Valid, rigid, job, set,
      loader, botmode, calls, ear, mediafx, others, click
<1>15. ASSUME NEW m \in Bots \union {Audio}, SetMode(m) PROVE CallInv'
  <2>1. UNCHANGED <<gen, mapped, hpc, utter, gain, hearing, tool>>
    BY <1>15 DEF SetMode, loader, set, ear, calls
  <2>2. on' = Registered(m) /\ (late' <=> late \/ (hpc # "idle" /\ wpc' # "idle"))
    BY <1>15 DEF SetMode
  <2>3. Live(on')
    BY <1>0, <2>2, RegisteredMode DEF TableInv, TypeOK
  <2> QED BY <2>1, <2>2, <2>3 DEF Valid
<1>16. ASSUME ModeOff PROVE CallInv'
  BY <1>16, <1>0 DEF ModeOff, Valid, rigid, job, set, loader, botmode, calls, ear,
      mediafx, others, click
<1>17. ASSUME ModeWaitOff PROVE CallInv'
  BY <1>17, <1>0 DEF ModeWaitOff, WorkerOut, Valid, rigid, job, set, loader,
      botmode, calls, ear, mediafx, others, click
<1>18. ASSUME ModeOn PROVE CallInv'
  BY <1>18, <1>0 DEF ModeOn, Valid, rigid, job, set, loader, botmode, calls, ear,
      mediafx, others, click
\* The subscription is not withdrawn before the worker is waited for.
<1>19. ASSUME Hear PROVE CallInv'
  <2>1. /\ UNCHANGED <<gen, mapped, hpc, utter, gain, tool, click, late>>
        /\ hearing = NoRef /\ hearing' = utter
    BY <1>19 DEF Hear, loader, set
  <2> QED BY <2>1 DEF Valid, click
<1>20. ASSUME HearReturn PROVE CallInv'
  BY <1>20, <1>0 DEF HearReturn, InCbAfterReturn, Valid, rigid, job, set, loader,
      botmode, calls, ear, mediafx, others, click
\* A tool that is found is live.
<1>21. ASSUME NEW t \in Tools, Invoke(t) PROVE CallInv'
  <2>1. /\ UNCHANGED <<gen, mapped, hpc, utter, gain, hearing, click, late>>
        /\ hearing # NoRef /\ tool' = tools[t]
    BY <1>21 DEF Invoke, loader, set
  <2>2. Live(tools[t])
    BY DEF TableInv
  <2> QED BY <2>1, <2>2 DEF Valid, click
<1>22. ASSUME InvokeReturn PROVE CallInv'
  BY <1>22, <1>0 DEF InvokeReturn, Valid, rigid, job, set, loader, botmode, calls,
      ear, mediafx, others, click
<1>23. ASSUME \/ \E p \in Plugins : Skip(p)
              \/ Utterance \/ ReadPolicy \/ PolicyReturn
              \/ \E r \in chain \union {effect} : Frame(r)
              \/ FrameDone \/ UNCHANGED vars
       PROVE  CallInv'
  <2>1. UNCHANGED <<gen, mapped, hpc, utter, gain, hearing, tool, wpc, on, late>>
    BY <1>23 DEF Skip, Missing, Ready, Utterance, ReadPolicy, PolicyReturn, Frame,
        FrameDone, rigid, job, set, loader, botmode, calls, ear, mediafx,
        others, click, vars
  <2> QED BY <2>1 DEF Valid
<1> QED BY <1>1, <1>2, <1>3, <1>4, <1>5, <1>6, <1>7, <1>8, <1>9, <1>10, <1>11,
    <1>12, <1>13, <1>14, <1>15, <1>16, <1>17, <1>18, <1>19, <1>20, <1>21,
    <1>22, <1>23 DEF Next, Unload, Load, Web, Worker, Media

\* Every table entry points into a plugin that is mapped, in the middle of an
\* unload as well, for any plugins and dependencies.
THEOREM TablesAreLive == Spec => []TablesLive
<1>1. Init => TypeInv /\ OrderInv /\ TableInv /\ CallInv
  BY InitTypeInv, InitOrderInv, InitTableInv, InitCallInv
<1>2. /\ TypeInv /\ OrderInv /\ TableInv /\ CallInv
      /\ [Next]_vars
      => (TypeInv /\ OrderInv /\ TableInv /\ CallInv)'
  BY StepTypeInv, StepOrderInv, StepTableInv, StepCallInv
<1>3. TableInv /\ CallInv => TablesLive
  BY DEF TableInv, CallInv, TablesLive, Live
<1> QED BY <1>1, <1>2, <1>3, PTL DEF Spec

\* No thread is ever inside a plugin, or a tool of one, that is gone.
THEOREM CallsAreMapped == Spec => []CallsMapped
<1>1. Init => TypeInv /\ OrderInv /\ TableInv /\ CallInv
  BY InitTypeInv, InitOrderInv, InitTableInv, InitCallInv
<1>2. /\ TypeInv /\ OrderInv /\ TableInv /\ CallInv
      /\ [Next]_vars
      => (TypeInv /\ OrderInv /\ TableInv /\ CallInv)'
  BY StepTypeInv, StepOrderInv, StepTableInv, StepCallInv
<1>3. TableInv /\ CallInv => CallsMapped
  BY DEF TableInv, CallInv, CallsMapped, Live
<1> QED BY <1>1, <1>2, <1>3, PTL DEF Spec

-----------------------------------------------------------------------------
LEMMA InitModeInv == Init => ModeInv
  BY DEF Init, ModeInv

\* Every step keeps the hearing with the selected mode.
LEMMA StepModeInv ==
    TypeInv /\ TableInv /\ CallInv /\ ModeInv /\ [Next]_vars => ModeInv'
<1> SUFFICES ASSUME TypeInv, TableInv, CallInv, ModeInv, [Next]_vars
             PROVE  ModeInv'
  OBVIOUS
<1>0. TypeOK
  BY DEF TypeInv
<1> USE DEF ModeInv
<1>1. ASSUME UnloadEnds PROVE ModeInv'
  <2>1. ~late => utter = NoRef /\ wpc = "idle"
    BY <1>1 DEF UnloadEnds, CallInv, AfterCallback
  <2>2. UNCHANGED <<utter, wpc, late>>
    BY <1>1 DEF UnloadEnds, ear, click
  <2> QED BY <2>1, <2>2
<1>2. ASSUME NEW present \in SUBSET Plugins, Gather(present) PROVE ModeInv'
  <2>1. ~late => utter = NoRef /\ wpc = "idle"
    BY <1>2 DEF Gather, CallInv, AfterCallback
  <2>2. UNCHANGED <<utter, wpc, late>>
    BY <1>2 DEF Gather, ear, click
  <2> QED BY <2>1, <2>2
<1>3. ASSUME NEW p \in Plugins, InitPlugin(p) PROVE ModeInv'
  <2>1. /\ UNCHANGED <<mode, click, late>> /\ hpc = "load" /\ hpc' = "load"
        /\ modes \subseteq modes'
    BY <1>3 DEF InitPlugin, job
  <2>2. \/ utter' = utter
        \/ utter' = Instance(p) /\ Instance(p) \in modes' /\ mode = p
    BY <1>3 DEF InitPlugin
  <2>3. ~late => wpc = "idle"
    BY <2>1 DEF CallInv
  <2> QED BY <2>1, <2>2, <2>3 DEF click, Instance
<1>4. ASSUME Loaded PROVE ModeInv'
  BY <1>4, <1>0 DEF Loaded, Settled, Missing, Ready, rigid, job, set, loader,
      botmode, calls, ear, mediafx, others, click
\* Who has the hearing is registered, so it is asked to give it back.
<1>5. ASSUME NEW m \in Bots \union {Audio}, SetMode(m) PROVE ModeInv'
  <2>1. wpc = "idle" /\ UNCHANGED <<modes, utter, hpc>>
    BY <1>5 DEF SetMode, ear, loader
  <2>2. /\ off' = Registered(mode) /\ on' = Registered(m)
        /\ mode' = IF Registered(m) = NoRef THEN Audio ELSE m
        /\ wpc' = "on" \/ wpc' = "idle" => off' = NoRef
        /\ wpc' \in {"off", "on", "idle"} /\ (late => late')
    BY <1>5 DEF SetMode, Left
  <2>3. utter \in modes /\ utter.plg = mode => Registered(mode) # NoRef
    BY <1>0, RegisteredMode DEF TypeOK
  <2>4. on' # NoRef => on' \in modes' /\ on'.plg = mode'
    BY <1>0, <2>1, <2>2, RegisteredMode DEF TypeOK
  <2> QED BY <2>1, <2>2, <2>3, <2>4
<1>6. ASSUME ModeOff PROVE ModeInv'
  BY <1>6, <1>0 DEF ModeOff, rigid, job, set, loader, botmode, calls, ear,
      mediafx, others, click
<1>7. ASSUME ModeWaitOff PROVE ModeInv'
  BY <1>7, <1>0 DEF ModeWaitOff, WorkerOut, rigid, job, set, loader, botmode,
      calls, ear, mediafx, others, click
<1>8. ASSUME ModeOn PROVE ModeInv'
  BY <1>8, <1>0 DEF ModeOn, rigid, job, set, loader, botmode, calls, ear,
      mediafx, others, click
<1>9. ASSUME \/ \E t \in Threads, reload \in BOOLEAN : Start(t, reload)
             \/ ClearModes \/ Deactivate \/ WaitOff \/ Unsubscribe
             \/ WaitCallback \/ ClearGain \/ ClearEffects \/ Withdraw
             \/ Close
      PROVE  ModeInv'
  <2>1. hpc' \notin {"idle", "load"}
    BY <1>9 DEF Start, ClearModes, Deactivate, WaitOff, Unsubscribe,
        WaitCallback, ClearGain, ClearEffects, Withdraw, ToolsWithout, Close
  <2> QED BY <2>1
<1>10. ASSUME \/ \E p \in Plugins : Skip(p)
              \/ Utterance \/ Hear \/ HearReturn
              \/ \E t \in Tools : Invoke(t)
              \/ InvokeReturn \/ ReadPolicy \/ PolicyReturn
              \/ \E r \in chain \union {effect} : Frame(r)
              \/ FrameDone \/ UNCHANGED vars
       PROVE  ModeInv'
  <2>1. UNCHANGED <<utter, modes, mode, on, wpc, hpc, late>>
    BY <1>10 DEF Utterance, Hear, HearReturn, Invoke, InvokeReturn, ReadPolicy,
        PolicyReturn, Frame, FrameDone, Skip, Missing, Ready, rigid, job, set,
        loader, botmode, calls, ear, mediafx, others, click, vars
  <2> QED BY <2>1
<1> QED BY <1>1, <1>2, <1>3, <1>4, <1>5, <1>6, <1>7, <1>8, <1>9, <1>10 DEF
    Next, Unload, Load, Web, Worker, Media

\* The hearing belongs to the plugin whose mode is selected, once no thread is
\* changing either.
THEOREM HearingFollowsMode == Spec => []HearsForMode
<1>1. Init => TypeInv /\ OrderInv /\ TableInv /\ CallInv /\ ModeInv
  BY InitTypeInv, InitOrderInv, InitTableInv, InitCallInv, InitModeInv
<1>2. /\ TypeInv /\ OrderInv /\ TableInv /\ CallInv /\ ModeInv
      /\ [Next]_vars
      => (TypeInv /\ OrderInv /\ TableInv /\ CallInv /\ ModeInv)'
  BY StepTypeInv, StepOrderInv, StepTableInv, StepCallInv, StepModeInv
<1>3. ModeInv => HearsForMode
  BY DEF ModeInv, HearsForMode
<1> QED BY <1>1, <1>2, <1>3, PTL DEF Spec

-----------------------------------------------------------------------------
LEMMA InitLoadInv == Init => LoadInv
<1> SUFFICES ASSUME Init PROVE LoadInv
  OBVIOUS
<1>1. mapped = {} /\ hpc = "idle" /\ \A p \in Plugins : cand[p] = "absent"
  BY DEF Init
<1> QED BY <1>1 DEF LoadInv, LoadsAllItCan, Closed

\* Every step keeps the plugins that are up the least set that is closed, and
\* a load leaves none out without a reason.
LEMMA StepLoadInv == TypeInv /\ OrderInv /\ LoadInv /\ [Next]_vars => LoadInv'
<1> SUFFICES ASSUME TypeInv, OrderInv, LoadInv, [Next]_vars PROVE LoadInv'
  OBVIOUS
<1>0. TypeOK /\ \A p \in Plugins : deps[p] \subseteq Plugins
  BY PluginsAssumption DEF TypeInv, TypeOK
<1>a. ASSUME UNCHANGED <<deps, broken, order, mapped, cand>>,
             hpc' = hpc \/ hpc' \notin {"idle", "load"}
      PROVE  LoadInv'
  BY <1>a DEF LoadInv, LoadsAllItCan, Closed, Excused, Missing
\* Nothing that stays depends on the last plugin, so a closed set with it is
\* closed without it.
<1>1. ASSUME Close PROVE LoadInv'
  <2> DEFINE n == Len(order)  last == order[n]
  <2>1. /\ UNCHANGED <<deps, broken>> /\ mapped' = mapped \ {last}
        /\ hpc' = "withdraw" /\ n \in Nat \ {0} /\ last \in mapped
    BY <1>1, <1>0 DEF Close, OrderInv, TypeOK, rigid
  <2>2. ASSUME NEW q \in mapped PROVE last \notin deps[q]
    <3>1. PICK i \in 1 .. n : order[i] = q
      BY DEF OrderInv
    <3>2. \A j \in 1 .. i - 1 : order[j] # last
      BY <2>1, <3>1 DEF OrderInv
    <3> QED BY <3>1, <3>2 DEF OrderInv, DepsUp
  <2>3. ASSUME NEW S \in SUBSET mapped',
               \A q \in mapped' : deps[q] \subseteq S => q \in S
        PROVE  S = mapped'
    <3>1. Closed(S \union {last}, mapped)
      BY <2>1, <2>2, <2>3 DEF Closed
    <3>2. S \union {last} = mapped
      BY <2>1, <3>1 DEF LoadInv
    <3> QED BY <2>1, <3>2
  <2> QED BY <2>1, <2>3 DEF LoadInv, LoadsAllItCan, Closed
<1>2. ASSUME UnloadEnds PROVE LoadInv'
  <2>1. mapped' = {} /\ hpc' = "idle" /\ \A p \in Plugins : cand'[p] = "absent"
    BY <1>2 DEF UnloadEnds, OrderInv
  <2> QED BY <2>1 DEF LoadInv, LoadsAllItCan, Closed
<1>3. ASSUME NEW present \in SUBSET Plugins, Gather(present) PROVE LoadInv'
  <2>1. mapped' = {} /\ hpc' = "load" /\ \A p \in Plugins : cand'[p] # "skipped"
    BY <1>3 DEF Gather, OrderInv
  <2> QED BY <2>1 DEF LoadInv, LoadsAllItCan, Closed
\* What keeps a plugin out goes on doing so.
<1>4. ASSUME NEW p \in Plugins, Skip(p) PROVE LoadInv'
  <2>1. UNCHANGED <<deps, broken, order, mapped>> /\ hpc = "load" /\ hpc' = "load"
    BY <1>4 DEF Skip, rigid
  <2>2. Excused(p)
    BY <1>4 DEF Skip, Excused
  <2>3. \A q \in Plugins : cand'[q] = IF q = p THEN "skipped" ELSE cand[q]
    BY <1>4, <1>0 DEF Skip, TypeOK
  <2>4. \A q \in Plugins : Excused(q) => Excused(q)'
    BY <1>0, <2>1, <2>3 DEF Excused, Missing
  <2> QED BY <2>1, <2>2, <2>3, <2>4 DEF LoadInv, LoadsAllItCan, Closed
\* A set that is closed with the new plugin is closed without it, and then
\* holds all it depends on.
<1>5. ASSUME NEW p \in Plugins, InitPlugin(p) PROVE LoadInv'
  <2>1. /\ UNCHANGED <<deps, broken>> /\ mapped' = mapped \union {p}
        /\ hpc = "load" /\ hpc' = "load" /\ Len(order') = Len(order) + 1
    BY <1>5, <1>0 DEF InitPlugin, rigid, job, TypeOK
  <2>2. deps[p] \subseteq mapped /\ p \notin mapped
    BY <1>5, <1>0, <2>1 DEF InitPlugin, Ready, OrderInv
  <2>3. ASSUME NEW S \in SUBSET mapped',
               \A q \in mapped' : deps[q] \subseteq S => q \in S
        PROVE  S = mapped'
    <3>1. Closed(S \intersect mapped, mapped)
      BY <1>0, <2>1, <2>3 DEF Closed, OrderInv
    <3>2. mapped \subseteq S
      BY <3>1 DEF LoadInv
    <3> QED BY <2>1, <2>2, <2>3, <3>2
  <2>4. \A q \in Plugins : cand'[q] = IF q = p THEN "loaded" ELSE cand[q]
    BY <1>5, <1>0 DEF InitPlugin, TypeOK
  <2>5. Missing(p) = FALSE /\ cand[p] = "pending"
    BY <1>5 DEF InitPlugin, Ready, Missing
  <2>6. \A q \in Plugins : Excused(q) => Excused(q)'
    <3>1. Len(order) \in Nat /\ PlgMax \in Nat
      BY <1>0, BoundsAssumption DEF TypeOK
    <3> QED BY <1>0, <2>1, <2>4, <2>5, <3>1 DEF Excused, Missing
  <2>7. ASSUME NEW q \in Plugins, cand'[q] = "skipped" PROVE Excused(q)'
    BY <2>1, <2>4, <2>6, <2>7 DEF LoadInv
  <2> QED BY <2>1, <2>3, <2>7 DEF LoadInv, LoadsAllItCan, Closed
\* Nothing is pending that could be loaded, and nothing skipped that could
\* have been.
<1>6. ASSUME Loaded PROVE LoadInv'
  <2>1. UNCHANGED <<deps, broken, order, mapped>> /\ hpc = "load" /\ hpc' = "idle"
    BY <1>6 DEF Loaded, rigid
  <2>2. ASSUME Len(order) < PlgMax, NEW p \in Plugins \ broken,
               cand[p] # "absent", deps[p] \subseteq mapped
        PROVE  p \in mapped
    <3>1. \A d \in deps[p] : cand[d] = "loaded"
      BY <1>0, <2>1, <2>2 DEF OrderInv
    <3>2. cand[p] # "skipped"
      <4>1. ~(Len(order) >= PlgMax)
        BY <1>0, <2>2, BoundsAssumption DEF TypeOK
      <4> QED BY <2>1, <2>2, <3>1, <4>1 DEF LoadInv, Excused, Missing
    <3>3. cand[p] # "pending"
      BY <1>6, <3>1 DEF Loaded, Settled, Ready
    <3> QED BY <1>0, <2>1, <2>2, <3>2, <3>3 DEF OrderInv, TypeOK
  <2>3. \A p \in Plugins : cand'[p] # "absent" => cand[p] # "absent"
    BY <1>6 DEF Loaded
  <2> QED BY <2>1, <2>2, <2>3 DEF LoadInv, LoadsAllItCan, Closed
<1>7. ASSUME \/ \E t \in Threads, reload \in BOOLEAN : Start(t, reload)
             \/ ClearModes \/ Deactivate \/ WaitOff \/ Unsubscribe
             \/ WaitCallback \/ ClearGain \/ ClearEffects \/ Withdraw
             \/ \E m \in Bots \union {Audio} : SetMode(m)
             \/ ModeOff \/ ModeWaitOff \/ ModeOn \/ Utterance \/ Hear
             \/ HearReturn
             \/ \E t \in Tools : Invoke(t)
             \/ InvokeReturn \/ ReadPolicy \/ PolicyReturn
             \/ \E r \in chain \union {effect} : Frame(r)
             \/ FrameDone \/ UNCHANGED vars
      PROVE  LoadInv'
  <2>1. /\ UNCHANGED <<deps, broken, order, mapped, cand>>
        /\ hpc' = hpc \/ hpc' \notin {"idle", "load"}
    BY <1>7 DEF Start, ClearModes, Deactivate, WaitOff, Unsubscribe,
        WaitCallback, ClearGain, ClearEffects, Withdraw, ToolsWithout,
        SetMode, ModeOff, ModeWaitOff, ModeOn, Utterance, Hear, HearReturn,
        Invoke, InvokeReturn, ReadPolicy, PolicyReturn, Frame, FrameDone,
        rigid, job, set, loader, botmode, calls, ear, mediafx, others, click,
        vars
  <2> QED BY <1>a, <2>1
<1> QED BY <1>1, <1>2, <1>3, <1>4, <1>5, <1>6, <1>7 DEF Next, Unload, Load,
    Web, Worker, Media

\* A load brings up all it can and no more: for any graph of dependencies the
\* plugins that are up are the least set closed under it.
THEOREM LoadIsComplete == Spec => []LoadsAllItCan
<1>1. Init => TypeInv /\ OrderInv /\ LoadInv
  BY InitTypeInv, InitOrderInv, InitLoadInv
<1>2. /\ TypeInv /\ OrderInv /\ LoadInv /\ [Next]_vars
      => (TypeInv /\ OrderInv /\ LoadInv)'
  BY StepTypeInv, StepOrderInv, StepLoadInv
<1>3. LoadInv => LoadsAllItCan
  BY DEF LoadInv
<1> QED BY <1>1, <1>2, <1>3, PTL DEF Spec
=============================================================================
