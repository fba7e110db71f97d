----------------------------- MODULE PluginHost -----------------------------
(***************************************************************************)
(* Loadable plugins (src/src/plugin.c) and the tables through which the    *)
(* rest of the program calls into them: the tool registry                  *)
(* (toolregistry.c), the media effects (mediafx.c), the bot's hearing      *)
(* (botsense.c), its presence modes and gain policy (app.c).               *)
(*                                                                         *)
(* A load gathers the plugins found on disk and initialises them in the    *)
(* order of their dependencies; an unload withdraws every table entry,     *)
(* then shuts the plugins down in reverse order and unmaps their code.     *)
(* Both run under plugin.c's g_lock, on the web server's thread or on the  *)
(* detached thread of a store download, while the hearing worker, the      *)
(* audio policy loop and the media threads go on calling plugins.          *)
(*                                                                         *)
(* A plugin is modelled by what plugin.h says it does: it registers its    *)
(* tool, effects and service from init, its mode if it is a bot; a mode    *)
(* that becomes active takes the hearing and the gain policy, and gives    *)
(* them back when it is left.  An init that fails registers nothing.       *)
(***************************************************************************)
EXTENDS Naturals, Sequences

CONSTANTS
    Plugins,            \* descriptor names
    Bots,               \* the plugins that register a presence mode
    Effects,            \* the plugins that register media effects
    Tools, toolOf,      \* tool names, and the one a plugin registers
    DepGraphs,          \* possible [plugin -> the plugins it depends on]
    Audio,              \* the built-in bot mode
    None,
    PlgMax,             \* capacity of g_plugins
    QueueMax,           \* capacity of the queue of utterances
    MaxLoads            \* bound: how often plugins are loaded

ASSUME PluginsAssumption ==
    /\ Bots \subseteq Plugins /\ Effects \subseteq Plugins
    /\ toolOf \in [Plugins -> Tools]
    /\ DepGraphs \subseteq [Plugins -> SUBSET Plugins]
    /\ Audio \notin Plugins /\ None \notin Plugins
ASSUME BoundsAssumption ==
    PlgMax \in Nat /\ QueueMax \in Nat /\ MaxLoads \in Nat

Threads == {"web", "download"}

\* What a table holds of a plugin: a function pointer into the code of its
\* gen-th load, or into its state.
Ref == [plg: Plugins, gen: Nat]
NoRef == [plg |-> None, gen |-> 0]
RefOrNone == Ref \union {NoRef}

VARIABLES
    deps, broken,       \* the plugins' deps, and those whose init fails
    holder,             \* the thread that holds g_lock, or None
    hpc,                \* how far it is
    again,              \* it loads after the unload
    gen,                \* loads so far
    cand,               \* status of each plugin in this load
    order,              \* g_plugins[0 .. g_n)
    mapped,             \* plugins whose code is mapped and state exists
    leaving,            \* the mode callback that an unload has taken
    mode, modes,        \* a->bot_mode, a->bot_modes
    utter, gain,        \* botsense's callback, a->gain_policy_fn
    tools,              \* the tool registry
    effect, chain,      \* mediafx's single slots, and its video chain
    services,           \* g_services
    queue, hearing,     \* finished utterances; callback the worker is in
    tool,               \* the handler that callback has resolved
    policy,             \* the gain policy the audio loop has read
    frame,              \* the effect a media thread is in, under mfx's lock
    wpc, off, on,       \* bot_set_mode on the web thread, its callbacks
    late                \* history: an unload has begun amid bot_set_mode

rigid == <<deps, broken>>
job == <<holder, again>>
set == <<gen, cand, order, mapped>>
loader == <<job, hpc, set, leaving>>
botmode == <<mode, modes>>
calls == <<queue, hearing, tool>>       \* the hearing worker
ear == <<utter, calls>>
mediafx == <<effect, chain>>
others == <<policy, frame>>             \* the other threads in plugins
click == <<wpc, off, on>>
vars == <<rigid, loader, botmode, ear, gain, tools, mediafx, services, others,
          click, late>>

HostPcs == {"idle", "clear", "deactivate", "waitoff", "unsubscribe",
            "waitcb", "gain", "effects", "withdraw", "close", "load"}
ClickPcs == {"idle", "off", "waitoff", "on"}

\* The current instance of a plugin, and whether a reference still has one.
Instance(p) == [plg |-> p, gen |-> gen]
Valid(r) == r.plg \in mapped /\ r.gen = gen

TypeOK ==
    /\ deps \in DepGraphs /\ broken \subseteq Plugins
    /\ holder \in Threads \union {None} /\ hpc \in HostPcs
    /\ again \in BOOLEAN /\ late \in BOOLEAN
    /\ gen \in 0 .. MaxLoads
    /\ cand \in [Plugins -> {"absent", "pending", "loaded", "skipped"}]
    /\ order \in Seq(Plugins) /\ mapped \subseteq Plugins
    /\ mode \in Plugins \union {Audio} /\ modes \subseteq Ref
    /\ leaving \in RefOrNone /\ utter \in RefOrNone /\ gain \in RefOrNone
    /\ hearing \in RefOrNone /\ tool \in RefOrNone /\ policy \in RefOrNone
    /\ tools \in [Tools -> RefOrNone]
    /\ effect \in RefOrNone /\ chain \subseteq Ref /\ services \subseteq Ref
    /\ frame \in RefOrNone /\ off \in RefOrNone /\ on \in RefOrNone
    /\ queue \in 0 .. QueueMax
    /\ wpc \in ClickPcs

Init ==
    /\ deps \in DepGraphs /\ broken \in SUBSET Plugins
    /\ holder = None /\ hpc = "idle" /\ again = FALSE /\ gen = 0
    /\ cand = [p \in Plugins |-> "absent"] /\ order = <<>> /\ mapped = {}
    /\ leaving = NoRef
    /\ mode \in Bots \union {Audio} /\ modes = {}      \* persisted mode
    /\ utter = NoRef /\ gain = NoRef
    /\ tools = [t \in Tools |-> NoRef]
    /\ effect = NoRef /\ chain = {} /\ services = {}
    /\ queue = 0 /\ hearing = NoRef /\ tool = NoRef
    /\ policy = NoRef /\ frame = NoRef
    /\ wpc = "idle" /\ off = NoRef /\ on = NoRef /\ late = FALSE
-----------------------------------------------------------------------------
(* Unload: plugins_unload_locked *)

\* bsdr_plugins_reload or bsdr_plugins_unload.  The web thread serves one
\* request at a time, so it does not start one amid its bot_set_mode.
Start(t, reload) ==
    /\ hpc = "idle"
    /\ t = "web" => wpc = "idle"
    /\ reload => gen < MaxLoads
    /\ holder' = t /\ hpc' = "clear" /\ again' = reload
    /\ late' = (late \/ wpc # "idle")
    /\ UNCHANGED <<rigid, set, leaving, botmode, ear, gain, tools, mediafx,
                   services, others, click>>

\* The instance that has registered mode m, if any (bot_mode_find).
Registered(m) == IF \E r \in modes : r.plg = m
                 THEN CHOOSE r \in modes : r.plg = m ELSE NoRef

\* bsdr_app_bot_mode_clear_plugin_modes, as far as it holds a->lock.
ClearModes ==
    /\ hpc = "clear"
    /\ leaving' = Registered(mode) /\ modes' = {}
    /\ IF Registered(mode) = NoRef
       THEN hpc' = "unsubscribe" /\ UNCHANGED mode
       ELSE hpc' = "deactivate" /\ mode' = Audio
    /\ UNCHANGED <<rigid, job, set, ear, gain, tools, mediafx, services,
                   others, click, late>>

\* bsdr_botsense_set_cb(NULL) returns when the worker has left the callback.
WorkerOut_Unchecked == TRUE
WorkerOut == hearing = NoRef

\* The plugin's on_active(0): it gives the hearing back and then the gain
\* policy.
Deactivate ==
    /\ hpc = "deactivate"
    /\ utter' = NoRef /\ hpc' = "waitoff"
    /\ UNCHANGED <<rigid, job, set, leaving, botmode, calls, gain, tools,
                   mediafx, services, others, click, late>>

WaitOff ==
    /\ hpc = "waitoff" /\ WorkerOut
    /\ gain' = NoRef /\ leaving' = NoRef /\ hpc' = "unsubscribe"
    /\ UNCHANGED <<rigid, job, set, botmode, ear, tools, mediafx, services,
                   others, click, late>>

\* bsdr_app_utterance_subscribe(NULL): whatever subscription lingers.
Unsubscribe ==
    /\ hpc = "unsubscribe"
    /\ utter' = NoRef /\ hpc' = "waitcb"
    /\ UNCHANGED <<rigid, job, set, leaving, botmode, calls, gain, tools,
                   mediafx, services, others, click, late>>

WaitCallback ==
    /\ hpc = "waitcb" /\ WorkerOut
    /\ hpc' = "gain"
    /\ UNCHANGED <<rigid, job, set, leaving, botmode, ear, gain, tools,
                   mediafx, services, others, click, late>>

\* bsdr_app_set_gain_policy(NULL): it does not wait for a call under way.
ClearGain ==
    /\ hpc = "gain"
    /\ gain' = NoRef /\ hpc' = "effects"
    /\ UNCHANGED <<rigid, job, set, leaving, botmode, ear, tools, mediafx,
                   services, others, click, late>>

\* mediafx's lock is free: a media thread keeps it while it is in an effect.
FxLockFree == frame = NoRef

\* mediafx's single slots are cleared, then the table of services.
ClearEffects ==
    /\ hpc = "effects" /\ FxLockFree
    /\ effect' = NoRef /\ services' = {} /\ hpc' = "withdraw"
    /\ UNCHANGED <<rigid, job, set, leaving, botmode, ear, gain, tools,
                   chain, others, click, late>>

\* The last plugin of g_plugins leaves: its tools
\* (bsdr_tools_unregister_owner), its place in the video chain ...
ToolsWithout_Kept(r) == tools
ToolsWithout(r) == [t \in Tools |-> IF tools[t] = r THEN NoRef ELSE tools[t]]

Withdraw ==
    /\ hpc = "withdraw" /\ order # <<>> /\ FxLockFree
    /\ tools' = ToolsWithout(Instance(order[Len(order)]))
    /\ chain' = chain \ {Instance(order[Len(order)])}
    /\ hpc' = "close"
    /\ UNCHANGED <<rigid, job, set, leaving, botmode, ear, gain, effect,
                   services, others, click, late>>

\* ... and it is shut down and its code unmapped.
Close ==
    /\ hpc = "close"
    /\ mapped' = mapped \ {order[Len(order)]}
    /\ order' = SubSeq(order, 1, Len(order) - 1)
    /\ hpc' = "withdraw"
    /\ UNCHANGED <<rigid, job, gen, cand, leaving, botmode, ear, gain, tools,
                   mediafx, services, others, click, late>>

\* All are gone.  An unload releases the lock; a reload gathers what is on
\* disk now, less what the operator has disabled or removed meanwhile.
UnloadEnds ==
    /\ hpc = "withdraw" /\ order = <<>> /\ ~again
    /\ hpc' = "idle" /\ holder' = None
    /\ cand' = [p \in Plugins |-> "absent"]
    /\ UNCHANGED <<rigid, again, gen, order, mapped, leaving, botmode, ear,
                   gain, tools, mediafx, services, others, click, late>>

Gather(present) ==
    /\ hpc = "withdraw" /\ order = <<>> /\ again
    /\ gen' = gen + 1 /\ hpc' = "load"
    /\ cand' = [p \in Plugins |->
                    IF p \in present THEN "pending" ELSE "absent"]
    /\ UNCHANGED <<rigid, job, order, mapped, leaving, botmode, ear, gain,
                   tools, mediafx, services, others, click, late>>
-----------------------------------------------------------------------------
(* Load: resolve_and_init.  The scan goes over the candidates in the order  *)
(* of the directory, again and again; that order is not known, so the next  *)
(* candidate it settles is any that it could.                               *)

Missing(p) == \E d \in deps[p] : cand[d] \in {"absent", "skipped"}
Ready_Unordered(p) == cand[p] = "pending" /\ ~Missing(p)
Ready(p) == cand[p] = "pending" /\ \A d \in deps[p] : cand[d] = "loaded"

\* A dependency is missing or was skipped, g_plugins is full, or init fails.
Skip(p) ==
    /\ hpc = "load"
    /\ \/ cand[p] = "pending" /\ Missing(p)
       \/ Ready(p) /\ Len(order) >= PlgMax
       \/ Ready(p) /\ p \in broken
    /\ cand' = [cand EXCEPT ![p] = "skipped"]
    /\ UNCHANGED <<rigid, job, hpc, gen, order, mapped, leaving, botmode,
                   ear, gain, tools, mediafx, services, others, click, late>>

\* The plugin's init registers what it offers; a mode that is already the
\* selected one is activated at once.
InitPlugin(p) ==
    /\ hpc = "load" /\ Ready(p) /\ Len(order) < PlgMax /\ p \notin broken
    /\ p \in Effects => FxLockFree
    /\ cand' = [cand EXCEPT ![p] = "loaded"]
    /\ order' = Append(order, p) /\ mapped' = mapped \union {p}
    /\ tools' = [tools EXCEPT ![toolOf[p]] = Instance(p)]
    /\ services' = services \union {Instance(p)}
    /\ effect' = IF p \in Effects THEN Instance(p) ELSE effect
    /\ chain' = IF p \in Effects THEN chain \union {Instance(p)} ELSE chain
    /\ modes' = IF p \in Bots THEN modes \union {Instance(p)} ELSE modes
    /\ utter' = IF p \in Bots /\ mode = p THEN Instance(p) ELSE utter
    /\ gain' = IF p \in Bots /\ mode = p THEN Instance(p) ELSE gain
    /\ UNCHANGED <<rigid, job, hpc, gen, leaving, mode, calls, others, click,
                   late>>

\* Nothing makes progress any more: what is pending depends on itself.
Settled_OnePass(p) == cand[p] = "pending" => ~Missing(p)
Settled(p) == cand[p] = "pending" => ~Missing(p) /\ ~Ready(p)

Loaded ==
    /\ hpc = "load" /\ \A p \in Plugins : Settled(p)
    /\ cand' = [p \in Plugins |->
                    IF cand[p] = "pending" THEN "skipped" ELSE cand[p]]
    /\ hpc' = "idle" /\ holder' = None
    /\ UNCHANGED <<rigid, again, gen, order, mapped, leaving, botmode, ear,
                   gain, tools, mediafx, services, others, click, late>>
-----------------------------------------------------------------------------
(* bsdr_app_bot_set_mode, on the web thread: the callbacks are read under   *)
(* a->lock and called after it is released.                                 *)

Left_Forgotten == NoRef
Left == Registered(mode)

SetMode(m) ==
    /\ wpc = "idle" /\ holder # "web"
    /\ LET target == IF Registered(m) = NoRef THEN Audio ELSE m
       IN  target # mode /\ mode' = target
    /\ off' = Left /\ on' = Registered(m)
    /\ wpc' = CASE off' # NoRef -> "off"
                [] off' = NoRef /\ on' # NoRef -> "on"
                [] OTHER -> "idle"
    /\ late' = (late \/ (hpc # "idle" /\ wpc' # "idle"))
    /\ UNCHANGED <<rigid, loader, modes, ear, gain, tools, mediafx, services,
                   others>>

ModeOff ==
    /\ wpc = "off"
    /\ utter' = NoRef /\ wpc' = "waitoff"
    /\ UNCHANGED <<rigid, loader, botmode, calls, gain, tools, mediafx,
                   services, others, off, on, late>>

ModeWaitOff ==
    /\ wpc = "waitoff" /\ WorkerOut
    /\ gain' = NoRef /\ off' = NoRef
    /\ wpc' = IF on = NoRef THEN "idle" ELSE "on"
    /\ UNCHANGED <<rigid, loader, botmode, ear, tools, mediafx, services,
                   others, on, late>>

ModeOn ==
    /\ wpc = "on"
    /\ utter' = on /\ gain' = on /\ on' = NoRef /\ wpc' = "idle"
    /\ UNCHANGED <<rigid, loader, botmode, calls, tools, mediafx, services,
                   others, off, late>>
-----------------------------------------------------------------------------
(* The threads that call plugins *)

\* bsdr_botsense_tap: an utterance is finished; it is dropped without a
\* subscriber or when the queue is full.
Utterance ==
    /\ utter # NoRef /\ queue < QueueMax
    /\ queue' = queue + 1
    /\ UNCHANGED <<rigid, loader, botmode, utter, hearing, tool, gain, tools,
                   mediafx, services, others, click, late>>

\* botsense's worker takes a job: the callback is read under the lock, and
\* in_cb set, so that who clears the subscription can wait for it.
Hear ==
    /\ queue > 0 /\ hearing = NoRef
    /\ queue' = queue - 1 /\ hearing' = utter
    /\ UNCHANGED <<rigid, loader, botmode, utter, tool, gain, tools, mediafx,
                   services, others, click, late>>

InCbAfterReturn_Kept == hearing
InCbAfterReturn == NoRef

HearReturn ==
    /\ hearing # NoRef /\ tool = NoRef
    /\ hearing' = InCbAfterReturn
    /\ UNCHANGED <<rigid, loader, botmode, utter, queue, tool, gain, tools,
                   mediafx, services, others, click, late>>

\* bsdr_tools_invoke from the callback: the handler is looked up under the
\* registry's lock and called without it.
Invoke(t) ==
    /\ hearing # NoRef /\ tool = NoRef /\ tools[t] # NoRef
    /\ tool' = tools[t]
    /\ UNCHANGED <<rigid, loader, botmode, utter, queue, hearing, gain,
                   tools, mediafx, services, others, click, late>>

InvokeReturn ==
    /\ tool # NoRef
    /\ tool' = NoRef
    /\ UNCHANGED <<rigid, loader, botmode, utter, queue, hearing, gain,
                   tools, mediafx, services, others, click, late>>

\* bsdr_app_apply_gain_policy: read under a->lock, called after it.
ReadPolicy ==
    /\ policy = NoRef /\ gain # NoRef
    /\ policy' = gain
    /\ UNCHANGED <<rigid, loader, botmode, ear, gain, tools, mediafx,
                   services, frame, click, late>>

PolicyReturn ==
    /\ policy # NoRef
    /\ policy' = NoRef
    /\ UNCHANGED <<rigid, loader, botmode, ear, gain, tools, mediafx,
                   services, frame, click, late>>

\* bsdr_mediafx_apply_*: the lock is held across the effect.
Frame(r) ==
    /\ FxLockFree /\ r # NoRef /\ (r = effect \/ r \in chain)
    /\ frame' = r
    /\ UNCHANGED <<rigid, loader, botmode, ear, gain, tools, mediafx,
                   services, policy, click, late>>

FrameDone ==
    /\ frame # NoRef
    /\ frame' = NoRef
    /\ UNCHANGED <<rigid, loader, botmode, ear, gain, tools, mediafx,
                   services, policy, click, late>>
-----------------------------------------------------------------------------
Unload == \/ ClearModes \/ Deactivate \/ WaitOff \/ Unsubscribe \/ WaitCallback
          \/ ClearGain \/ ClearEffects \/ Withdraw \/ Close \/ UnloadEnds
          \/ \E present \in SUBSET Plugins : Gather(present)
Load == Loaded \/ \E p \in Plugins : Skip(p) \/ InitPlugin(p)
Web == \/ ModeOff \/ ModeWaitOff \/ ModeOn
       \/ \E m \in Bots \union {Audio} : SetMode(m)
Worker == Hear \/ HearReturn \/ InvokeReturn \/ \E t \in Tools : Invoke(t)
Media == FrameDone \/ \E r \in chain \union {effect} : Frame(r)

Next ==
    \/ \E t \in Threads, reload \in BOOLEAN : Start(t, reload)
    \/ Unload \/ Load \/ Web
    \/ Utterance \/ Worker \/ ReadPolicy \/ PolicyReturn \/ Media

Spec == Init /\ [][Next]_vars

\* Locks and waits end: the thread that loads and unloads goes on, also where
\* it needs mediafx's lock, which is free between two frames (SF); a tool and
\* an effect return, and so does an utterance's callback, after finitely many
\* tools (SF).
Fairness ==
    /\ SF_vars(Unload) /\ SF_vars(Load)
    /\ SF_vars(HearReturn) /\ WF_vars(InvokeReturn) /\ WF_vars(FrameDone)
FairSpec == Spec /\ Fairness
-----------------------------------------------------------------------------
(* Properties *)

\* Every entry of every table points to code that is mapped, in the middle
\* of an unload as well: plugins_unload_locked withdraws what a plugin has
\* registered before it unmaps it.  A bot_set_mode that was under way may
\* register again (late).
TablesLive ==
    late \/ \A r \in modes \union chain \union services
                     \union {effect, utter, gain}
                     \union {tools[t] : t \in Tools} :
                r = NoRef \/ Valid(r)

\* The hearing worker, the tools it invokes and the media threads are never
\* inside a plugin that is gone.
CallsMapped ==
    /\ frame = NoRef \/ Valid(frame)
    /\ late \/ \A r \in {hearing, tool} : r = NoRef \/ Valid(r)

\* While a plugin is up, so is everything it depends on, and that was
\* initialised before it.
DepsUp ==
    \A i \in 1 .. Len(order) : \A d \in deps[order[i]] :
        \E j \in 1 .. i - 1 : order[j] = d

\* A load brings up every plugin that can be brought up, until g_plugins is
\* full, and no other, whatever the order of the files: what is loaded is the
\* least set that contains each candidate whose dependencies it contains.
Closed(S, P) == \A p \in P : deps[p] \subseteq S => p \in S
LoadsAllItCan ==
    hpc = "idle" =>
        /\ Len(order) < PlgMax =>
               Closed(mapped, {p \in Plugins \ broken : cand[p] # "absent"})
        /\ \A S \in SUBSET mapped : Closed(S, mapped) => S = mapped

\* The hearing belongs to the plugin whose mode is selected, once no thread
\* is changing either.
HearsForMode ==
    late \/ (hpc = "idle" /\ wpc = "idle" /\ utter # NoRef => utter.plg = mode)

\* A reload ends.
ReloadEnds == hpc # "idle" ~> hpc = "idle" \/ late

\* plugin.c:621-623: modes, hearing and gain policy are dropped before the
\* code is unmapped, "so nothing calls into an unloaded plugin".
PolicyMapped == late \/ policy = NoRef \/ Valid(policy)
=============================================================================
