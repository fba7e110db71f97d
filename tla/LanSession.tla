----------------------------- MODULE LanSession -----------------------------
(***************************************************************************)
(* The life of a LAN streaming session (src/src/agent.c), with the pieces  *)
(* of the app's state it is coupled to (src/src/app.c) and the pairing     *)
(* registry it is driven by (module Pairing, implemented by                *)
(* ControlServer).                                                         *)
(*                                                                         *)
(* Three kinds of threads change the session: the control server's         *)
(* connection threads, which run cb_start, cb_stop, cb_unpair and          *)
(* cb_settings AFTER the request left the control lock; the agent's main   *)
(* loop; and the session worker itself.  What one of them does under       *)
(* a->lock, or in one call into the app (which takes the app's own lock),  *)
(* is one action, and the others interleave in between.                    *)
(*                                                                         *)
(* The main loop's stages test their own conditions and do nothing when    *)
(* these are false, so an iteration is some sequence of the stages below.  *)
(* Deadlines are abstracted: an armed timer may lapse at any later time.   *)
(***************************************************************************)
EXTENDS FiniteSets, Naturals

CONSTANTS
    Headsets, Nobody,
    Conns,              \* connection threads of the control server
    Main,               \* the agent's main loop
    Workers, NoWorker,  \* threads spawned for a session; bounds how many coexist
    WarmResume,         \* --no-warm-resume clears it
    MaxClicks           \* bound: operator selections and disconnects

ASSUME ThreadsAssumption == Main \notin Conns
ASSUME NullsAssumption == Nobody \notin Headsets /\ NoWorker \notin Workers
ASSUME OptionsAssumption ==
    WarmResume \in BOOLEAN /\ MaxClicks \in Nat

VARIABLES
    \* agent_t
    stop, worker, worker_done, remote_ip,
    warm_until,         \* the worker the warm-resume timer was armed for
    input_ctx,          \* the worker on whose stack the input context lives
    \* bsdr_app
    quest_paired, internet_sharing,
    cloud_stream,       \* a relay stream exists
    unpair_pending,     \* its grace timer is armed
    known,              \* the headsets discovery has seen
    auto_use,           \* the one it is about to Use: the first one
    selected, blocked,  \* the operator's choice, and whom he disconnected
    select_pending,     \* select_gen has moved on
    disconnect_req,
    clicks,
    \* the pairing registry
    paired, sharing,
    thread,             \* for each thread, where it is and its locals
    \* session workers: where each is
    wpc,
    \* history: two threads were changing the session at once
    overlapped

agent == <<stop, worker, worker_done, remote_ip, warm_until, input_ctx>>
share == <<internet_sharing, cloud_stream, unpair_pending>>
app == <<quest_paired, share>>
operator == <<known, auto_use, selected, blocked, select_pending,
              disconnect_req, clicks>>
registry == <<paired, sharing>>
vars == <<agent, app, operator, registry, thread, wpc, overlapped>>

Threads == Conns \union {Main}
Registry == INSTANCE Pairing

\* at: the stage of its handler; arg: the headset it serves; taken: the
\* worker it took out of the agent to join; borrowed: the worker whose input
\* context it read; after: the stage behind a teardown.
Idle == [at |-> "idle", arg |-> Nobody, taken |-> NoWorker,
         borrowed |-> NoWorker, after |-> "idle"]

At(t, stage) == thread[t].at = stage
Goto(t, stage) == thread' = [thread EXCEPT ![t].at = stage]
Return(t) == thread' = [thread EXCEPT ![t] = Idle]
Call(t, then) ==
    thread' = [thread EXCEPT ![t].at = "teardown", ![t].after = then]

\* The stages between the first step of a teardown and the respawn.
Changing == {"teardown", "join", "start2", "spawn"}

\* A worker that ended and that no one can name any more is a fresh one.
Fresh(w) ==
    /\ wpc[w] \in {"unborn", "gone"}
    /\ worker # w /\ warm_until # w
    /\ \A t \in Threads : w \notin {thread[t].taken, thread[t].borrowed}

\* Bound: whoever may go on to spawn a worker finds one.
WorkerAvailable ==
    Cardinality({w \in Workers : Fresh(w)})
        > Cardinality({t \in Threads : thread[t].at \in Changing \union {"start"}})

Init ==
    /\ stop = FALSE /\ worker = NoWorker /\ worker_done = FALSE
    /\ remote_ip = Nobody /\ warm_until = NoWorker /\ input_ctx = NoWorker
    /\ quest_paired = FALSE
    /\ internet_sharing = FALSE /\ cloud_stream = FALSE /\ unpair_pending = FALSE
    /\ known = {} /\ auto_use = Nobody /\ selected = Nobody /\ blocked = Nobody
    /\ select_pending = FALSE /\ disconnect_req = FALSE /\ clicks = 0
    /\ Registry!PairingInit
    /\ thread = [t \in Threads |-> Idle]
    /\ wpc = [w \in Workers |-> "unborn"] /\ overlapped = FALSE

-----------------------------------------------------------------------------
(***************************************************************************)
(* Calls into the app.                                                     *)
(***************************************************************************)
UnpairPending_Kept(on) ==
    unpair_pending \/ (~on /\ (cloud_stream \/ internet_sharing))

\* The grace timer: cancelled by a pairing, armed by an unpair if there is a
\* share to hold.
UnpairPending(on) ==
    ~on /\ (unpair_pending \/ cloud_stream \/ internet_sharing)

\* bsdr_app_set_paired, as far as it holds the app's lock; see WishesShare for
\* its last call.
SetPaired(on) ==
    /\ quest_paired' = on
    /\ unpair_pending' = UnpairPending(on)
    /\ UNCHANGED <<internet_sharing, cloud_stream>>

\* unpair_finalize_locked, and the stream it hands out is stopped.
UnpairFinalize ==
    /\ cloud_stream' = FALSE
    /\ internet_sharing' = FALSE
    /\ unpair_pending' = FALSE

QuestAllowed(h) == blocked # h /\ selected \in {Nobody, h}

-----------------------------------------------------------------------------
(***************************************************************************)
(* teardown_session and spawn_worker_locked, for whoever calls them.       *)
(***************************************************************************)
StopAfterTeardown_Forgotten == stop
StopAfterTeardown == TRUE
WorkerAfterTeardown_Kept == worker
WorkerAfterTeardown == NoWorker

Teardown(t) ==
    /\ At(t, "teardown")
    /\ stop' = StopAfterTeardown
    /\ thread' = [thread EXCEPT ![t].taken = worker, ![t].at = "join"]
    /\ worker' = WorkerAfterTeardown
    /\ worker_done' = FALSE
    /\ overlapped' = IF \E u \in Threads \ {t} : thread[u].at \in Changing
                       THEN TRUE ELSE overlapped
    /\ UNCHANGED <<remote_ip, warm_until, input_ctx, app, operator, registry,
                   wpc>>

Joinable_Always(t) == TRUE
Joinable(t) == \A w \in Workers : thread[t].taken = w => wpc[w] = "gone"

Join(t) ==
    /\ At(t, "join")
    /\ Joinable(t)
    /\ IF thread[t].after = "idle"
         THEN Return(t)
         ELSE thread' = [thread EXCEPT ![t].at = thread[t].after, ![t].taken = NoWorker]
    /\ UNCHANGED <<agent, app, operator, registry, wpc, overlapped>>

Spawn(t) ==
    /\ At(t, "spawn")
    /\ \E w \in Workers :
          /\ Fresh(w)
          /\ wpc' = [wpc EXCEPT ![w] = "opening"]
          /\ worker' = w
    /\ stop' = FALSE
    /\ worker_done' = FALSE
    /\ remote_ip' = thread[t].arg
    /\ Return(t)
    /\ UNCHANGED <<warm_until, input_ctx, app, operator, registry, overlapped>>

-----------------------------------------------------------------------------
(***************************************************************************)
(* Requests of the headset, each decided under the control lock and then   *)
(* handed to its callback.                                                 *)
(***************************************************************************)
Request(t, h, first) ==
    /\ At(t, "idle")
    /\ thread' = [thread EXCEPT ![t].at = first, ![t].arg = h]
    /\ UNCHANGED <<agent, app, operator, wpc, overlapped>>

RequestPair(h) ==
    /\ QuestAllowed(h)
    /\ Registry!Pair(h)
    /\ UNCHANGED <<agent, app, operator, thread, wpc, overlapped>>

RequestStart(t, h) ==
    /\ Registry!StartSharing(h)
    /\ WorkerAvailable
    /\ Request(t, h, "start")

RequestStop(t, h) == Registry!StopSharing(h) /\ Request(t, h, "stop")

RequestUnpair(t, h) ==
    /\ paired = h
    /\ Registry!Forget
    /\ Request(t, h, "unpair")

\* PUT /device with isInternetSharing true or false.
RequestSettings(t, h, on) ==
    /\ Registry!ChangeSettings(h)
    /\ Request(t, h, IF on THEN "share" ELSE "unshare")

WarmStart(t) ==
    WarmResume /\ warm_until # NoWorker /\ worker # NoWorker /\ remote_ip = thread[t].arg

\* cb_start decides between a warm resume and a new session.
Start(t) ==
    /\ At(t, "start")
    /\ warm_until' = NoWorker
    /\ IF WarmStart(t)
         THEN thread' = [thread EXCEPT ![t].at = "warm", ![t].borrowed = input_ctx]
         ELSE Call(t, "start2")
    /\ UNCHANGED <<stop, worker, worker_done, remote_ip, input_ctx, app,
                   operator, registry, wpc, overlapped>>

StartPaired(t) ==
    /\ thread[t].at \in {"warm", "start2"}
    /\ SetPaired(TRUE)
    /\ Goto(t, IF At(t, "warm") THEN "reaccept" ELSE "spawn")
    /\ UNCHANGED <<agent, operator, registry, wpc, overlapped>>

\* ic->reaccept = 1, through the pointer read when the lock was held.
Reaccept(t) ==
    /\ At(t, "reaccept")
    /\ Return(t)
    /\ UNCHANGED <<agent, app, operator, registry, wpc, overlapped>>

\* cb_stop.
StopSharing(t) ==
    /\ At(t, "stop")
    /\ internet_sharing' = FALSE
    /\ Call(t, "idle")
    /\ UNCHANGED <<agent, quest_paired, cloud_stream, unpair_pending, operator,
                   registry, wpc, overlapped>>

\* cb_unpair.
Unpair(t) ==
    /\ At(t, "unpair")
    /\ SetPaired(FALSE)
    /\ Goto(t, "unpair2")
    /\ UNCHANGED <<agent, operator, registry, wpc, overlapped>>

UnpairKeepsWarm(t) ==
    /\ At(t, "unpair2")
    /\ IF WarmResume /\ worker # NoWorker
         THEN warm_until' = worker /\ Return(t)
         ELSE Call(t, "idle") /\ UNCHANGED warm_until
    /\ UNCHANGED <<stop, worker, worker_done, remote_ip, input_ctx, app,
                   operator, registry, wpc, overlapped>>

\* cb_settings, as far as it concerns sharing.
SettingsShare(t) ==
    /\ thread[t].at \in {"share", "unshare"}
    /\ internet_sharing' = At(t, "share")
    /\ Return(t)
    /\ UNCHANGED <<agent, quest_paired, cloud_stream, unpair_pending, operator,
                   registry, wpc, overlapped>>

-----------------------------------------------------------------------------
(***************************************************************************)
(* The operator, in the web UI, and discovery, which uses the first        *)
(* headset it sees as if the operator had.  An empty choice, Nobody, is    *)
(* "accept any".                                                           *)
(***************************************************************************)
SelectQuest(h) ==
    /\ selected' = h
    /\ IF h = Nobody
         THEN UNCHANGED <<blocked, select_pending>>
         ELSE /\ blocked' = IF blocked = h THEN Nobody ELSE blocked
              /\ select_pending' = TRUE

\* The discovery thread decides under the lock to Use the headset, and does so
\* under another hold of it.
QuestSeen(h) ==
    /\ auto_use = Nobody /\ h \notin known
    /\ known' = known \union {h}
    /\ auto_use' = IF selected = Nobody /\ blocked # h THEN h ELSE Nobody
    /\ UNCHANGED <<selected, blocked, select_pending, disconnect_req, clicks,
                   agent, app, registry, thread, wpc, overlapped>>

QuestUsed ==
    /\ auto_use # Nobody
    /\ SelectQuest(auto_use)
    /\ auto_use' = Nobody
    /\ UNCHANGED <<known, disconnect_req, clicks, agent, app, registry, thread,
                   wpc, overlapped>>

OperatorSelects(h) ==
    /\ clicks < MaxClicks
    /\ clicks' = clicks + 1
    /\ SelectQuest(h)
    /\ UNCHANGED <<known, auto_use, disconnect_req, agent, app, registry,
                   thread, wpc, overlapped>>

OperatorDisconnects ==
    /\ clicks < MaxClicks
    /\ clicks' = clicks + 1
    /\ disconnect_req' = TRUE
    /\ UNCHANGED <<known, auto_use, selected, blocked, select_pending, agent,
                   app, registry, thread, wpc, overlapped>>

\* Whoever asks for sharing or against it from outside a session: the switch
\* of the web UI; and, where the operator chose to share whenever a headset
\* pairs, maybe_auto_share, which bsdr_app_set_paired calls after it has
\* released the app's lock, so that its wish may come late.
WishesShare(on) ==
    /\ internet_sharing # on
    /\ internet_sharing' = on
    /\ UNCHANGED <<quest_paired, cloud_stream, unpair_pending, operator, agent,
                   registry, thread, wpc, overlapped>>

-----------------------------------------------------------------------------
(***************************************************************************)
(* The main loop.                                                          *)
(***************************************************************************)
\* select_gen, the choice and the session are read under three holds of two
\* locks.
MainSelects ==
    /\ At(Main, "idle") /\ select_pending
    /\ select_pending' = FALSE
    /\ Goto(Main, "select")
    /\ UNCHANGED <<agent, app, known, auto_use, selected, blocked,
                   disconnect_req, clicks, registry, wpc, overlapped>>

MainReadsChoice ==
    /\ At(Main, "select")
    /\ IF selected = Nobody
         THEN Return(Main)
         ELSE thread' = [thread EXCEPT ![Main] =
                [Idle EXCEPT !.at = "compare", !.arg = selected]]
    /\ UNCHANGED <<agent, app, operator, registry, wpc, overlapped>>

Restart(h) == h # remote_ip \/ worker = NoWorker \/ worker_done

MainCompares ==
    /\ At(Main, "compare")
    /\ IF Restart(thread[Main].arg)
         THEN WorkerAvailable /\ Call(Main, "start2")
         ELSE Return(Main)
    /\ UNCHANGED <<agent, app, operator, registry, wpc, overlapped>>

\* A worker whose capture died is joined so that it can be started again.
MainReaps ==
    /\ At(Main, "idle") /\ worker # NoWorker /\ worker_done
    /\ Call(Main, "idle")
    /\ UNCHANGED <<agent, app, operator, registry, wpc, overlapped>>

MainDisconnects ==
    /\ At(Main, "idle") /\ disconnect_req
    /\ disconnect_req' = FALSE
    /\ thread' = [thread EXCEPT ![Main].at = "disconnect2", ![Main].arg = remote_ip]
    /\ remote_ip' = Nobody
    /\ UNCHANGED <<stop, worker, worker_done, warm_until, input_ctx, app,
                   known, auto_use, selected, blocked, select_pending, clicks,
                   registry, wpc, overlapped>>

\* bsdr_control_force_unpair
MainForcesUnpair ==
    /\ At(Main, "disconnect2")
    /\ IF paired = Nobody THEN UNCHANGED registry ELSE Registry!Forget
    /\ Goto(Main, "disconnect3")
    /\ UNCHANGED <<agent, app, operator, wpc, overlapped>>

MainBlocks ==
    /\ At(Main, "disconnect3")
    /\ blocked' = IF thread[Main].arg = Nobody THEN blocked ELSE thread[Main].arg
    /\ Goto(Main, "disconnect4")
    /\ UNCHANGED <<agent, app, known, auto_use, selected, select_pending,
                   disconnect_req, clicks, registry, wpc, overlapped>>

MainUnpairs ==
    /\ At(Main, "disconnect4")
    /\ SetPaired(FALSE)
    /\ Goto(Main, "disconnect5")
    /\ UNCHANGED <<agent, operator, registry, wpc, overlapped>>

\* bsdr_app_unpair_now, then the teardown.
MainStopsShare ==
    /\ At(Main, "disconnect5")
    /\ UnpairFinalize
    /\ Call(Main, "idle")
    /\ UNCHANGED <<agent, quest_paired, operator, registry, wpc, overlapped>>

\* bsdr_app_unpair_grace_expired
MainGraceLapses ==
    /\ At(Main, "idle") /\ unpair_pending /\ ~quest_paired
    /\ UnpairFinalize
    /\ UNCHANGED <<agent, quest_paired, operator, registry, thread, wpc,
                   overlapped>>

MainWarmLapses ==
    /\ At(Main, "idle") /\ warm_until # NoWorker
    /\ warm_until' = NoWorker
    /\ Call(Main, "idle")
    /\ UNCHANGED <<stop, worker, worker_done, remote_ip, input_ctx, app,
                   operator, registry, wpc, overlapped>>

\* bsdr_app_cloud_tick, as far as the session is concerned: a wanted share
\* gets a stream.  CloudShare has the details.
MainStartsShare ==
    /\ At(Main, "idle") /\ internet_sharing /\ ~cloud_stream
    /\ cloud_stream' = TRUE
    /\ UNCHANGED <<agent, quest_paired, internet_sharing, unpair_pending,
                   operator, registry, thread, wpc, overlapped>>

\* bsdr_control_expire_stale returned true.
MainExpires ==
    /\ At(Main, "idle")
    /\ Registry!Forget
    /\ Goto(Main, "expired")
    /\ UNCHANGED <<agent, app, operator, wpc, overlapped>>

MainExpired ==
    /\ At(Main, "expired")
    /\ SetPaired(FALSE)
    /\ Call(Main, "idle")
    /\ UNCHANGED <<agent, operator, registry, wpc, overlapped>>

-----------------------------------------------------------------------------
(***************************************************************************)
(* The session worker: worker_main around lan_live_main.                   *)
(***************************************************************************)
\* The capture is open and the input thread runs on this worker's stack.
WorkerOpens(w) ==
    /\ wpc[w] = "opening"
    /\ wpc' = [wpc EXCEPT ![w] = "live"]
    /\ input_ctx' = w
    /\ UNCHANGED <<stop, worker, worker_done, remote_ip, warm_until, app,
                   operator, registry, thread, overlapped>>

\* The port is taken, or a stop arrived before any capture could be opened:
\* lan_live_main returns early.
WorkerFailsToOpen(w) ==
    /\ wpc[w] = "opening"
    /\ wpc' = [wpc EXCEPT ![w] = "ending"]
    /\ UNCHANGED <<agent, app, operator, registry, thread, overlapped>>

LeftInputCtx_Kept == input_ctx
LeftInputCtx == NoWorker

\* The loop ends on a stop or because the capture died; the input context is
\* withdrawn before the input thread is joined.
WorkerLeaves(w) ==
    /\ wpc[w] = "live"
    /\ wpc' = [wpc EXCEPT ![w] = IF stop THEN "stopped" ELSE "died"]
    /\ input_ctx' = LeftInputCtx
    /\ UNCHANGED <<stop, worker, worker_done, remote_ip, warm_until, app,
                   operator, registry, thread, overlapped>>

\* bsdr_app_lan_capture_dead, whichever of the two it was.
WorkerStopsShare(w) ==
    /\ wpc[w] \in {"stopped", "died"}
    /\ UnpairFinalize
    /\ wpc' = [wpc EXCEPT ![w] = "ending"]
    /\ UNCHANGED <<agent, quest_paired, operator, registry, thread,
                   overlapped>>

WorkerDone(w) ==
    /\ wpc[w] = "ending"
    /\ worker_done' = TRUE
    /\ wpc' = [wpc EXCEPT ![w] = "gone"]
    /\ UNCHANGED <<stop, worker, remote_ip, warm_until, input_ctx, app,
                   operator, registry, thread, overlapped>>

-----------------------------------------------------------------------------
Headset ==
    \E h \in Headsets :
        \/ RequestPair(h)
        \/ \E t \in Conns : RequestStart(t, h)
        \/ \E t \in Conns : RequestStop(t, h)
        \/ \E t \in Conns : RequestUnpair(t, h)
        \/ \E t \in Conns, on \in BOOLEAN : RequestSettings(t, h, on)

Callback(t) ==
    \/ Start(t) \/ StartPaired(t) \/ Reaccept(t)
    \/ StopSharing(t)
    \/ Unpair(t) \/ UnpairKeepsWarm(t)
    \/ SettingsShare(t)
    \/ Teardown(t) \/ Join(t) \/ Spawn(t)

Operator ==
    \/ \E h \in Headsets : QuestSeen(h)
    \/ QuestUsed
    \/ \E h \in Headsets \union {Nobody} : OperatorSelects(h)
    \/ OperatorDisconnects
    \/ \E on \in BOOLEAN : WishesShare(on)

MainStage ==
    \/ MainSelects \/ MainReadsChoice \/ MainCompares \/ MainReaps
    \/ MainDisconnects \/ MainForcesUnpair \/ MainBlocks \/ MainUnpairs
    \/ MainStopsShare
    \/ MainGraceLapses \/ MainWarmLapses
    \/ MainStartsShare
    \/ MainExpires \/ MainExpired

Worker(w) ==
    \/ WorkerOpens(w) \/ WorkerFailsToOpen(w) \/ WorkerLeaves(w)
    \/ WorkerStopsShare(w) \/ WorkerDone(w)

Next ==
    \/ Headset \/ Operator \/ MainStage
    \/ \E t \in Threads : Callback(t)
    \/ \E w \in Workers : Worker(w)

Spec == Init /\ [][Next]_vars

\* A join returns once its worker has ended, and a worker that was told to
\* stop, or whose capture died, goes on to its end.  Nothing is assumed of
\* headsets, of the operator, of captures, or of what else a thread gets to.
FairSpec ==
    /\ Spec
    /\ \A t \in Threads : WF_vars(Join(t))
    /\ \A w \in Workers :
          WF_vars((wpc[w] \in {"opening", "live"} => stop) /\ Worker(w))

-----------------------------------------------------------------------------
(***************************************************************************)
(* Properties.                                                             *)
(***************************************************************************)
Stages == {"idle", "start", "warm", "reaccept", "start2", "spawn", "stop",
           "unpair", "unpair2", "share", "unshare", "teardown", "join",
           "select", "compare", "disconnect2", "disconnect3", "disconnect4",
           "disconnect5", "expired"}
WorkerStages == {"unborn", "opening", "live", "stopped", "died", "ending", "gone"}

AgentOK ==
    /\ stop \in BOOLEAN /\ worker_done \in BOOLEAN /\ overlapped \in BOOLEAN
    /\ worker \in Workers \union {NoWorker}
    /\ warm_until \in Workers \union {NoWorker}
    /\ input_ctx \in Workers \union {NoWorker}
    /\ remote_ip \in Headsets \union {Nobody}
    /\ wpc \in [Workers -> WorkerStages]

AppOK ==
    /\ quest_paired \in BOOLEAN
    /\ internet_sharing \in BOOLEAN /\ cloud_stream \in BOOLEAN
    /\ unpair_pending \in BOOLEAN
    /\ known \subseteq Headsets /\ auto_use \in Headsets \union {Nobody}
    /\ clicks \in 0 .. MaxClicks
    /\ selected \in Headsets \union {Nobody} /\ blocked \in Headsets \union {Nobody}
    /\ select_pending \in BOOLEAN /\ disconnect_req \in BOOLEAN
    /\ paired \in Headsets \union {Nobody} /\ sharing \in BOOLEAN

\* A thread on its way to a session knows the headset the session is for.
ThreadsOK ==
    /\ thread \in [Threads ->
           [at : Stages, arg : Headsets \union {Nobody},
            taken : Workers \union {NoWorker}, borrowed : Workers \union {NoWorker},
            after : {"idle", "start2"}]]
    /\ \A t \in Threads :
           \/ thread[t].at \in {"start", "warm", "compare", "start2", "spawn"}
           \/ thread[t].at \in {"teardown", "join"} /\ thread[t].after = "start2"
           => thread[t].arg \in Headsets

TypeOK == AgentOK /\ AppOK /\ ThreadsOK

Alive(w) == wpc[w] \notin {"unborn", "gone"}

\* A worker is joined once: no two threads hold the same one to join it, and
\* none of them is still the current worker, however teardowns interleave.
JoinedOnce ==
    \A t \in Threads : thread[t].taken # NoWorker =>
        /\ worker # thread[t].taken
        /\ \A u \in Threads \ {t} : thread[u].taken # thread[t].taken

\* The published input context is always that of a worker whose loop still
\* runs: it lives on that worker's stack.
InputCtxLive == input_ctx # NoWorker => wpc[input_ctx] = "live"

\* The relay is on its grace timer only while no headset is paired, so the
\* timer never stops the share of a headset that came back.
GraceOnlyUnpaired == unpair_pending => ~quest_paired

\* As long as no two threads have been changing the session at once, there is
\* one worker, and whoever is to join it can find it.
OneWorkerUnlessOverlap ==
    ~overlapped =>
        \A w \in Workers : Alive(w) =>
            /\ worker = w \/ \E t \in Threads : thread[t].taken = w
            /\ \A v \in Workers : Alive(v) => v = w

\* As long as no two threads have been changing the session at once, a
\* teardown finishes: the worker it waits for ends.
TeardownEnds ==
    \A t \in Threads : (At(t, "join") /\ ~overlapped) ~> (~At(t, "join") \/ overlapped)

\* src/src/cloud_stream.c: "the LAN path owns the single nvenc encoder ...
\* Opening a second encoder ... starved the LAN encoder and crashed the
\* Quest": one LAN worker at a time has its capture and encoder open.
OneEncoder == Cardinality({w \in Workers : wpc[w] = "live"}) <= 1

\* src/include/bsdr/app.h: "a quick unpair/re-pair (or a transient heartbeat
\* gap) keeps the internet-share stream alive": a share on its grace timer is
\* stopped by the timer or by the operator's disconnect, unless the capture
\* itself died.
GraceHoldsShare ==
    [][unpair_pending /\ cloud_stream /\ ~cloud_stream' =>
          \/ MainGraceLapses \/ MainStopsShare
          \/ \E w \in Workers : wpc[w] = "died" /\ WorkerStopsShare(w)]_vars

\* src/src/agent.c withdraws the input context because it is "about to go out
\* of scope": nobody writes through it once lan_live_main has returned.
ReacceptInScope ==
    \A t \in Threads :
        At(t, "reaccept") /\ thread[t].borrowed # NoWorker =>
            wpc[thread[t].borrowed] \in {"live", "stopped", "died"}
=============================================================================
