------------------------- MODULE LanSession_proofs -------------------------
(***************************************************************************)
(* Proofs about LanSession: for any number of headsets, connection threads *)
(* and workers, and any number of operator clicks.                         *)
(***************************************************************************)
EXTENDS LanSession, TLAPS

\* A thread that has a worker to join, or goes on to spawn one.
Crit(t) == thread[t].at \in {"join", "start2", "spawn"}

\* A thread holds a worker only to join it.
TakenInv == \A t \in Threads : thread[t].taken # NoWorker => At(t, "join")

\* As long as no two threads overlapped, the worker passes through the hands
\* of one thread at a time.
HandoverInv ==
    ~overlapped =>
        /\ \A t, u \in Threads : Crit(t) /\ Crit(u) => t = u
        /\ \A t \in Threads : Crit(t) => worker = NoWorker
        /\ \A t \in Threads : thread[t].at \in {"start2", "spawn"} =>
               \A w \in Workers : ~Alive(w)
        /\ \A w \in Workers : Alive(w) =>
               worker = w \/ \E t \in Threads : thread[t].taken = w

SessionInv ==
    /\ TypeOK /\ TakenInv
    /\ JoinedOnce /\ InputCtxLive /\ GraceOnlyUnpaired
    /\ HandoverInv

LEMMA InitSessionInv == Init => SessionInv
<1> SUFFICES ASSUME Init PROVE SessionInv
  OBVIOUS
<1>1. \A t \in Threads : thread[t] = Idle
  BY DEF Init
<1>2. AgentOK
  BY DEF Init, AgentOK, WorkerStages
<1>3. AppOK
  <2>1. 0 \in 0 .. MaxClicks
    BY OptionsAssumption
  <2>2. paired = Nobody /\ sharing = FALSE
    BY DEF Init, Registry!PairingInit
  <2> QED BY <2>1, <2>2 DEF Init, AppOK
<1>4. ThreadsOK
  BY DEF Init, ThreadsOK, Idle, Stages
<1> QED
  BY <1>1, <1>2, <1>3, <1>4
     DEF Init, SessionInv, TypeOK, TakenInv, JoinedOnce, InputCtxLive, GraceOnlyUnpaired,
         HandoverInv, Crit, At, Alive, Idle

-----------------------------------------------------------------------------
(***************************************************************************)
(* Most steps hand no worker over.                                         *)
(***************************************************************************)
SameHandover ==
    /\ UNCHANGED <<worker, wpc, input_ctx, overlapped>>
    /\ \A t \in Threads :
          /\ thread'[t].taken = thread[t].taken
          /\ thread'[t].at = "join" <=> thread[t].at = "join"
          /\ thread'[t].at \in {"start2", "spawn"} <=> thread[t].at \in {"start2", "spawn"}

LEMMA SameHandoverKeeps ==
    ASSUME SessionInv, SameHandover, TypeOK', TakenInv', GraceOnlyUnpaired'
    PROVE  SessionInv'
<1>1. \A t \in Threads : Crit(t)' <=> Crit(t)
  BY DEF SameHandover, Crit
<1>2. \A w \in Workers : Alive(w)' <=> Alive(w)
  BY DEF SameHandover, Alive
<1>3. JoinedOnce' /\ InputCtxLive'
  BY DEF SessionInv, SameHandover, JoinedOnce, InputCtxLive
<1>4. HandoverInv'
  BY <1>1, <1>2 DEF SessionInv, SameHandover, HandoverInv
<1> QED BY <1>3, <1>4 DEF SessionInv

\* A thread's locals may become r.
ThreadRecord(r) ==
    /\ r \in [at : Stages, arg : Headsets \union {Nobody},
              taken : Workers \union {NoWorker}, borrowed : Workers \union {NoWorker},
              after : {"idle", "start2"}]
    /\ \/ r.at \in {"start", "warm", "compare", "start2", "spawn"}
       \/ r.at \in {"teardown", "join"} /\ r.after = "start2"
       => r.arg \in Headsets

LEMMA ThreadMoves ==
    ASSUME ThreadsOK, NEW t \in Threads, NEW r, ThreadRecord(r),
           thread' = [thread EXCEPT ![t] = r]
    PROVE  ThreadsOK'
BY DEF ThreadsOK, ThreadRecord

LEMMA RequestPairKeeps ==
    ASSUME SessionInv, NEW h \in Headsets, RequestPair(h)
    PROVE  SessionInv'
<1>1. AgentOK'
  BY DEF SessionInv, TypeOK, AgentOK, RequestPair, Registry!Pair, agent, app,
         operator, registry
<1>2. AppOK'
  BY OptionsAssumption
     DEF SessionInv, TypeOK, AppOK, ThreadsOK, At, RequestPair, Registry!Pair,
         agent, share, app, operator, registry, Threads
<1>3. ThreadsOK'
  BY NullsAssumption
     DEF SessionInv, TypeOK, AgentOK, AppOK, ThreadsOK, At, RequestPair,
         Registry!Pair, Threads, Stages
<1>4. TakenInv' /\ SameHandover
  BY DEF SessionInv, TypeOK, ThreadsOK, TakenInv, SameHandover, At, RequestPair,
         Registry!Pair, agent, share, app, operator, registry, Threads, Stages
<1>5. GraceOnlyUnpaired'
  BY DEF SessionInv, TypeOK, AppOK, GraceOnlyUnpaired, RequestPair,
         Registry!Pair, agent, share, app, operator, registry
<1> QED BY <1>1, <1>2, <1>3, <1>4, <1>5, SameHandoverKeeps DEF TypeOK

LEMMA RequestStartKeeps ==
    ASSUME SessionInv, NEW t \in Conns, NEW h \in Headsets, RequestStart(t, h)
    PROVE  SessionInv'
<1>1. AgentOK'
  BY DEF SessionInv, TypeOK, AgentOK, RequestStart, Request,
         Registry!StartSharing, agent, app, operator, registry
<1>2. AppOK'
  BY OptionsAssumption
     DEF SessionInv, TypeOK, AppOK, ThreadsOK, At, RequestStart, Request,
         Registry!StartSharing, agent, share, app, operator, registry, Threads
<1>3. ThreadsOK'
  <2>1. /\ t \in Threads
        /\ thread' = [thread EXCEPT ![t] = [thread[t] EXCEPT !.at = "start", !.arg = h]]
    BY DEF RequestStart, Request, Registry!StartSharing, Threads
  <2>2. thread[t] \in [at : Stages, arg : Headsets \union {Nobody},
              taken : Workers \union {NoWorker}, borrowed : Workers \union {NoWorker},
              after : {"idle", "start2"}]
    BY <2>1 DEF SessionInv, TypeOK, ThreadsOK
  <2>3. ThreadRecord([thread[t] EXCEPT !.at = "start", !.arg = h])
    BY <2>2 DEF SessionInv, TypeOK, AgentOK, ThreadRecord, Stages
  <2> QED BY <2>1, <2>3, ThreadMoves DEF SessionInv, TypeOK
<1>4. TakenInv' /\ SameHandover
  BY DEF SessionInv, TypeOK, ThreadsOK, TakenInv, SameHandover, At,
         RequestStart, Request, Registry!StartSharing, agent, share, app,
         operator, registry, Threads, Stages
<1>5. GraceOnlyUnpaired'
  BY DEF SessionInv, TypeOK, AppOK, GraceOnlyUnpaired, RequestStart, Request,
         Registry!StartSharing, agent, share, app, operator, registry
<1> QED BY <1>1, <1>2, <1>3, <1>4, <1>5, SameHandoverKeeps DEF TypeOK

LEMMA RequestStopKeeps ==
    ASSUME SessionInv, NEW t \in Conns, NEW h \in Headsets, RequestStop(t, h)
    PROVE  SessionInv'
<1>1. AgentOK'
  BY DEF SessionInv, TypeOK, AgentOK, RequestStop, Request,
         Registry!StopSharing, agent, app, operator, registry
<1>2. AppOK'
  BY OptionsAssumption
     DEF SessionInv, TypeOK, AppOK, ThreadsOK, At, RequestStop, Request,
         Registry!StopSharing, agent, share, app, operator, registry, Threads
<1>3. ThreadsOK'
  <2>1. /\ t \in Threads
        /\ thread' = [thread EXCEPT ![t] = [thread[t] EXCEPT !.at = "stop", !.arg = h]]
    BY DEF RequestStop, Request, Registry!StopSharing, Threads
  <2>2. thread[t] \in [at : Stages, arg : Headsets \union {Nobody},
              taken : Workers \union {NoWorker}, borrowed : Workers \union {NoWorker},
              after : {"idle", "start2"}]
    BY <2>1 DEF SessionInv, TypeOK, ThreadsOK
  <2>3. ThreadRecord([thread[t] EXCEPT !.at = "stop", !.arg = h])
    BY <2>2 DEF SessionInv, TypeOK, AgentOK, ThreadRecord, Stages
  <2> QED BY <2>1, <2>3, ThreadMoves DEF SessionInv, TypeOK
<1>4. TakenInv' /\ SameHandover
  BY DEF SessionInv, TypeOK, ThreadsOK, TakenInv, SameHandover, At, RequestStop,
         Request, Registry!StopSharing, agent, share, app, operator, registry,
         Threads, Stages
<1>5. GraceOnlyUnpaired'
  BY DEF SessionInv, TypeOK, AppOK, GraceOnlyUnpaired, RequestStop, Request,
         Registry!StopSharing, agent, share, app, operator, registry
<1> QED BY <1>1, <1>2, <1>3, <1>4, <1>5, SameHandoverKeeps DEF TypeOK

LEMMA RequestUnpairKeeps ==
    ASSUME SessionInv, NEW t \in Conns, NEW h \in Headsets, RequestUnpair(t, h)
    PROVE  SessionInv'
<1>1. AgentOK'
  BY DEF SessionInv, TypeOK, AgentOK, RequestUnpair, Request, Registry!Forget,
         agent, app, operator, registry
<1>2. AppOK'
  BY OptionsAssumption
     DEF SessionInv, TypeOK, AppOK, ThreadsOK, At, RequestUnpair, Request,
         Registry!Forget, agent, share, app, operator, registry, Threads
<1>3. ThreadsOK'
  <2>1. /\ t \in Threads
        /\ thread' = [thread EXCEPT ![t] = [thread[t] EXCEPT !.at = "unpair", !.arg = h]]
    BY DEF RequestUnpair, Request, Registry!Forget, Threads
  <2>2. thread[t] \in [at : Stages, arg : Headsets \union {Nobody},
              taken : Workers \union {NoWorker}, borrowed : Workers \union {NoWorker},
              after : {"idle", "start2"}]
    BY <2>1 DEF SessionInv, TypeOK, ThreadsOK
  <2>3. ThreadRecord([thread[t] EXCEPT !.at = "unpair", !.arg = h])
    BY <2>2 DEF SessionInv, TypeOK, AgentOK, ThreadRecord, Stages
  <2> QED BY <2>1, <2>3, ThreadMoves DEF SessionInv, TypeOK
<1>4. TakenInv' /\ SameHandover
  BY DEF SessionInv, TypeOK, ThreadsOK, TakenInv, SameHandover, At,
         RequestUnpair, Request, Registry!Forget, agent, share, app, operator,
         registry, Threads, Stages
<1>5. GraceOnlyUnpaired'
  BY DEF SessionInv, TypeOK, AppOK, GraceOnlyUnpaired, RequestUnpair, Request,
         Registry!Forget, agent, share, app, operator, registry
<1> QED BY <1>1, <1>2, <1>3, <1>4, <1>5, SameHandoverKeeps DEF TypeOK

LEMMA RequestSettingsKeeps ==
    ASSUME SessionInv, NEW t \in Conns, NEW h \in Headsets, NEW on \in BOOLEAN,
           RequestSettings(t, h, on)
    PROVE  SessionInv'
<1>1. AgentOK'
  BY DEF SessionInv, TypeOK, AgentOK, RequestSettings, Request,
         Registry!ChangeSettings, Registry!pairingVars, agent, app, operator,
         registry
<1>2. AppOK'
  BY OptionsAssumption
     DEF SessionInv, TypeOK, AppOK, ThreadsOK, At, RequestSettings, Request,
         Registry!ChangeSettings, Registry!pairingVars, agent, share, app,
         operator, registry, Threads
<1>3. ThreadsOK'
  <2>1. /\ t \in Threads
        /\ thread' = [thread EXCEPT ![t] =
              [thread[t] EXCEPT !.at = IF on THEN "share" ELSE "unshare", !.arg = h]]
    BY DEF RequestSettings, Request, Registry!ChangeSettings,
           Registry!pairingVars, Threads
  <2>2. thread[t] \in [at : Stages, arg : Headsets \union {Nobody},
              taken : Workers \union {NoWorker}, borrowed : Workers \union {NoWorker},
              after : {"idle", "start2"}]
    BY <2>1 DEF SessionInv, TypeOK, ThreadsOK
  <2>3. ThreadRecord([thread[t] EXCEPT !.at = IF on THEN "share" ELSE "unshare", !.arg = h])
    BY <2>2 DEF SessionInv, TypeOK, AgentOK, ThreadRecord, Stages
  <2> QED BY <2>1, <2>3, ThreadMoves DEF SessionInv, TypeOK
<1>4. TakenInv' /\ SameHandover
  BY DEF SessionInv, TypeOK, ThreadsOK, TakenInv, SameHandover, At,
         RequestSettings, Request, Registry!ChangeSettings,
         Registry!pairingVars, agent, share, app, operator, registry, Threads,
         Stages
<1>5. GraceOnlyUnpaired'
  BY DEF SessionInv, TypeOK, AppOK, GraceOnlyUnpaired, RequestSettings, Request,
         Registry!ChangeSettings, Registry!pairingVars, agent, share, app,
         operator, registry
<1> QED BY <1>1, <1>2, <1>3, <1>4, <1>5, SameHandoverKeeps DEF TypeOK

LEMMA StartKeeps ==
    ASSUME SessionInv, NEW t \in Threads, Start(t)
    PROVE  SessionInv'
<1>1. AgentOK'
  BY DEF SessionInv, TypeOK, AgentOK, Start, Call, agent, app, operator,
         registry
<1>2. AppOK'
  BY OptionsAssumption
     DEF SessionInv, TypeOK, AppOK, ThreadsOK, At, Start, Call, agent, share,
         app, operator, registry, Threads
<1>3. ThreadsOK'
  BY NullsAssumption
     DEF SessionInv, TypeOK, AgentOK, AppOK, ThreadsOK, At, Start, Call,
         Threads, Stages
<1>4. TakenInv' /\ SameHandover
  BY DEF SessionInv, TypeOK, ThreadsOK, TakenInv, SameHandover, At, Start, Call,
         agent, share, app, operator, registry, Threads, Stages
<1>5. GraceOnlyUnpaired'
  BY DEF SessionInv, TypeOK, AppOK, GraceOnlyUnpaired, Start, Call,
         agent, share, app, operator, registry
<1> QED BY <1>1, <1>2, <1>3, <1>4, <1>5, SameHandoverKeeps DEF TypeOK

LEMMA StartPairedKeeps ==
    ASSUME SessionInv, NEW t \in Threads, StartPaired(t)
    PROVE  SessionInv'
<1>1. AgentOK'
  BY DEF SessionInv, TypeOK, AgentOK, StartPaired, SetPaired, UnpairPending,
         Goto, agent, app, operator, registry
<1>2. AppOK'
  BY OptionsAssumption
     DEF SessionInv, TypeOK, AppOK, ThreadsOK, At, StartPaired, SetPaired,
         UnpairPending, Goto, agent, share, app, operator, registry, Threads
<1>3. ThreadsOK'
  BY NullsAssumption
     DEF SessionInv, TypeOK, AgentOK, AppOK, ThreadsOK, At, StartPaired,
         SetPaired, UnpairPending, Goto, Threads, Stages
<1>4. TakenInv' /\ SameHandover
  BY DEF SessionInv, TypeOK, ThreadsOK, TakenInv, SameHandover, At, StartPaired,
         SetPaired, UnpairPending, Goto, agent, share, app, operator, registry,
         Threads, Stages
<1>5. GraceOnlyUnpaired'
  BY DEF SessionInv, TypeOK, AppOK, GraceOnlyUnpaired, StartPaired, SetPaired,
         UnpairPending, Goto, agent, share, app, operator, registry
<1> QED BY <1>1, <1>2, <1>3, <1>4, <1>5, SameHandoverKeeps DEF TypeOK

LEMMA ReacceptKeeps ==
    ASSUME SessionInv, NEW t \in Threads, Reaccept(t)
    PROVE  SessionInv'
<1>1. AgentOK'
  BY DEF SessionInv, TypeOK, AgentOK, Reaccept, Return, Idle, agent, app,
         operator, registry
<1>2. AppOK'
  BY OptionsAssumption
     DEF SessionInv, TypeOK, AppOK, ThreadsOK, At, Reaccept, Return, Idle,
         agent, share, app, operator, registry, Threads
<1>3. ThreadsOK'
  BY NullsAssumption
     DEF SessionInv, TypeOK, AgentOK, AppOK, ThreadsOK, At, Reaccept, Return,
         Idle, Threads, Stages
<1>4. TakenInv' /\ SameHandover
  BY DEF SessionInv, TypeOK, ThreadsOK, TakenInv, SameHandover, At, Reaccept,
         Return, Idle, agent, share, app, operator, registry, Threads, Stages
<1>5. GraceOnlyUnpaired'
  BY DEF SessionInv, TypeOK, AppOK, GraceOnlyUnpaired, Reaccept, Return, Idle,
         agent, share, app, operator, registry
<1> QED BY <1>1, <1>2, <1>3, <1>4, <1>5, SameHandoverKeeps DEF TypeOK

LEMMA StopSharingKeeps ==
    ASSUME SessionInv, NEW t \in Threads, StopSharing(t)
    PROVE  SessionInv'
<1>1. AgentOK'
  BY DEF SessionInv, TypeOK, AgentOK, StopSharing, Call, agent, app, operator,
         registry
<1>2. AppOK'
  BY OptionsAssumption
     DEF SessionInv, TypeOK, AppOK, ThreadsOK, At, StopSharing, Call, agent,
         share, app, operator, registry, Threads
<1>3. ThreadsOK'
  BY NullsAssumption
     DEF SessionInv, TypeOK, AgentOK, AppOK, ThreadsOK, At, StopSharing, Call,
         Threads, Stages
<1>4. TakenInv' /\ SameHandover
  BY DEF SessionInv, TypeOK, ThreadsOK, TakenInv, SameHandover, At, StopSharing,
         Call, agent, share, app, operator, registry, Threads, Stages
<1>5. GraceOnlyUnpaired'
  BY DEF SessionInv, TypeOK, AppOK, GraceOnlyUnpaired, StopSharing, Call,
         agent, share, app, operator, registry
<1> QED BY <1>1, <1>2, <1>3, <1>4, <1>5, SameHandoverKeeps DEF TypeOK

LEMMA UnpairKeeps ==
    ASSUME SessionInv, NEW t \in Threads, Unpair(t)
    PROVE  SessionInv'
<1>1. AgentOK'
  BY DEF SessionInv, TypeOK, AgentOK, Unpair, SetPaired, UnpairPending, Goto,
         agent, app, operator, registry
<1>2. AppOK'
  BY OptionsAssumption
     DEF SessionInv, TypeOK, AppOK, ThreadsOK, At, Unpair, SetPaired,
         UnpairPending, Goto, agent, share, app, operator, registry, Threads
<1>3. ThreadsOK'
  BY NullsAssumption
     DEF SessionInv, TypeOK, AgentOK, AppOK, ThreadsOK, At, Unpair, SetPaired,
         UnpairPending, Goto, Threads, Stages
<1>4. TakenInv' /\ SameHandover
  BY DEF SessionInv, TypeOK, ThreadsOK, TakenInv, SameHandover, At, Unpair,
         SetPaired, UnpairPending, Goto, agent, share, app, operator, registry,
         Threads, Stages
<1>5. GraceOnlyUnpaired'
  BY DEF SessionInv, TypeOK, AppOK, GraceOnlyUnpaired, Unpair, SetPaired,
         UnpairPending, Goto, agent, share, app, operator, registry
<1> QED BY <1>1, <1>2, <1>3, <1>4, <1>5, SameHandoverKeeps DEF TypeOK

LEMMA UnpairKeepsWarmKeeps ==
    ASSUME SessionInv, NEW t \in Threads, UnpairKeepsWarm(t)
    PROVE  SessionInv'
<1>1. AgentOK'
  BY DEF SessionInv, TypeOK, AgentOK, UnpairKeepsWarm, Return, Idle, Call,
         agent, app, operator, registry
<1>2. AppOK'
  BY OptionsAssumption
     DEF SessionInv, TypeOK, AppOK, ThreadsOK, At, UnpairKeepsWarm, Return,
         Idle, Call, agent, share, app, operator, registry, Threads
<1>3. ThreadsOK'
  BY NullsAssumption
     DEF SessionInv, TypeOK, AgentOK, AppOK, ThreadsOK, At, UnpairKeepsWarm,
         Return, Idle, Call, Threads, Stages
<1>4. TakenInv' /\ SameHandover
  BY DEF SessionInv, TypeOK, ThreadsOK, TakenInv, SameHandover, At,
         UnpairKeepsWarm, Return, Idle, Call, agent, share, app, operator,
         registry, Threads, Stages
<1>5. GraceOnlyUnpaired'
  BY DEF SessionInv, TypeOK, AppOK, GraceOnlyUnpaired, UnpairKeepsWarm, Return,
         Idle, Call, agent, share, app, operator, registry
<1> QED BY <1>1, <1>2, <1>3, <1>4, <1>5, SameHandoverKeeps DEF TypeOK

LEMMA SettingsShareKeeps ==
    ASSUME SessionInv, NEW t \in Threads, SettingsShare(t)
    PROVE  SessionInv'
<1>1. AgentOK'
  BY DEF SessionInv, TypeOK, AgentOK, SettingsShare, Return, Idle, agent, app,
         operator, registry
<1>2. AppOK'
  BY OptionsAssumption
     DEF SessionInv, TypeOK, AppOK, ThreadsOK, At, SettingsShare, Return, Idle,
         agent, share, app, operator, registry, Threads
<1>3. ThreadsOK'
  BY NullsAssumption
     DEF SessionInv, TypeOK, AgentOK, AppOK, ThreadsOK, At, SettingsShare,
         Return, Idle, Threads, Stages
<1>4. TakenInv' /\ SameHandover
  BY DEF SessionInv, TypeOK, ThreadsOK, TakenInv, SameHandover, At,
         SettingsShare, Return, Idle, agent, share, app, operator, registry,
         Threads, Stages
<1>5. GraceOnlyUnpaired'
  BY DEF SessionInv, TypeOK, AppOK, GraceOnlyUnpaired, SettingsShare, Return,
         Idle, agent, share, app, operator, registry
<1> QED BY <1>1, <1>2, <1>3, <1>4, <1>5, SameHandoverKeeps DEF TypeOK

LEMMA QuestSeenKeeps ==
    ASSUME SessionInv, NEW h \in Headsets, QuestSeen(h)
    PROVE  SessionInv'
<1>1. AgentOK'
  BY DEF SessionInv, TypeOK, AgentOK, QuestSeen, SelectQuest, agent, app,
         operator, registry
<1>2. AppOK'
  BY OptionsAssumption
     DEF SessionInv, TypeOK, AppOK, ThreadsOK, At, QuestSeen, SelectQuest,
         agent, share, app, operator, registry, Threads
<1>3. ThreadsOK'
  BY NullsAssumption
     DEF SessionInv, TypeOK, AgentOK, AppOK, ThreadsOK, At, QuestSeen,
         SelectQuest, Threads, Stages
<1>4. TakenInv' /\ SameHandover
  BY DEF SessionInv, TypeOK, ThreadsOK, TakenInv, SameHandover, At, QuestSeen,
         SelectQuest, agent, share, app, operator, registry, Threads, Stages
<1>5. GraceOnlyUnpaired'
  BY DEF SessionInv, TypeOK, AppOK, GraceOnlyUnpaired, QuestSeen, SelectQuest,
         agent, share, app, operator, registry
<1> QED BY <1>1, <1>2, <1>3, <1>4, <1>5, SameHandoverKeeps DEF TypeOK

LEMMA QuestUsedKeeps ==
    ASSUME SessionInv, QuestUsed
    PROVE  SessionInv'
<1>1. AgentOK'
  BY DEF SessionInv, TypeOK, AgentOK, QuestUsed, SelectQuest, agent, app,
         operator, registry
<1>2. AppOK'
  BY OptionsAssumption
     DEF SessionInv, TypeOK, AppOK, ThreadsOK, At, QuestUsed, SelectQuest,
         agent, share, app, operator, registry, Threads
<1>3. ThreadsOK'
  BY NullsAssumption
     DEF SessionInv, TypeOK, AgentOK, AppOK, ThreadsOK, At, QuestUsed,
         SelectQuest, Threads, Stages
<1>4. TakenInv' /\ SameHandover
  BY DEF SessionInv, TypeOK, ThreadsOK, TakenInv, SameHandover, At, QuestUsed,
         SelectQuest, agent, share, app, operator, registry, Threads, Stages
<1>5. GraceOnlyUnpaired'
  BY DEF SessionInv, TypeOK, AppOK, GraceOnlyUnpaired, QuestUsed, SelectQuest,
         agent, share, app, operator, registry
<1> QED BY <1>1, <1>2, <1>3, <1>4, <1>5, SameHandoverKeeps DEF TypeOK

LEMMA OperatorSelectsKeeps ==
    ASSUME SessionInv, NEW h \in Headsets \union {Nobody}, OperatorSelects(h)
    PROVE  SessionInv'
<1>1. AgentOK'
  BY DEF SessionInv, TypeOK, AgentOK, OperatorSelects, SelectQuest, agent, app,
         operator, registry
<1>2. AppOK'
  <2>1. /\ selected' = h /\ blocked' \in {blocked, Nobody}
        /\ select_pending' \in BOOLEAN
    BY DEF SessionInv, TypeOK, AppOK, OperatorSelects, SelectQuest
  <2>2. /\ UNCHANGED <<known, auto_use, disconnect_req, app, registry>>
        /\ clicks' = clicks + 1 /\ clicks < MaxClicks
    BY DEF OperatorSelects
  <2>3. clicks' \in 0 .. MaxClicks
    BY <2>2, OptionsAssumption DEF SessionInv, TypeOK, AppOK
  <2> QED BY <2>1, <2>2, <2>3 DEF SessionInv, TypeOK, AppOK, app, share, registry
<1>3. ThreadsOK'
  BY NullsAssumption
     DEF SessionInv, TypeOK, AgentOK, AppOK, ThreadsOK, At, OperatorSelects,
         SelectQuest, Threads, Stages
<1>4. TakenInv' /\ SameHandover
  BY DEF SessionInv, TypeOK, ThreadsOK, TakenInv, SameHandover, At,
         OperatorSelects, SelectQuest, agent, share, app, operator, registry,
         Threads, Stages
<1>5. GraceOnlyUnpaired'
  BY DEF SessionInv, TypeOK, AppOK, GraceOnlyUnpaired, OperatorSelects,
         SelectQuest, agent, share, app, operator, registry
<1> QED BY <1>1, <1>2, <1>3, <1>4, <1>5, SameHandoverKeeps DEF TypeOK

LEMMA OperatorDisconnectsKeeps ==
    ASSUME SessionInv, OperatorDisconnects
    PROVE  SessionInv'
<1>1. AgentOK'
  BY DEF SessionInv, TypeOK, AgentOK, OperatorDisconnects, agent, app, operator,
         registry
<1>2. AppOK'
  BY OptionsAssumption
     DEF SessionInv, TypeOK, AppOK, ThreadsOK, At, OperatorDisconnects, agent,
         share, app, operator, registry, Threads
<1>3. ThreadsOK'
  BY NullsAssumption
     DEF SessionInv, TypeOK, AgentOK, AppOK, ThreadsOK, At, OperatorDisconnects,
         Threads, Stages
<1>4. TakenInv' /\ SameHandover
  BY DEF SessionInv, TypeOK, ThreadsOK, TakenInv, SameHandover, At,
         OperatorDisconnects, agent, share, app, operator, registry, Threads,
         Stages
<1>5. GraceOnlyUnpaired'
  BY DEF SessionInv, TypeOK, AppOK, GraceOnlyUnpaired, OperatorDisconnects,
         agent, share, app, operator, registry
<1> QED BY <1>1, <1>2, <1>3, <1>4, <1>5, SameHandoverKeeps DEF TypeOK

LEMMA WishesShareKeeps ==
    ASSUME SessionInv, NEW on \in BOOLEAN, WishesShare(on)
    PROVE  SessionInv'
<1>1. AgentOK'
  BY DEF SessionInv, TypeOK, AgentOK, WishesShare, agent, app, operator,
         registry
<1>2. AppOK'
  BY OptionsAssumption
     DEF SessionInv, TypeOK, AppOK, ThreadsOK, At, WishesShare, agent, share,
         app, operator, registry, Threads
<1>3. ThreadsOK'
  BY NullsAssumption
     DEF SessionInv, TypeOK, AgentOK, AppOK, ThreadsOK, At, WishesShare,
         Threads, Stages
<1>4. TakenInv' /\ SameHandover
  BY DEF SessionInv, TypeOK, ThreadsOK, TakenInv, SameHandover, At, WishesShare,
         agent, share, app, operator, registry, Threads, Stages
<1>5. GraceOnlyUnpaired'
  BY DEF SessionInv, TypeOK, AppOK, GraceOnlyUnpaired, WishesShare,
         agent, share, app, operator, registry
<1> QED BY <1>1, <1>2, <1>3, <1>4, <1>5, SameHandoverKeeps DEF TypeOK

LEMMA MainSelectsKeeps ==
    ASSUME SessionInv, MainSelects
    PROVE  SessionInv'
<1>1. AgentOK'
  BY DEF SessionInv, TypeOK, AgentOK, MainSelects, Goto, agent
<1>2. AppOK'
  BY DEF SessionInv, TypeOK, AppOK, MainSelects, Goto, share, app, registry
<1>3. ThreadsOK'
  BY DEF SessionInv, TypeOK, ThreadsOK, MainSelects, At, Goto, Threads, Stages
<1>4. TakenInv' /\ SameHandover
  BY DEF SessionInv, TypeOK, ThreadsOK, TakenInv, SameHandover, At, MainSelects,
         Goto, agent, Threads
<1>5. GraceOnlyUnpaired'
  BY DEF SessionInv, GraceOnlyUnpaired, MainSelects, app, share
<1> QED BY <1>1, <1>2, <1>3, <1>4, <1>5, SameHandoverKeeps DEF TypeOK

\* It has a choice to compare only when there is one.
LEMMA MainReadsChoiceKeeps ==
    ASSUME SessionInv, MainReadsChoice
    PROVE  SessionInv'
<1> DEFINE r == IF selected = Nobody THEN Idle
                ELSE [Idle EXCEPT !.at = "compare", !.arg = selected]
<1>1. /\ UNCHANGED <<agent, app, operator, registry, wpc, overlapped>>
      /\ At(Main, "select") /\ Main \in Threads
      /\ thread' = [thread EXCEPT ![Main] = r]
  BY DEF MainReadsChoice, Threads, Return
<1>2. AgentOK' /\ AppOK' /\ GraceOnlyUnpaired'
  BY <1>1 DEF SessionInv, TypeOK, AgentOK, AppOK, GraceOnlyUnpaired, agent, app,
              share, operator, registry
<1>3. ThreadRecord(r) /\ r.taken = NoWorker
  BY DEF SessionInv, TypeOK, AppOK, Idle, Stages, ThreadRecord
<1>4. ThreadsOK'
  BY <1>1, <1>3, ThreadMoves DEF SessionInv, TypeOK
<1>5. thread'[Main] = r /\ \A t \in Threads \ {Main} : thread'[t] = thread[t]
  BY <1>1 DEF SessionInv, TypeOK, ThreadsOK
<1>6. TakenInv' /\ SameHandover
  BY <1>1, <1>5 DEF SessionInv, TakenInv, SameHandover, At, Idle, agent
<1> QED BY <1>2, <1>4, <1>6, SameHandoverKeeps DEF TypeOK

\* The main loop leaves for a new session with the headset it has read.
LEMMA MainComparesKeeps ==
    ASSUME SessionInv, MainCompares
    PROVE  SessionInv'
<1>1. /\ UNCHANGED <<agent, app, operator, registry, wpc, overlapped>>
      /\ At(Main, "compare") /\ Main \in Threads
  BY DEF MainCompares, Threads
<1>2. AgentOK' /\ AppOK' /\ GraceOnlyUnpaired'
  BY <1>1 DEF SessionInv, TypeOK, AgentOK, AppOK, GraceOnlyUnpaired, agent, app,
              share, operator, registry
<1>3. PICK r : /\ thread' = [thread EXCEPT ![Main] = r]
               /\ \/ r = Idle
                  \/ r = [thread[Main] EXCEPT !.at = "teardown",
                                              !.after = "start2"]
  BY DEF MainCompares, Call, Return
<1>4. thread[Main] \in [at : Stages, arg : Headsets \union {Nobody},
            taken : Workers \union {NoWorker}, borrowed : Workers \union {NoWorker},
            after : {"idle", "start2"}]
  BY <1>1 DEF SessionInv, TypeOK, ThreadsOK
<1>5. thread[Main].arg \in Headsets /\ thread[Main].taken = NoWorker
  BY <1>1 DEF SessionInv, TypeOK, ThreadsOK, TakenInv, At
<1>6. ThreadRecord(r) /\ r.taken = NoWorker /\ r.at \in {"idle", "teardown"}
  <2>1. CASE r = Idle
    BY <2>1 DEF ThreadRecord, Idle, Stages
  <2>2. CASE r = [thread[Main] EXCEPT !.at = "teardown", !.after = "start2"]
    BY <1>4, <1>5, <2>2 DEF ThreadRecord, Stages
  <2> QED BY <1>3, <2>1, <2>2
<1>7. ThreadsOK'
  BY <1>1, <1>3, <1>6, ThreadMoves DEF SessionInv, TypeOK
<1>8. thread'[Main] = r /\ \A t \in Threads \ {Main} : thread'[t] = thread[t]
  BY <1>1, <1>3 DEF SessionInv, TypeOK, ThreadsOK
<1>9. TakenInv' /\ SameHandover
  BY <1>1, <1>5, <1>6, <1>8 DEF SessionInv, TakenInv, SameHandover, At, agent
<1> QED BY <1>2, <1>7, <1>9, SameHandoverKeeps DEF TypeOK

LEMMA MainReapsKeeps ==
    ASSUME SessionInv, MainReaps
    PROVE  SessionInv'
<1>1. AgentOK'
  BY DEF SessionInv, TypeOK, AgentOK, MainReaps, Call, agent, app, operator,
         registry
<1>2. AppOK'
  BY OptionsAssumption
     DEF SessionInv, TypeOK, AppOK, ThreadsOK, At, MainReaps, Call, agent,
         share, app, operator, registry, Threads
<1>3. ThreadsOK'
  <2>1. /\ Main \in Threads
        /\ thread' = [thread EXCEPT ![Main] =
              [thread[Main] EXCEPT !.at = "teardown", !.after = "idle"]]
    BY DEF MainReaps, Call, Threads
  <2>2. thread[Main] \in [at : Stages, arg : Headsets \union {Nobody},
              taken : Workers \union {NoWorker}, borrowed : Workers \union {NoWorker},
              after : {"idle", "start2"}]
    BY <2>1 DEF SessionInv, TypeOK, ThreadsOK
  <2>3. ThreadRecord([thread[Main] EXCEPT !.at = "teardown", !.after = "idle"])
    BY <2>2 DEF SessionInv, TypeOK, AgentOK, ThreadRecord, Stages
  <2> QED BY <2>1, <2>3, ThreadMoves DEF SessionInv, TypeOK
<1>4. TakenInv' /\ SameHandover
  BY DEF SessionInv, TypeOK, ThreadsOK, TakenInv, SameHandover, At, MainReaps,
         Call, agent, share, app, operator, registry, Threads, Stages
<1>5. GraceOnlyUnpaired'
  BY DEF SessionInv, TypeOK, AppOK, GraceOnlyUnpaired, MainReaps, Call,
         agent, share, app, operator, registry
<1> QED BY <1>1, <1>2, <1>3, <1>4, <1>5, SameHandoverKeeps DEF TypeOK

LEMMA MainDisconnectsKeeps ==
    ASSUME SessionInv, MainDisconnects
    PROVE  SessionInv'
<1>1. AgentOK'
  BY DEF SessionInv, TypeOK, AgentOK, MainDisconnects, agent, app, operator,
         registry
<1>2. AppOK'
  BY OptionsAssumption
     DEF SessionInv, TypeOK, AppOK, ThreadsOK, At, MainDisconnects, agent,
         share, app, operator, registry, Threads
<1>3. ThreadsOK'
  <2>1. /\ Main \in Threads
        /\ thread' = [thread EXCEPT ![Main] =
              [thread[Main] EXCEPT !.at = "disconnect2", !.arg = remote_ip]]
    BY DEF MainDisconnects, Threads
  <2>2. thread[Main] \in [at : Stages, arg : Headsets \union {Nobody},
              taken : Workers \union {NoWorker}, borrowed : Workers \union {NoWorker},
              after : {"idle", "start2"}]
    BY <2>1 DEF SessionInv, TypeOK, ThreadsOK
  <2>3. ThreadRecord([thread[Main] EXCEPT !.at = "disconnect2", !.arg = remote_ip])
    BY <2>2 DEF SessionInv, TypeOK, AgentOK, ThreadRecord, Stages
  <2> QED BY <2>1, <2>3, ThreadMoves DEF SessionInv, TypeOK
<1>4. TakenInv' /\ SameHandover
  BY DEF SessionInv, TypeOK, ThreadsOK, TakenInv, SameHandover, At,
         MainDisconnects, agent, share, app, operator, registry, Threads, Stages
<1>5. GraceOnlyUnpaired'
  BY DEF SessionInv, TypeOK, AppOK, GraceOnlyUnpaired, MainDisconnects,
         agent, share, app, operator, registry
<1> QED BY <1>1, <1>2, <1>3, <1>4, <1>5, SameHandoverKeeps DEF TypeOK

LEMMA MainForcesUnpairKeeps ==
    ASSUME SessionInv, MainForcesUnpair
    PROVE  SessionInv'
<1>1. AgentOK'
  BY DEF SessionInv, TypeOK, AgentOK, MainForcesUnpair, Registry!Forget, Goto,
         agent, app, operator, registry
<1>2. AppOK'
  BY OptionsAssumption
     DEF SessionInv, TypeOK, AppOK, ThreadsOK, At, MainForcesUnpair,
         Registry!Forget, Goto, agent, share, app, operator, registry, Threads
<1>3. ThreadsOK'
  BY NullsAssumption
     DEF SessionInv, TypeOK, AgentOK, AppOK, ThreadsOK, At, MainForcesUnpair,
         Registry!Forget, Goto, Threads, Stages
<1>4. TakenInv' /\ SameHandover
  BY DEF SessionInv, TypeOK, ThreadsOK, TakenInv, SameHandover, At,
         MainForcesUnpair, Registry!Forget, Goto, agent, share, app, operator,
         registry, Threads, Stages
<1>5. GraceOnlyUnpaired'
  BY DEF SessionInv, TypeOK, AppOK, GraceOnlyUnpaired, MainForcesUnpair,
         Registry!Forget, Goto, agent, share, app, operator, registry
<1> QED BY <1>1, <1>2, <1>3, <1>4, <1>5, SameHandoverKeeps DEF TypeOK

LEMMA MainBlocksKeeps ==
    ASSUME SessionInv, MainBlocks
    PROVE  SessionInv'
<1>1. AgentOK'
  BY DEF SessionInv, TypeOK, AgentOK, MainBlocks, Goto, agent, app, operator,
         registry
<1>2. AppOK'
  BY OptionsAssumption
     DEF SessionInv, TypeOK, AppOK, ThreadsOK, At, MainBlocks, Goto, agent,
         share, app, operator, registry, Threads
<1>3. ThreadsOK'
  BY NullsAssumption
     DEF SessionInv, TypeOK, AgentOK, AppOK, ThreadsOK, At, MainBlocks, Goto,
         Threads, Stages
<1>4. TakenInv' /\ SameHandover
  BY DEF SessionInv, TypeOK, ThreadsOK, TakenInv, SameHandover, At, MainBlocks,
         Goto, agent, share, app, operator, registry, Threads, Stages
<1>5. GraceOnlyUnpaired'
  BY DEF SessionInv, TypeOK, AppOK, GraceOnlyUnpaired, MainBlocks, Goto,
         agent, share, app, operator, registry
<1> QED BY <1>1, <1>2, <1>3, <1>4, <1>5, SameHandoverKeeps DEF TypeOK

LEMMA MainUnpairsKeeps ==
    ASSUME SessionInv, MainUnpairs
    PROVE  SessionInv'
<1>1. AgentOK'
  BY DEF SessionInv, TypeOK, AgentOK, MainUnpairs, SetPaired, UnpairPending,
         Goto, agent, app, operator, registry
<1>2. AppOK'
  BY OptionsAssumption
     DEF SessionInv, TypeOK, AppOK, ThreadsOK, At, MainUnpairs, SetPaired,
         UnpairPending, Goto, agent, share, app, operator, registry, Threads
<1>3. ThreadsOK'
  BY NullsAssumption
     DEF SessionInv, TypeOK, AgentOK, AppOK, ThreadsOK, At, MainUnpairs,
         SetPaired, UnpairPending, Goto, Threads, Stages
<1>4. TakenInv' /\ SameHandover
  BY DEF SessionInv, TypeOK, ThreadsOK, TakenInv, SameHandover, At, MainUnpairs,
         SetPaired, UnpairPending, Goto, agent, share, app, operator, registry,
         Threads, Stages
<1>5. GraceOnlyUnpaired'
  BY DEF SessionInv, TypeOK, AppOK, GraceOnlyUnpaired, MainUnpairs, SetPaired,
         UnpairPending, Goto, agent, share, app, operator, registry
<1> QED BY <1>1, <1>2, <1>3, <1>4, <1>5, SameHandoverKeeps DEF TypeOK

LEMMA MainStopsShareKeeps ==
    ASSUME SessionInv, MainStopsShare
    PROVE  SessionInv'
<1>1. AgentOK'
  BY DEF SessionInv, TypeOK, AgentOK, MainStopsShare, UnpairFinalize, Call,
         agent, app, operator, registry
<1>2. AppOK'
  BY OptionsAssumption
     DEF SessionInv, TypeOK, AppOK, ThreadsOK, At, MainStopsShare,
         UnpairFinalize, Call, agent, share, app, operator, registry, Threads
<1>3. ThreadsOK'
  <2>1. /\ Main \in Threads
        /\ thread' = [thread EXCEPT ![Main] =
              [thread[Main] EXCEPT !.at = "teardown", !.after = "idle"]]
    BY DEF MainStopsShare, UnpairFinalize, Call, Threads
  <2>2. thread[Main] \in [at : Stages, arg : Headsets \union {Nobody},
              taken : Workers \union {NoWorker}, borrowed : Workers \union {NoWorker},
              after : {"idle", "start2"}]
    BY <2>1 DEF SessionInv, TypeOK, ThreadsOK
  <2>3. ThreadRecord([thread[Main] EXCEPT !.at = "teardown", !.after = "idle"])
    BY <2>2 DEF SessionInv, TypeOK, AgentOK, ThreadRecord, Stages
  <2> QED BY <2>1, <2>3, ThreadMoves DEF SessionInv, TypeOK
<1>4. TakenInv' /\ SameHandover
  BY DEF SessionInv, TypeOK, ThreadsOK, TakenInv, SameHandover, At,
         MainStopsShare, UnpairFinalize, Call, agent, share, app, operator,
         registry, Threads, Stages
<1>5. GraceOnlyUnpaired'
  BY DEF SessionInv, TypeOK, AppOK, GraceOnlyUnpaired, MainStopsShare,
         UnpairFinalize, Call, agent, share, app, operator, registry
<1> QED BY <1>1, <1>2, <1>3, <1>4, <1>5, SameHandoverKeeps DEF TypeOK

LEMMA MainGraceLapsesKeeps ==
    ASSUME SessionInv, MainGraceLapses
    PROVE  SessionInv'
<1>1. AgentOK'
  BY DEF SessionInv, TypeOK, AgentOK, MainGraceLapses, UnpairFinalize, agent,
         app, operator, registry
<1>2. AppOK'
  BY OptionsAssumption
     DEF SessionInv, TypeOK, AppOK, ThreadsOK, At, MainGraceLapses,
         UnpairFinalize, agent, share, app, operator, registry, Threads
<1>3. ThreadsOK'
  BY NullsAssumption
     DEF SessionInv, TypeOK, AgentOK, AppOK, ThreadsOK, At, MainGraceLapses,
         UnpairFinalize, Threads, Stages
<1>4. TakenInv' /\ SameHandover
  BY DEF SessionInv, TypeOK, ThreadsOK, TakenInv, SameHandover, At,
         MainGraceLapses, UnpairFinalize, agent, share, app, operator, registry,
         Threads, Stages
<1>5. GraceOnlyUnpaired'
  BY DEF SessionInv, TypeOK, AppOK, GraceOnlyUnpaired, MainGraceLapses,
         UnpairFinalize, agent, share, app, operator, registry
<1> QED BY <1>1, <1>2, <1>3, <1>4, <1>5, SameHandoverKeeps DEF TypeOK

LEMMA MainWarmLapsesKeeps ==
    ASSUME SessionInv, MainWarmLapses
    PROVE  SessionInv'
<1>1. AgentOK'
  BY DEF SessionInv, TypeOK, AgentOK, MainWarmLapses, Call, agent, app,
         operator, registry
<1>2. AppOK'
  BY OptionsAssumption
     DEF SessionInv, TypeOK, AppOK, ThreadsOK, At, MainWarmLapses, Call, agent,
         share, app, operator, registry, Threads
<1>3. ThreadsOK'
  <2>1. /\ Main \in Threads
        /\ thread' = [thread EXCEPT ![Main] =
              [thread[Main] EXCEPT !.at = "teardown", !.after = "idle"]]
    BY DEF MainWarmLapses, Call, Threads
  <2>2. thread[Main] \in [at : Stages, arg : Headsets \union {Nobody},
              taken : Workers \union {NoWorker}, borrowed : Workers \union {NoWorker},
              after : {"idle", "start2"}]
    BY <2>1 DEF SessionInv, TypeOK, ThreadsOK
  <2>3. ThreadRecord([thread[Main] EXCEPT !.at = "teardown", !.after = "idle"])
    BY <2>2 DEF SessionInv, TypeOK, AgentOK, ThreadRecord, Stages
  <2> QED BY <2>1, <2>3, ThreadMoves DEF SessionInv, TypeOK
<1>4. TakenInv' /\ SameHandover
  BY DEF SessionInv, TypeOK, ThreadsOK, TakenInv, SameHandover, At,
         MainWarmLapses, Call, agent, share, app, operator, registry, Threads,
         Stages
<1>5. GraceOnlyUnpaired'
  BY DEF SessionInv, TypeOK, AppOK, GraceOnlyUnpaired, MainWarmLapses, Call,
         agent, share, app, operator, registry
<1> QED BY <1>1, <1>2, <1>3, <1>4, <1>5, SameHandoverKeeps DEF TypeOK

LEMMA MainStartsShareKeeps ==
    ASSUME SessionInv, MainStartsShare
    PROVE  SessionInv'
<1>1. AgentOK'
  BY DEF SessionInv, TypeOK, AgentOK, MainStartsShare, agent, app, operator,
         registry
<1>2. AppOK'
  BY OptionsAssumption
     DEF SessionInv, TypeOK, AppOK, ThreadsOK, At, MainStartsShare, agent,
         share, app, operator, registry, Threads
<1>3. ThreadsOK'
  BY NullsAssumption
     DEF SessionInv, TypeOK, AgentOK, AppOK, ThreadsOK, At, MainStartsShare,
         Threads, Stages
<1>4. TakenInv' /\ SameHandover
  BY DEF SessionInv, TypeOK, ThreadsOK, TakenInv, SameHandover, At,
         MainStartsShare, agent, share, app, operator, registry, Threads, Stages
<1>5. GraceOnlyUnpaired'
  BY DEF SessionInv, TypeOK, AppOK, GraceOnlyUnpaired, MainStartsShare,
         agent, share, app, operator, registry
<1> QED BY <1>1, <1>2, <1>3, <1>4, <1>5, SameHandoverKeeps DEF TypeOK

LEMMA MainExpiresKeeps ==
    ASSUME SessionInv, MainExpires
    PROVE  SessionInv'
<1>1. AgentOK'
  BY DEF SessionInv, TypeOK, AgentOK, MainExpires, Registry!Forget, Goto, agent,
         app, operator, registry
<1>2. AppOK'
  BY OptionsAssumption
     DEF SessionInv, TypeOK, AppOK, ThreadsOK, At, MainExpires, Registry!Forget,
         Goto, agent, share, app, operator, registry, Threads
<1>3. ThreadsOK'
  BY NullsAssumption
     DEF SessionInv, TypeOK, AgentOK, AppOK, ThreadsOK, At, MainExpires,
         Registry!Forget, Goto, Threads, Stages
<1>4. TakenInv' /\ SameHandover
  BY DEF SessionInv, TypeOK, ThreadsOK, TakenInv, SameHandover, At, MainExpires,
         Registry!Forget, Goto, agent, share, app, operator, registry, Threads,
         Stages
<1>5. GraceOnlyUnpaired'
  BY DEF SessionInv, TypeOK, AppOK, GraceOnlyUnpaired, MainExpires,
         Registry!Forget, Goto, agent, share, app, operator, registry
<1> QED BY <1>1, <1>2, <1>3, <1>4, <1>5, SameHandoverKeeps DEF TypeOK

LEMMA MainExpiredKeeps ==
    ASSUME SessionInv, MainExpired
    PROVE  SessionInv'
<1>1. AgentOK'
  BY DEF SessionInv, TypeOK, AgentOK, MainExpired, SetPaired, UnpairPending,
         Call, agent, app, operator, registry
<1>2. AppOK'
  BY OptionsAssumption
     DEF SessionInv, TypeOK, AppOK, ThreadsOK, At, MainExpired, SetPaired,
         UnpairPending, Call, agent, share, app, operator, registry, Threads
<1>3. ThreadsOK'
  <2>1. /\ Main \in Threads
        /\ thread' = [thread EXCEPT ![Main] =
              [thread[Main] EXCEPT !.at = "teardown", !.after = "idle"]]
    BY DEF MainExpired, SetPaired, UnpairPending, Call, Threads
  <2>2. thread[Main] \in [at : Stages, arg : Headsets \union {Nobody},
              taken : Workers \union {NoWorker}, borrowed : Workers \union {NoWorker},
              after : {"idle", "start2"}]
    BY <2>1 DEF SessionInv, TypeOK, ThreadsOK
  <2>3. ThreadRecord([thread[Main] EXCEPT !.at = "teardown", !.after = "idle"])
    BY <2>2 DEF SessionInv, TypeOK, AgentOK, ThreadRecord, Stages
  <2> QED BY <2>1, <2>3, ThreadMoves DEF SessionInv, TypeOK
<1>4. TakenInv' /\ SameHandover
  BY DEF SessionInv, TypeOK, ThreadsOK, TakenInv, SameHandover, At, MainExpired,
         SetPaired, UnpairPending, Call, agent, share, app, operator, registry,
         Threads, Stages
<1>5. GraceOnlyUnpaired'
  BY DEF SessionInv, TypeOK, AppOK, GraceOnlyUnpaired, MainExpired, SetPaired,
         UnpairPending, Call, agent, share, app, operator, registry
<1> QED BY <1>1, <1>2, <1>3, <1>4, <1>5, SameHandoverKeeps DEF TypeOK

-----------------------------------------------------------------------------
(***************************************************************************)
(* The steps that hand a worker over.                                      *)
(***************************************************************************)
\* The current worker passes to the thread that tears the session down, or,
\* when another thread is at it too, the history variable says so.
LEMMA TeardownKeeps ==
    ASSUME SessionInv, NEW t \in Threads, Teardown(t)
    PROVE  SessionInv'
<1> DEFINE r == [thread[t] EXCEPT !.taken = worker, !.at = "join"]
<1>1. /\ At(t, "teardown") /\ worker' = NoWorker
      /\ thread' = [thread EXCEPT ![t] = r]
      /\ UNCHANGED <<remote_ip, warm_until, input_ctx, app, operator, registry, wpc>>
      /\ stop' = TRUE /\ worker_done' = FALSE
      /\ overlapped' = IF \E u \in Threads \ {t} : thread[u].at \in Changing
                         THEN TRUE ELSE overlapped
  BY DEF Teardown, StopAfterTeardown, WorkerAfterTeardown
<1>2. /\ thread'[t].taken = worker /\ thread'[t].at = "join"
      /\ \A u \in Threads \ {t} : thread'[u] = thread[u]
  BY <1>1 DEF SessionInv, TypeOK, ThreadsOK
<1>3. AgentOK' /\ AppOK'
  <2>1. overlapped' \in BOOLEAN
    BY <1>1 DEF SessionInv, TypeOK, AgentOK
  <2>2. AgentOK'
    BY <1>1, <2>1, Zenon DEF SessionInv, TypeOK, AgentOK
  <2>3. AppOK'
    BY <1>1 DEF SessionInv, TypeOK, AppOK, app, share, operator, registry
  <2> QED BY <2>2, <2>3
<1>4. ThreadsOK'
  <2>1. thread[t] \in [at : Stages, arg : Headsets \union {Nobody},
              taken : Workers \union {NoWorker}, borrowed : Workers \union {NoWorker},
              after : {"idle", "start2"}]
    BY DEF SessionInv, TypeOK, ThreadsOK
  <2>2. thread[t].after = "start2" => thread[t].arg \in Headsets
    BY <1>1 DEF SessionInv, TypeOK, ThreadsOK, At
  <2>3. ThreadRecord(r)
    BY <2>1, <2>2 DEF SessionInv, TypeOK, AgentOK, ThreadRecord, Stages
  <2> QED BY <1>1, <2>3, ThreadMoves DEF SessionInv, TypeOK
<1>5. TakenInv'
  BY <1>2 DEF SessionInv, TakenInv, At
<1>6. JoinedOnce'
  BY <1>1, <1>2 DEF SessionInv, JoinedOnce
<1>7. InputCtxLive' /\ GraceOnlyUnpaired'
  BY <1>1 DEF SessionInv, InputCtxLive, GraceOnlyUnpaired, app, share
<1>8. HandoverInv'
  <2> SUFFICES ASSUME ~overlapped' PROVE HandoverInv'
    BY DEF HandoverInv
  <2>1. ~overlapped /\ \A u \in Threads \ {t} : thread[u].at \notin Changing
    BY <1>1
  <2>2. \A u \in Threads : thread[u].taken = NoWorker
    BY <1>1, <2>1 DEF SessionInv, TakenInv, At, Changing
  <2>3. \A w \in Workers : Alive(w) => worker = w
    BY <2>1, <2>2, NullsAssumption DEF SessionInv, HandoverInv
  <2>4. \A w \in Workers : Alive(w)' <=> Alive(w)
    BY <1>1 DEF Alive
  <2>5. \A u \in Threads : Crit(u)' => u = t
    BY <1>2, <2>1 DEF Crit, Changing
  <2>6. \A u \in Threads : (thread[u].at \notin {"start2", "spawn"})'
    BY <1>2, <2>1 DEF Changing
  <2> QED BY <1>1, <1>2, <2>3, <2>4, <2>5, <2>6 DEF HandoverInv
<1> QED BY <1>3, <1>4, <1>5, <1>6, <1>7, <1>8 DEF SessionInv, TypeOK

\* The worker a thread joined has ended.
LEMMA JoinKeeps ==
    ASSUME SessionInv, NEW t \in Threads, Join(t)
    PROVE  SessionInv'
<1>1. /\ At(t, "join")
      /\ \A w \in Workers : thread[t].taken = w => wpc[w] = "gone"
      /\ UNCHANGED <<agent, app, operator, registry, wpc, overlapped>>
  BY DEF Join, Joinable
<1>2. PICK r : /\ thread' = [thread EXCEPT ![t] = r] /\ ThreadRecord(r)
               /\ r.taken = NoWorker /\ r.at \in {"idle", "start2"}
  <2>1. thread[t] \in [at : Stages, arg : Headsets \union {Nobody},
              taken : Workers \union {NoWorker}, borrowed : Workers \union {NoWorker},
              after : {"idle", "start2"}]
    BY DEF SessionInv, TypeOK, ThreadsOK
  <2>2. CASE thread[t].after = "idle"
    <3>1. thread' = [thread EXCEPT ![t] = Idle]
      BY <2>2 DEF Join, Return
    <3>2. ThreadRecord(Idle) /\ Idle.taken = NoWorker /\ Idle.at = "idle"
      BY DEF ThreadRecord, Idle, Stages
    <3> QED BY <3>1, <3>2
  <2>3. CASE thread[t].after = "start2"
    <3> DEFINE q == [thread[t] EXCEPT !.at = "start2", !.taken = NoWorker]
    <3>1. thread' = [thread EXCEPT ![t] = q]
      BY <2>3 DEF Join
    <3>2. thread[t].arg \in Headsets
      BY <1>1, <2>3 DEF SessionInv, TypeOK, ThreadsOK, At
    <3>3. ThreadRecord(q) /\ q.taken = NoWorker /\ q.at = "start2"
      BY <2>1, <3>2 DEF ThreadRecord, Stages
    <3> QED BY <3>1, <3>3
  <2> QED BY <2>1, <2>2, <2>3
<1>3. thread'[t] = r /\ \A u \in Threads \ {t} : thread'[u] = thread[u]
  BY <1>2 DEF SessionInv, TypeOK, ThreadsOK
<1>4. AgentOK' /\ AppOK'
  BY <1>1 DEF SessionInv, TypeOK, AgentOK, AppOK, agent, app, share, operator,
              registry
<1>5. ThreadsOK'
  BY <1>2, ThreadMoves DEF SessionInv, TypeOK
<1>6. TakenInv' /\ JoinedOnce' /\ InputCtxLive' /\ GraceOnlyUnpaired'
  BY <1>1, <1>2, <1>3 DEF SessionInv, TakenInv, JoinedOnce, InputCtxLive,
                          GraceOnlyUnpaired, At, agent, app, share
<1>7. HandoverInv'
  <2> SUFFICES ASSUME ~overlapped' PROVE HandoverInv'
    BY DEF HandoverInv
  <2>1. ~overlapped /\ worker' = worker /\ worker = NoWorker
    BY <1>1 DEF SessionInv, HandoverInv, Crit, At, agent
  <2>2. \A u \in Threads \ {t} : ~Crit(u) /\ thread[u].taken = NoWorker
    BY <1>1, <2>1 DEF SessionInv, HandoverInv, TakenInv, Crit, At
  <2>3. \A w \in Workers : ~Alive(w)'
    BY <1>1, <2>1, <2>2, NullsAssumption DEF SessionInv, HandoverInv, Alive
  <2>4. \A u \in Threads : Crit(u)' => u = t
    BY <1>3, <2>2 DEF Crit
  <2> QED BY <2>1, <2>3, <2>4 DEF HandoverInv
<1> QED BY <1>4, <1>5, <1>6, <1>7 DEF SessionInv, TypeOK

LEMMA SpawnKeeps ==
    ASSUME SessionInv, NEW t \in Threads, Spawn(t)
    PROVE  SessionInv'
<1>1. PICK w \in Workers :
         Fresh(w) /\ wpc' = [wpc EXCEPT ![w] = "opening"] /\ worker' = w
  BY DEF Spawn
<1>2. /\ At(t, "spawn") /\ thread' = [thread EXCEPT ![t] = Idle]
      /\ stop' = FALSE /\ worker_done' = FALSE /\ remote_ip' = thread[t].arg
      /\ UNCHANGED <<warm_until, input_ctx, app, operator, registry, overlapped>>
  BY DEF Spawn, Return
<1>3. thread'[t] = Idle /\ \A u \in Threads \ {t} : thread'[u] = thread[u]
  BY <1>2 DEF SessionInv, TypeOK, ThreadsOK
<1>4. wpc'[w] = "opening" /\ \A v \in Workers \ {w} : wpc'[v] = wpc[v]
  BY <1>1 DEF SessionInv, TypeOK, AgentOK
<1>5. AgentOK' /\ AppOK'
  <2>1. thread[t].arg \in Headsets
    BY <1>2 DEF SessionInv, TypeOK, ThreadsOK, At
  <2>2. AgentOK'
    BY <1>1, <1>2, <2>1 DEF SessionInv, TypeOK, AgentOK, WorkerStages
  <2>3. AppOK'
    BY <1>2 DEF SessionInv, TypeOK, AppOK, app, share, operator, registry
  <2> QED BY <2>2, <2>3
<1>6. ThreadsOK'
  <2>1. ThreadRecord(Idle)
    BY DEF ThreadRecord, Idle, Stages
  <2> QED BY <1>2, <2>1, ThreadMoves DEF SessionInv, TypeOK
<1>7. TakenInv' /\ GraceOnlyUnpaired'
  BY <1>2, <1>3 DEF SessionInv, TakenInv, GraceOnlyUnpaired, At, Idle, app,
                    share
<1>8. JoinedOnce'
  BY <1>1, <1>3 DEF SessionInv, JoinedOnce, Fresh, Idle
<1>9. InputCtxLive'
  <2>1. input_ctx # NoWorker => input_ctx # w /\ input_ctx \in Workers
    BY <1>1 DEF SessionInv, InputCtxLive, Fresh, TypeOK, AgentOK
  <2> QED BY <1>2, <1>4, <2>1 DEF SessionInv, InputCtxLive
<1>10. HandoverInv'
  <2> SUFFICES ASSUME ~overlapped' PROVE HandoverInv'
    BY DEF HandoverInv
  <2>1. ~overlapped /\ Crit(t)
    BY <1>2 DEF Crit, At
  <2>2. \A v \in Workers : ~Alive(v)
    BY <1>2, <2>1 DEF SessionInv, HandoverInv, At
  <2>3. \A v \in Workers : Alive(v)' => v = w
    BY <1>4, <2>2 DEF Alive
  <2>4. \A u \in Threads : ~Crit(u)'
    BY <1>3, <2>1 DEF SessionInv, HandoverInv, Crit, Idle
  <2> QED BY <1>1, <2>3, <2>4 DEF HandoverInv, Crit
<1> QED BY <1>5, <1>6, <1>7, <1>8, <1>9, <1>10 DEF SessionInv, TypeOK

-----------------------------------------------------------------------------
(***************************************************************************)
(* The worker's own steps: it only gets older.                             *)
(***************************************************************************)
LEMMA WorkerAges ==
    ASSUME SessionInv, NEW w \in Workers, Alive(w), NEW stage \in WorkerStages,
           wpc' = [wpc EXCEPT ![w] = stage],
           UNCHANGED <<worker, thread, overlapped>>,
           AgentOK', AppOK', InputCtxLive', GraceOnlyUnpaired'
    PROVE  SessionInv'
<1>1. \A v \in Workers : Alive(v)' => Alive(v)
  BY DEF SessionInv, TypeOK, AgentOK, Alive
<1>2. ThreadsOK' /\ TakenInv' /\ JoinedOnce'
  BY DEF SessionInv, TypeOK, ThreadsOK, TakenInv, JoinedOnce, At
<1>3. HandoverInv'
  BY <1>1 DEF SessionInv, HandoverInv, Crit
<1> QED BY <1>2, <1>3 DEF SessionInv, TypeOK

LEMMA WorkerKeeps ==
    ASSUME SessionInv, NEW w \in Workers, Worker(w)
    PROVE  SessionInv'
<1> USE DEF SessionInv, TypeOK, AgentOK, AppOK, WorkerStages, InputCtxLive,
            GraceOnlyUnpaired, Alive, agent, app, share, operator, registry
<1>1. CASE WorkerOpens(w)
  <2>1. AgentOK' /\ AppOK' /\ InputCtxLive' /\ GraceOnlyUnpaired'
    BY <1>1 DEF WorkerOpens
  <2> QED BY <1>1, <2>1, WorkerAges DEF WorkerOpens
<1>2. CASE WorkerFailsToOpen(w)
  <2>1. AgentOK' /\ AppOK' /\ InputCtxLive' /\ GraceOnlyUnpaired'
    BY <1>2 DEF WorkerFailsToOpen
  <2> QED BY <1>2, <2>1, WorkerAges DEF WorkerFailsToOpen
<1>3. CASE WorkerLeaves(w)
  <2>1. PICK stage \in WorkerStages : wpc' = [wpc EXCEPT ![w] = stage]
    BY <1>3 DEF WorkerLeaves
  <2>2. AgentOK' /\ AppOK' /\ InputCtxLive' /\ GraceOnlyUnpaired'
    BY <1>3, <2>1 DEF WorkerLeaves, LeftInputCtx
  <2> QED BY <1>3, <2>1, <2>2, WorkerAges DEF WorkerLeaves
<1>4. CASE WorkerStopsShare(w)
  <2>1. AgentOK' /\ InputCtxLive'
    BY <1>4 DEF WorkerStopsShare
  <2>2. AppOK' /\ GraceOnlyUnpaired'
    BY <1>4 DEF WorkerStopsShare, UnpairFinalize
  <2> QED BY <1>4, <2>1, <2>2, WorkerAges DEF WorkerStopsShare
<1>5. CASE WorkerDone(w)
  <2>1. AgentOK' /\ AppOK' /\ InputCtxLive' /\ GraceOnlyUnpaired'
    BY <1>5 DEF WorkerDone
  <2> QED BY <1>5, <2>1, WorkerAges DEF WorkerDone
<1> QED BY <1>1, <1>2, <1>3, <1>4, <1>5 DEF Worker

-----------------------------------------------------------------------------
LEMMA NextSessionInv == SessionInv /\ [Next]_vars => SessionInv'
<1> SUFFICES ASSUME SessionInv, [Next]_vars PROVE SessionInv'
  OBVIOUS
<1>1. CASE Headset
  BY <1>1, RequestPairKeeps, RequestStartKeeps, RequestStopKeeps,
     RequestUnpairKeeps, RequestSettingsKeeps DEF Headset
<1>2. CASE Operator
  BY <1>2, QuestSeenKeeps, QuestUsedKeeps, OperatorSelectsKeeps,
     OperatorDisconnectsKeeps, WishesShareKeeps
     DEF Operator
<1>3. CASE MainStage
  BY <1>3, MainSelectsKeeps, MainReadsChoiceKeeps, MainComparesKeeps,
     MainReapsKeeps, MainDisconnectsKeeps,
     MainForcesUnpairKeeps, MainBlocksKeeps, MainUnpairsKeeps,
     MainStopsShareKeeps, MainGraceLapsesKeeps, MainWarmLapsesKeeps,
     MainStartsShareKeeps, MainExpiresKeeps, MainExpiredKeeps DEF MainStage
<1>4. CASE \E t \in Threads : Callback(t)
  BY <1>4, StartKeeps, StartPairedKeeps, ReacceptKeeps, StopSharingKeeps,
     UnpairKeeps, UnpairKeepsWarmKeeps, SettingsShareKeeps, TeardownKeeps,
     JoinKeeps, SpawnKeeps DEF Callback
<1>5. CASE \E w \in Workers : Worker(w)
  BY <1>5, WorkerKeeps
<1>6. CASE UNCHANGED vars
  BY <1>6, SameHandoverKeeps
     DEF vars, agent, app, share, operator, registry, SessionInv, TypeOK,
         AgentOK, AppOK, ThreadsOK, TakenInv, At, GraceOnlyUnpaired,
         SameHandover
<1> QED BY <1>1, <1>2, <1>3, <1>4, <1>5, <1>6 DEF Next

THEOREM SessionInvariant == Spec => []SessionInv
BY InitSessionInv, NextSessionInv, PTL DEF Spec

\* Type correctness of the session supervisor, and that a thread on its way to
\* a session knows the headset the session is for.
THEOREM SessionTypeCorrect == Spec => []TypeOK
<1>1. SessionInv => TypeOK
  BY DEF SessionInv
<1> QED BY <1>1, SessionInvariant, PTL

\* However callbacks, main loop and workers interleave, a worker is joined by
\* one thread only, and never while it is still the current one.
THEOREM WorkersJoinedOnce == Spec => []JoinedOnce
<1>1. SessionInv => JoinedOnce
  BY DEF SessionInv
<1> QED BY <1>1, SessionInvariant, PTL

\* The published input context is always that of a worker whose loop runs.
THEOREM InputContextIsLive == Spec => []InputCtxLive
<1>1. SessionInv => InputCtxLive
  BY DEF SessionInv
<1> QED BY <1>1, SessionInvariant, PTL

\* The grace timer never runs while a headset is paired.
THEOREM GraceEndsWithPairing == Spec => []GraceOnlyUnpaired
<1>1. SessionInv => GraceOnlyUnpaired
  BY DEF SessionInv
<1> QED BY <1>1, SessionInvariant, PTL

\* Unless two threads were changing the session at once there is one worker,
\* and it can be joined.
THEOREM OneWorkerHandedOver == Spec => []OneWorkerUnlessOverlap
<1>1. SessionInv => OneWorkerUnlessOverlap
  <2> SUFFICES ASSUME SessionInv, ~overlapped, NEW w \in Workers, Alive(w)
               PROVE  /\ worker = w \/ \E t \in Threads : thread[t].taken = w
                      /\ \A v \in Workers : Alive(v) => v = w
    BY DEF OneWorkerUnlessOverlap
  <2>1. \A v \in Workers : Alive(v) => worker = v \/ \E t \in Threads : thread[t].taken = v
    BY DEF SessionInv, HandoverInv
  <2>2. \A t \in Threads, v \in Workers : thread[t].taken = v => Crit(t) /\ worker = NoWorker
    BY NullsAssumption DEF SessionInv, HandoverInv, TakenInv, Crit, At
  <2>3. \A t, u \in Threads : Crit(t) /\ Crit(u) => t = u
    BY DEF SessionInv, HandoverInv
  <2> QED BY <2>1, <2>2, <2>3, NullsAssumption
<1> QED BY <1>1, SessionInvariant, PTL
=============================================================================
