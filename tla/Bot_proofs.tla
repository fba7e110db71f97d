----------------------------- MODULE Bot_proofs -----------------------------
(***************************************************************************)
(* Proofs about the three machines around the bot, which share no state.   *)
(* BotRoom: for any number of rooms and of threads on which the assistant  *)
(* runs, a stopped bot is quiet, and nothing the bot has started is lost,  *)
(* but for the overlaps that the properties name.  RoomCheck: for any      *)
(* speakers and number of checks, one check is decided once.  Assistant:   *)
(* for any number of rounds and tool calls, only a capture that was sent   *)
(* is worked on, and a stop is final.  Names that each of them has, such   *)
(* as its Next, have the prefix Router or Voice in the latter two.         *)
(***************************************************************************)
EXTENDS BotRoom, RoomCheck, Assistant, SequenceTheorems, TLAPS

\* The stages in which a join has not yet stored what it started, and those
\* which only a bot that is logged in reaches.
Entering == {"join", "deny", "ask", "joining", "replace", "produce"}
Admitted == {"ask", "joining", "replace", "produce", "joined", "peer", "loop"}

\* A bot that a stop has reached without overlap is logged out, and no thread
\* is past the test of that, nor connects.
QuietInv ==
    bot_stopped /\ "end" \notin overlaps =>
        /\ ~bot_logged_in /\ ~bot_joined /\ media = {}
        /\ at[Web] # "connect"
        /\ \A t \in Threads : at[t] \notin Admitted

\* Until two joins overlap, at most one thread is entering, and when it stores
\* its producer the app holds none.
KeptInv ==
    /\ "audio" \notin lost
    /\ "join" \notin overlaps =>
           /\ lost = {}
           /\ \A t, u \in Threads :
                  at[t] \in Entering /\ at[u] \in Entering => t = u
           /\ \A t \in Threads : at[t] = "produce" => "room" \notin media

\* The bounds' counters stay within them.
LEMMA RequestCounts ==
    ASSUME TypeOK, NEW t \in Threads, Request(t)
    PROVE  requests' \in 0 .. MaxRequests /\ at[t] = "idle"
  BY BoundAssumption DEF TypeOK, Request

LEMMA InitTypeOK == Init => TypeOK
<1> SUFFICES ASSUME Init PROVE TypeOK
  OBVIOUS
<1>1. /\ 0 \in 0 .. FollowConfirm - 1
      /\ 0 \in 0 .. MaxRequests /\ 0 \in 0 .. MaxMoves
  BY BoundAssumption
<1>2. saved \in BOOLEAN /\ media \subseteq Kinds /\ lost \subseteq Kinds
  BY DEF Init, Kinds
<1> QED BY <1>1, <1>2 DEF Init, TypeOK, Stages

\* Every step keeps the types.
LEMMA StepTypeOK == TypeOK /\ [Next]_vars => TypeOK'
<1> SUFFICES ASSUME TypeOK, [Next]_vars PROVE TypeOK'
  OBVIOUS
<1> USE DEF TypeOK, Stages, JoinStages, EndStages, Kinds, flags, member,
               settings, things, call, counters, Threads
<1>1. ASSUME NEW t \in Threads, LeaveTakes(t) PROVE TypeOK'
  BY <1>1 DEF LeaveTakes, Goto
<1>2. ASSUME NEW t \in Threads, LeaveClears(t) PROVE TypeOK'
  BY <1>2 DEF LeaveClears, Goto
<1>3. ASSUME NEW t \in Threads, Left(t) PROVE TypeOK'
  BY <1>3 DEF Left, Goto, Return, BeginsJoin, Others
<1>4. ASSUME NEW t \in Threads, JoinReads(t) PROVE TypeOK'
  BY <1>4 DEF JoinReads, Goto
<1>5. ASSUME NEW t \in Threads, JoinDenied(t) PROVE TypeOK'
  BY <1>5 DEF JoinDenied, Return, Goto
<1>6. ASSUME NEW t \in Threads, RoomFound(t) PROVE TypeOK'
  BY <1>6 DEF RoomFound, Goto
<1>7. ASSUME NEW t \in Threads, NoRoomFound(t) PROVE TypeOK'
  BY <1>7 DEF NoRoomFound, Return, Goto
<1>8. ASSUME NEW t \in Threads, NEW r \in Rooms, JoinGranted(t, r)
      PROVE  TypeOK'
  BY <1>8 DEF JoinGranted, Goto
<1>9. ASSUME NEW t \in Threads, JoinRefused(t) PROVE TypeOK'
  BY <1>9 DEF JoinRefused, Return, Goto
<1>10. ASSUME NEW t \in Threads, Replace(t) PROVE TypeOK'
  BY <1>10 DEF Replace, Goto, OldMedia
<1>11. ASSUME NEW t \in Threads, NEW up \in BOOLEAN, Produce(t, up)
       PROVE  TypeOK'
  BY <1>11 DEF Produce, Goto
<1>12. ASSUME NEW t \in Threads, ProducesNothing(t) PROVE TypeOK'
  BY <1>12 DEF ProducesNothing, Goto
<1>13. ASSUME NEW t \in Threads, Joined(t) PROVE TypeOK'
  BY <1>13 DEF Joined, Goto
<1>14. ASSUME NEW t \in Threads, NEW known \in BOOLEAN, PeerKnown(t, known)
       PROVE  TypeOK'
  BY <1>14 DEF PeerKnown, Goto
<1>15. ASSUME NEW t \in Threads, LoopbackApply(t) PROVE TypeOK'
  BY <1>15 DEF LoopbackApply, Goto, Return, WantLoopback
<1>16. ASSUME NEW t \in Threads, NEW up \in BOOLEAN, LoopbackStarts(t, up)
       PROVE  TypeOK'
  BY <1>16 DEF LoopbackStarts, Return, LoopbackLoses, Goto
<1>17. ASSUME RequestJoin PROVE TypeOK'
  BY <1>17, RequestCounts DEF RequestJoin, Goto, BeginsJoin, Others
<1>18. ASSUME NEW t \in Threads, RequestLeave(t) PROVE TypeOK'
  BY <1>18, RequestCounts DEF RequestLeave, Goto, BeginsEnd, Others
<1>19. ASSUME NEW t \in Threads, RequestRejoin(t) PROVE TypeOK'
  BY <1>19, RequestCounts DEF RequestRejoin, Goto, BeginsEnd, Others
<1>20. ASSUME NEW t \in Threads, NEW on \in BOOLEAN, RequestFollow(t, on)
       PROVE  TypeOK'
  BY <1>20, RequestCounts DEF RequestFollow
<1>21. ASSUME NEW on \in BOOLEAN, RequestLoopback(on) PROVE TypeOK'
  BY <1>21, RequestCounts DEF RequestLoopback, Goto
<1>22. ASSUME Stop PROVE TypeOK'
  BY <1>22, RequestCounts DEF Stop, Goto, BeginsEnd, Others
<1>23. ASSUME BotLogout PROVE TypeOK'
  BY <1>23, RequestCounts DEF BotLogout, Goto, BeginsEnd, Others
<1>24. ASSUME Ended PROVE TypeOK'
  BY <1>24 DEF Ended, Return, Goto
<1>25. ASSUME BotLogin PROVE TypeOK'
  BY <1>25, RequestCounts DEF BotLogin, Goto
<1>26. ASSUME NEW ok \in BOOLEAN, LoginReturns(ok) PROVE TypeOK'
  BY <1>26 DEF LoginReturns, Goto
<1>27. ASSUME Start PROVE TypeOK'
  BY <1>27, RequestCounts DEF Start, Goto
<1>28. ASSUME NEW ok \in BOOLEAN, StartChecked(ok) PROVE TypeOK'
  BY <1>28 DEF StartChecked, Goto
<1>29. ASSUME NEW up \in BOOLEAN, BotConnects(up) PROVE TypeOK'
  BY <1>29 DEF BotConnects, Return, Goto
<1>30. ASSUME HostAccountChanges PROVE TypeOK'
  BY <1>30, RequestCounts DEF HostAccountChanges
<1>31. ASSUME NEW r \in Rooms \union {NoRoom}, OperatorMoves(r) PROVE TypeOK'
  BY <1>31, BoundAssumption DEF OperatorMoves
<1>32. ASSUME FollowReads PROVE TypeOK'
  BY <1>32, BoundAssumption DEF FollowReads, Goto
<1>33. ASSUME FollowInactive PROVE TypeOK'
  BY <1>33, BoundAssumption DEF FollowInactive
<1>34. ASSUME FollowHolds PROVE TypeOK'
  BY <1>34, BoundAssumption DEF FollowHolds, Return, Settled, Goto
<1>35. ASSUME FollowMisses PROVE TypeOK'
  BY <1>35, BoundAssumption DEF FollowMisses, Return, Settled, Confirmed, Goto
<1>36. ASSUME FollowLeaves PROVE TypeOK'
  BY <1>36, BoundAssumption DEF FollowLeaves, Goto, BeginsEnd, Settled,
      Confirmed, Others
<1>37. ASSUME FollowJoins PROVE TypeOK'
  BY <1>37, BoundAssumption DEF FollowJoins, Goto, BeginsJoin, Settled, Others
<1>38. CASE UNCHANGED vars
  BY <1>38 DEF vars
<1> QED BY <1>1, <1>2, <1>3, <1>4, <1>5, <1>6, <1>7, <1>8, <1>9, <1>10, <1>11,
    <1>12, <1>13, <1>14, <1>15, <1>16, <1>17, <1>18, <1>19, <1>20, <1>21,
    <1>22, <1>23, <1>24, <1>25, <1>26, <1>27, <1>28, <1>29, <1>30, <1>31,
    <1>32, <1>33, <1>34, <1>35, <1>36, <1>37, <1>38 DEF Next, Step, WebStep,
    FollowStep, Requests

\* Type correctness of the bot's account and room, whatever overlaps.
THEOREM TypeCorrect == Spec => []TypeOK
<1>1. Init => TypeOK
  BY InitTypeOK
<1>2. TypeOK /\ [Next]_vars => TypeOK'
  BY StepTypeOK
<1> QED BY <1>1, <1>2, PTL DEF Spec

-----------------------------------------------------------------------------
LEMMA InitQuietInv == Init => QuietInv
  BY DEF Init, QuietInv, Admitted, Threads

\* Every step keeps a stopped bot quiet.
LEMMA StepQuietInv == TypeOK /\ QuietInv /\ [Next]_vars => QuietInv'
<1> SUFFICES ASSUME TypeOK, QuietInv, [Next]_vars PROVE QuietInv'
  OBVIOUS
<1> USE ThreadAssumption
    DEF TypeOK, QuietInv, Admitted, JoinStages, EndStages, flags, member,
        settings, things, call, counters, Threads
<1>1. ASSUME NEW t \in Threads, LeaveTakes(t) PROVE QuietInv'
  BY <1>1 DEF LeaveTakes, Goto
<1>2. ASSUME NEW t \in Threads, LeaveClears(t) PROVE QuietInv'
  BY <1>2 DEF LeaveClears, Goto
<1>3. ASSUME NEW t \in Threads, Left(t) PROVE QuietInv'
  BY <1>3 DEF Left, Goto, Return, BeginsJoin, Others
\* The bot is logged out.
<1>4. ASSUME NEW t \in Threads, JoinReads(t) PROVE QuietInv'
  BY <1>4 DEF JoinReads, Goto
<1>5. ASSUME NEW t \in Threads, JoinDenied(t) PROVE QuietInv'
  BY <1>5 DEF JoinDenied, Return, Goto
<1>6. ASSUME NEW t \in Threads, RoomFound(t) PROVE QuietInv'
  BY <1>6 DEF RoomFound, Goto
<1>7. ASSUME NEW t \in Threads, NoRoomFound(t) PROVE QuietInv'
  BY <1>7 DEF NoRoomFound, Return, Goto
<1>8. ASSUME NEW t \in Threads, NEW r \in Rooms, JoinGranted(t, r)
      PROVE  QuietInv'
  BY <1>8 DEF JoinGranted, Goto
<1>9. ASSUME NEW t \in Threads, JoinRefused(t) PROVE QuietInv'
  BY <1>9 DEF JoinRefused, Return, Goto
<1>10. ASSUME NEW t \in Threads, Replace(t) PROVE QuietInv'
  BY <1>10 DEF Replace, Goto, OldMedia
<1>11. ASSUME NEW t \in Threads, NEW up \in BOOLEAN, Produce(t, up)
       PROVE  QuietInv'
  BY <1>11 DEF Produce, Goto
<1>12. ASSUME NEW t \in Threads, ProducesNothing(t) PROVE QuietInv'
  BY <1>12 DEF ProducesNothing, Goto
<1>13. ASSUME NEW t \in Threads, Joined(t) PROVE QuietInv'
  BY <1>13 DEF Joined, Goto
<1>14. ASSUME NEW t \in Threads, NEW known \in BOOLEAN, PeerKnown(t, known)
       PROVE  QuietInv'
  BY <1>14 DEF PeerKnown, Goto
\* A stopped bot does not want its loopback.
<1>15. ASSUME NEW t \in Threads, LoopbackApply(t) PROVE QuietInv'
  BY <1>15 DEF LoopbackApply, Goto, Return, WantLoopback
<1>16. ASSUME NEW t \in Threads, NEW up \in BOOLEAN, LoopbackStarts(t, up)
       PROVE  QuietInv'
  BY <1>16 DEF LoopbackStarts, Return, LoopbackLoses, Goto
<1>17. ASSUME RequestJoin PROVE QuietInv'
  BY <1>17 DEF RequestJoin, Goto, Request, BeginsJoin, Others
<1>18. ASSUME NEW t \in Threads, RequestLeave(t) PROVE QuietInv'
  BY <1>18 DEF RequestLeave, Goto, Request, BeginsEnd, Others
<1>19. ASSUME NEW t \in Threads, RequestRejoin(t) PROVE QuietInv'
  BY <1>19 DEF RequestRejoin, Goto, Request, BeginsEnd, Others
<1>20. ASSUME NEW t \in Threads, NEW on \in BOOLEAN, RequestFollow(t, on)
       PROVE  QuietInv'
  BY <1>20 DEF RequestFollow, Request
<1>21. ASSUME NEW on \in BOOLEAN, RequestLoopback(on) PROVE QuietInv'
  BY <1>21 DEF RequestLoopback, Goto, Request
\* A join in flight makes the stop an overlap.
<1>22. ASSUME Stop PROVE QuietInv'
  BY <1>22 DEF Stop, Goto, Request, BeginsEnd, Others
<1>23. ASSUME BotLogout PROVE QuietInv'
  BY <1>23 DEF BotLogout, Goto, Request, BeginsEnd, Others
<1>24. ASSUME Ended PROVE QuietInv'
  BY <1>24 DEF Ended, Return, Goto
<1>25. ASSUME BotLogin PROVE QuietInv'
  BY <1>25 DEF BotLogin, Goto, Request
\* A login that succeeds ends the stop.
<1>26. ASSUME NEW ok \in BOOLEAN, LoginReturns(ok) PROVE QuietInv'
  BY <1>26 DEF LoginReturns, Goto
<1>27. ASSUME Start PROVE QuietInv'
  BY <1>27 DEF Start, Goto, Request
\* So does a session that is still good.
<1>28. ASSUME NEW ok \in BOOLEAN, StartChecked(ok) PROVE QuietInv'
  BY <1>28 DEF StartChecked, Goto
<1>29. ASSUME NEW up \in BOOLEAN, BotConnects(up) PROVE QuietInv'
  BY <1>29 DEF BotConnects, Return, Goto
<1>30. ASSUME HostAccountChanges PROVE QuietInv'
  BY <1>30 DEF HostAccountChanges, Request
<1>31. ASSUME NEW r \in Rooms \union {NoRoom}, OperatorMoves(r)
       PROVE  QuietInv'
  BY <1>31 DEF OperatorMoves
<1>32. ASSUME FollowReads PROVE QuietInv'
  BY <1>32 DEF FollowReads, Goto
<1>33. ASSUME FollowInactive PROVE QuietInv'
  BY <1>33 DEF FollowInactive
<1>34. ASSUME FollowHolds PROVE QuietInv'
  BY <1>34 DEF FollowHolds, Return, Settled, Goto
<1>35. ASSUME FollowMisses PROVE QuietInv'
  BY <1>35 DEF FollowMisses, Return, Settled, Confirmed, Goto
<1>36. ASSUME FollowLeaves PROVE QuietInv'
  BY <1>36 DEF FollowLeaves, Goto, BeginsEnd, Settled, Confirmed, Others
<1>37. ASSUME FollowJoins PROVE QuietInv'
  BY <1>37 DEF FollowJoins, Goto, BeginsJoin, Settled, Others
<1>38. CASE UNCHANGED vars
  BY <1>38 DEF vars
<1> QED BY <1>1, <1>2, <1>3, <1>4, <1>5, <1>6, <1>7, <1>8, <1>9, <1>10, <1>11,
    <1>12, <1>13, <1>14, <1>15, <1>16, <1>17, <1>18, <1>19, <1>20, <1>21,
    <1>22, <1>23, <1>24, <1>25, <1>26, <1>27, <1>28, <1>29, <1>30, <1>31,
    <1>32, <1>33, <1>34, <1>35, <1>36, <1>37, <1>38 DEF Next, Step, WebStep,
    FollowStep, Requests

\* A stopped bot is quiet: for any number of assistant threads, requests and
\* rooms, nothing restarts its media or joins it, unless a join ran at the same
\* time as the stop or a leave.
THEOREM StoppedIsQuiet == Spec => []QuietWhenStopped
<1>1. Init => TypeOK /\ QuietInv
  BY InitTypeOK, InitQuietInv
<1>2. TypeOK /\ QuietInv /\ [Next]_vars => (TypeOK /\ QuietInv)'
  BY StepTypeOK, StepQuietInv
<1>3. QuietInv => QuietWhenStopped
  BY DEF QuietInv, QuietWhenStopped
<1> QED BY <1>1, <1>2, <1>3, PTL DEF Spec

-----------------------------------------------------------------------------
LEMMA InitKeptInv == Init => KeptInv
  BY DEF Init, KeptInv, Entering, Threads

\* Every step keeps what is running with an owner.
LEMMA StepKeptInv == TypeOK /\ KeptInv /\ [Next]_vars => KeptInv'
<1> SUFFICES ASSUME TypeOK, KeptInv, [Next]_vars PROVE KeptInv'
  OBVIOUS
<1> USE ThreadAssumption
    DEF TypeOK, KeptInv, Entering, JoinStages, EndStages, flags, member,
        settings, things, call, counters, Threads
<1>1. ASSUME NEW t \in Threads, LeaveTakes(t) PROVE KeptInv'
  BY <1>1 DEF LeaveTakes, Goto
<1>2. ASSUME NEW t \in Threads, LeaveClears(t) PROVE KeptInv'
  BY <1>2 DEF LeaveClears, Goto
\* The thread that begins to join notes any other that is entering.
<1>3. ASSUME NEW t \in Threads, Left(t) PROVE KeptInv'
  BY <1>3 DEF Left, Goto, Return, BeginsJoin, Others
<1>4. ASSUME NEW t \in Threads, JoinReads(t) PROVE KeptInv'
  BY <1>4 DEF JoinReads, Goto
<1>5. ASSUME NEW t \in Threads, JoinDenied(t) PROVE KeptInv'
  BY <1>5 DEF JoinDenied, Return, Goto
<1>6. ASSUME NEW t \in Threads, RoomFound(t) PROVE KeptInv'
  BY <1>6 DEF RoomFound, Goto
<1>7. ASSUME NEW t \in Threads, NoRoomFound(t) PROVE KeptInv'
  BY <1>7 DEF NoRoomFound, Return, Goto
<1>8. ASSUME NEW t \in Threads, NEW r \in Rooms, JoinGranted(t, r)
      PROVE  KeptInv'
  BY <1>8 DEF JoinGranted, Goto
<1>9. ASSUME NEW t \in Threads, JoinRefused(t) PROVE KeptInv'
  BY <1>9 DEF JoinRefused, Return, Goto
\* The old producer is stopped.
<1>10. ASSUME NEW t \in Threads, Replace(t) PROVE KeptInv'
  BY <1>10 DEF Replace, Goto, OldMedia
\* No other thread stores one between the two steps of this one.
<1>11. ASSUME NEW t \in Threads, NEW up \in BOOLEAN, Produce(t, up)
       PROVE  KeptInv'
  BY <1>11 DEF Produce, Goto
<1>12. ASSUME NEW t \in Threads, ProducesNothing(t) PROVE KeptInv'
  BY <1>12 DEF ProducesNothing, Goto
<1>13. ASSUME NEW t \in Threads, Joined(t) PROVE KeptInv'
  BY <1>13 DEF Joined, Goto
<1>14. ASSUME NEW t \in Threads, NEW known \in BOOLEAN, PeerKnown(t, known)
       PROVE  KeptInv'
  BY <1>14 DEF PeerKnown, Goto
<1>15. ASSUME NEW t \in Threads, LoopbackApply(t) PROVE KeptInv'
  BY <1>15 DEF LoopbackApply, Goto, Return, WantLoopback
<1>16. ASSUME NEW t \in Threads, NEW up \in BOOLEAN, LoopbackStarts(t, up)
       PROVE  KeptInv'
  BY <1>16 DEF LoopbackStarts, Return, LoopbackLoses, Goto
<1>17. ASSUME RequestJoin PROVE KeptInv'
  BY <1>17 DEF RequestJoin, Goto, Request, BeginsJoin, Others
<1>18. ASSUME NEW t \in Threads, RequestLeave(t) PROVE KeptInv'
  BY <1>18 DEF RequestLeave, Goto, Request, BeginsEnd, Others
<1>19. ASSUME NEW t \in Threads, RequestRejoin(t) PROVE KeptInv'
  BY <1>19 DEF RequestRejoin, Goto, Request, BeginsEnd, Others
<1>20. ASSUME NEW t \in Threads, NEW on \in BOOLEAN, RequestFollow(t, on)
       PROVE  KeptInv'
  BY <1>20 DEF RequestFollow, Request
<1>21. ASSUME NEW on \in BOOLEAN, RequestLoopback(on) PROVE KeptInv'
  BY <1>21 DEF RequestLoopback, Goto, Request
<1>22. ASSUME Stop PROVE KeptInv'
  BY <1>22 DEF Stop, Goto, Request, BeginsEnd, Others
<1>23. ASSUME BotLogout PROVE KeptInv'
  BY <1>23 DEF BotLogout, Goto, Request, BeginsEnd, Others
<1>24. ASSUME Ended PROVE KeptInv'
  BY <1>24 DEF Ended, Return, Goto
<1>25. ASSUME BotLogin PROVE KeptInv'
  BY <1>25 DEF BotLogin, Goto, Request
<1>26. ASSUME NEW ok \in BOOLEAN, LoginReturns(ok) PROVE KeptInv'
  BY <1>26 DEF LoginReturns, Goto
<1>27. ASSUME Start PROVE KeptInv'
  BY <1>27 DEF Start, Goto, Request
<1>28. ASSUME NEW ok \in BOOLEAN, StartChecked(ok) PROVE KeptInv'
  BY <1>28 DEF StartChecked, Goto
<1>29. ASSUME NEW up \in BOOLEAN, BotConnects(up) PROVE KeptInv'
  BY <1>29 DEF BotConnects, Return, Goto
<1>30. ASSUME HostAccountChanges PROVE KeptInv'
  BY <1>30 DEF HostAccountChanges, Request
<1>31. ASSUME NEW r \in Rooms \union {NoRoom}, OperatorMoves(r) PROVE KeptInv'
  BY <1>31 DEF OperatorMoves
<1>32. ASSUME FollowReads PROVE KeptInv'
  BY <1>32 DEF FollowReads, Goto
<1>33. ASSUME FollowInactive PROVE KeptInv'
  BY <1>33 DEF FollowInactive
<1>34. ASSUME FollowHolds PROVE KeptInv'
  BY <1>34 DEF FollowHolds, Return, Settled, Goto
<1>35. ASSUME FollowMisses PROVE KeptInv'
  BY <1>35 DEF FollowMisses, Return, Settled, Confirmed, Goto
<1>36. ASSUME FollowLeaves PROVE KeptInv'
  BY <1>36 DEF FollowLeaves, Goto, BeginsEnd, Settled, Confirmed, Others
<1>37. ASSUME FollowJoins PROVE KeptInv'
  BY <1>37 DEF FollowJoins, Goto, BeginsJoin, Settled, Others
<1>38. CASE UNCHANGED vars
  BY <1>38 DEF vars
<1> QED BY <1>1, <1>2, <1>3, <1>4, <1>5, <1>6, <1>7, <1>8, <1>9, <1>10, <1>11,
    <1>12, <1>13, <1>14, <1>15, <1>16, <1>17, <1>18, <1>19, <1>20, <1>21,
    <1>22, <1>23, <1>24, <1>25, <1>26, <1>27, <1>28, <1>29, <1>30, <1>31,
    <1>32, <1>33, <1>34, <1>35, <1>36, <1>37, <1>38 DEF Next, Step, WebStep,
    FollowStep, Requests

\* What the bot has running always has an owner who can stop it: a loopback
\* always, a producer or an avatar unless two joins ran at the same time.
THEOREM ProducersOwned == Spec => []ProducersKept
<1>1. Init => TypeOK /\ KeptInv
  BY InitTypeOK, InitKeptInv
<1>2. TypeOK /\ KeptInv /\ [Next]_vars => (TypeOK /\ KeptInv)'
  BY StepTypeOK, StepKeptInv
<1>3. KeptInv => ProducersKept
  BY DEF KeptInv, ProducersKept
<1> QED BY <1>1, <1>2, <1>3, PTL DEF Spec

-----------------------------------------------------------------------------
(***************************************************************************)
(* The room router (RoomCheck).                                            *)
(***************************************************************************)
\* Whoever an arm or an utterance names is somebody, and a check that the tool
\* is about to arm is one of the bounded number.
RouterTypes ==
    /\ RouterTypeOK
    /\ tool.at # "idle" => tool.who \in Strangers
    /\ tool.at = "mic" => armed < MaxChecks
    /\ worker.at # "idle" => worker.who \in People
    /\ \A k \in Checks :
           timer[k].at = "waits" => timer[k].who \in Strangers

Judging == worker.at \in {"mic", "judge"}

\* The check that is armed and the one that is being judged are two checks,
\* neither has a verdict yet, and nor has one that is yet to be armed.
VerdictInv ==
    /\ OneVerdict
    /\ running # 0 => verdicts[running] = 0
    /\ Judging => /\ worker.check \in 1 .. armed /\ worker.check # running
                  /\ verdicts[worker.check] = 0
    /\ \A k \in Checks : k > armed => verdicts[k] = 0

\* Both hold when the router starts.
LEMMA InitRouter == RouterInit => RouterTypes /\ VerdictInv
<1> SUFFICES ASSUME RouterInit PROVE RouterTypes /\ VerdictInv
  OBVIOUS
<1> USE RouterAssumption DEF RouterInit, People, Checks
<1>1. queue \in Seq(People) /\ Len(queue) <= QueueMax
  OBVIOUS
<1>2. /\ worker \in [at : {"idle", "taken", "translate", "mic", "judge"},
                    who : People \union {Nobody},
                    check : 0 .. MaxChecks]
      /\ timer \in [Checks ->
                        [at : {"unborn", "waits", "clears", "gone"},
                         who : People \union {Nobody}]]
  OBVIOUS
<1>3. verdicts \in [Checks -> Nat]
  OBVIOUS
<1>4. mic = Nobody <=> running = 0
  OBVIOUS
<1>5. enabled \in BOOLEAN /\ heard \subseteq People /\ Owner \in heard
  OBVIOUS
<1>6. /\ tool \in [at : {"idle", "mic", "translate"},
                  who : People \union {Nobody}]
      /\ armed \in 0 .. MaxChecks /\ running \in 0 .. armed
  OBVIOUS
<1>7. RouterTypeOK
  BY <1>1, <1>2, <1>3, <1>4, <1>5, <1>6 DEF RouterTypeOK
<1> QED BY <1>7 DEF RouterTypes, VerdictInv, Judging, OneVerdict

\* A verdict is counted on one check, whichever it is.
LEMMA DecidedTypes ==
    ASSUME verdicts \in [Checks -> Nat], NEW k
    PROVE  Decided(k) \in [Checks -> Nat]
<1>1. Decided(k) = [j \in Checks |->
                              IF j = k THEN verdicts[j] + 1 ELSE verdicts[j]]
  BY DEF Decided
<1>2. \A j \in Checks : verdicts[j] \in Nat /\ verdicts[j] + 1 \in Nat
  OBVIOUS
<1> QED BY <1>1, <1>2

\* Every step of the tool, the audio thread, the worker and the timeout
\* threads keeps the types.
LEMMA StepRouterTypes ==
    RouterTypes /\ [RouterNext]_routerVars => RouterTypes'
<1> SUFFICES ASSUME RouterTypes, [RouterNext]_routerVars
             PROVE  RouterTypes'
  OBVIOUS
<1> USE RouterAssumption DEF RouterTypes, RouterTypeOK,
            router, tally, Checks, People
<1>1. ASSUME NEW on \in BOOLEAN, SetEnabled(on) PROVE RouterTypes'
  BY <1>1 DEF SetEnabled
<1>2. ASSUME NEW kind \in {"mic", "translate"}, NEW p \in Strangers,
             Boosts(kind, p)
      PROVE  RouterTypes'
  BY <1>2 DEF Boosts
<1>3. CASE ArmsMicCheck
  BY <1>3 DEF ArmsMicCheck
<1>4. CASE ArmsTranslation
  BY <1>4 DEF ArmsTranslation
<1>5. CASE Polls
  BY <1>5 DEF Polls, Audible
<1>6. ASSUME NEW p \in People, Speaks(p) PROVE RouterTypes'
  BY <1>6 DEF Speaks, Admits
<1>7. CASE WorkerTakes
  BY <1>7 DEF WorkerTakes
<1>8. CASE WorkerDrops
  BY <1>8 DEF WorkerDrops, Free
<1>9. CASE MatchesTranslation
  BY <1>9 DEF MatchesTranslation
<1>10. CASE MatchesMicCheck
  <2>1. worker' = [at |-> "mic", who |-> worker.who, check |-> running]
    BY <1>10 DEF MatchesMicCheck
  <2>2. mic' = Nobody /\ running' = 0
    BY <1>10 DEF MatchesMicCheck, MicAfterAnswer
  <2> QED BY <1>10, <2>1, <2>2 DEF MatchesMicCheck
<1>11. CASE TranscriptionSucceeds
  <2>1. \/ worker' = Free
        \/ worker' = [at |-> "judge", who |-> worker.who,
                      check |-> worker.check]
    BY <1>11 DEF TranscriptionSucceeds
  <2> QED BY <1>11, <2>1 DEF TranscriptionSucceeds, Free
<1>12. CASE TranscriptionFails
  BY <1>12 DEF TranscriptionFails, Free, BoostAfterFailure
<1>13. CASE Judged
  <2>1. verdicts' \in [Checks -> Nat]
    BY <1>13, DecidedTypes DEF Judged
  <2> QED BY <1>13, <2>1 DEF Judged, Free
<1>14. ASSUME NEW k \in Checks, TimesOut(k) PROVE RouterTypes'
  <2>1. verdicts' \in [Checks -> Nat]
    BY <1>14, DecidedTypes DEF TimesOut
  <2>2. timer' = [timer EXCEPT ![k].at = "clears"]
    BY <1>14 DEF TimesOut
  <2>3. \/ mic' = Nobody /\ running' = 0
        \/ UNCHANGED <<mic, running>>
    BY <1>14 DEF TimesOut
  <2>4. /\ timer' \in [Checks ->
                           [at : {"unborn", "waits", "clears", "gone"},
                            who : People \union {Nobody}]]
        /\ \A j \in Checks :
               /\ timer'[j].who = timer[j].who
               /\ timer'[j].at = "waits" => timer[j].at = "waits"
    BY <2>2
  <2>5. UNCHANGED <<enabled, xlate, queue, boost, heard, tool, worker, armed>>
    BY <1>14 DEF TimesOut
  <2>6. mic' = Nobody <=> running' = 0
    BY <2>3
  <2>7. mic' \in People \union {Nobody} /\ running' \in 0 .. armed'
    BY <2>3, <2>5
  <2>8. \A j \in Checks :
            timer'[j].at = "waits" => timer'[j].who \in Strangers
    BY <2>4
  <2> QED BY <2>1, <2>4, <2>5, <2>6, <2>7, <2>8
<1>15. ASSUME NEW k \in Checks, TimeoutClears(k)
       PROVE  RouterTypes'
  BY <1>15 DEF TimeoutClears
<1>16. CASE UNCHANGED routerVars
  BY <1>16 DEF routerVars
<1> QED BY <1>1, <1>2, <1>3, <1>4, <1>5, <1>6, <1>7, <1>8, <1>9, <1>10, <1>11,
           <1>12, <1>13, <1>14, <1>15, <1>16
     DEF RouterNext, Tool, Worker, Timeout

\* Four steps touch a verdict or the check it would be for: arming takes a new
\* check, the worker's match moves the armed check to the worker, its judgement
\* decides that one, and the timeout decides the armed one.  The others leave
\* all of it alone (<1>u).
LEMMA StepVerdictInv ==
    RouterTypes /\ VerdictInv /\ [RouterNext]_routerVars => VerdictInv'
<1> SUFFICES ASSUME RouterTypes, VerdictInv, [RouterNext]_routerVars
             PROVE  VerdictInv'
  OBVIOUS
<1> USE DEF Checks, router, tally
<1>0. /\ MaxChecks \in Nat /\ Owner \notin Strangers /\ Nobody \notin Strangers
      /\ armed \in 0 .. MaxChecks /\ running \in 0 .. armed
      /\ mic = Nobody <=> running = 0
      /\ verdicts \in [1 .. MaxChecks -> Nat]
      /\ worker.at # "idle" => worker.who # Nobody
      /\ tool.at = "mic" => armed < MaxChecks
      /\ \A k \in 1 .. MaxChecks :
             timer[k].at = "waits" => timer[k].who # Nobody
  BY RouterAssumption DEF RouterTypes, RouterTypeOK, People
<1>u. ASSUME UNCHANGED <<verdicts, running, armed>>,
             worker'.at \in {"mic", "judge"}
                 => /\ worker.at \in {"mic", "judge"}
                    /\ worker'.check = worker.check
      PROVE  VerdictInv'
  BY <1>u DEF VerdictInv, Judging, OneVerdict
<1>1. ASSUME NEW on \in BOOLEAN, SetEnabled(on) PROVE VerdictInv'
  BY <1>1, <1>u DEF SetEnabled
<1>2. ASSUME NEW kind \in {"mic", "translate"}, NEW p \in Strangers,
             Boosts(kind, p)
      PROVE  VerdictInv'
  BY <1>2, <1>u DEF Boosts
<1>3. CASE ArmsMicCheck
  BY <1>3, <1>0 DEF ArmsMicCheck, VerdictInv, Judging, OneVerdict
<1>4. CASE ArmsTranslation
  BY <1>4, <1>u DEF ArmsTranslation
<1>5. CASE Polls
  BY <1>5, <1>u DEF Polls
<1>6. ASSUME NEW p \in People, Speaks(p) PROVE VerdictInv'
  BY <1>6, <1>u DEF Speaks
<1>7. CASE WorkerTakes
  BY <1>7, <1>u DEF WorkerTakes
<1>8. CASE WorkerDrops
  BY <1>8, <1>u DEF WorkerDrops, Free
<1>9. CASE MatchesTranslation
  <2>1. worker'.at = "translate"
    BY <1>9 DEF MatchesTranslation, RouterTypes, RouterTypeOK
  <2> QED BY <1>9, <2>1, <1>u DEF MatchesTranslation
<1>10. CASE MatchesMicCheck
  <2>1. worker'.at = "mic" /\ worker'.check = running
    BY <1>10 DEF MatchesMicCheck, RouterTypes, RouterTypeOK
  <2>2. running # 0 /\ running' = 0 /\ UNCHANGED <<armed, verdicts>>
    BY <1>10, <1>0 DEF MatchesMicCheck, MicAfterAnswer
  <2> QED BY <1>0, <2>1, <2>2 DEF VerdictInv, Judging, OneVerdict
<1>11. CASE TranscriptionSucceeds
  <2>1. worker'.at \in {"mic", "judge"}
            => worker.at \in {"mic", "judge"} /\ worker'.check = worker.check
    BY <1>11 DEF TranscriptionSucceeds, Free, RouterTypes, RouterTypeOK
  <2> QED BY <1>11, <2>1, <1>u DEF TranscriptionSucceeds
<1>12. CASE TranscriptionFails
  BY <1>12, <1>u DEF TranscriptionFails, Free
<1>13. CASE Judged
  <2> DEFINE c == worker.check
  <2>1. /\ c \in 1 .. armed /\ c # running /\ verdicts[c] = 0
        /\ verdicts' = [verdicts EXCEPT ![c] = verdicts[c] + 1]
        /\ worker'.at = "idle" /\ UNCHANGED <<armed, running>>
    BY <1>13
       DEF Judged, Decided, Free, VerdictInv, Judging
  <2>2. c \in 1 .. MaxChecks /\ verdicts'[c] = 1
        /\ \A k \in 1 .. MaxChecks : k # c => verdicts'[k] = verdicts[k]
    BY <1>0, <2>1
  <2> HIDE DEF c
  <2> QED BY <1>0, <2>1, <2>2 DEF VerdictInv, Judging, OneVerdict
<1>14. ASSUME NEW k \in Checks, TimesOut(k) PROVE VerdictInv'
  <2>1. CASE ~Unanswered(k)
    BY <1>14, <2>1, <1>u DEF TimesOut
  <2>2. CASE Unanswered(k)
    <3>1. running # 0 /\ verdicts[running] = 0
      BY <1>14, <2>2, <1>0 DEF TimesOut, Unanswered, VerdictInv
    <3>2. /\ running' = 0 /\ UNCHANGED <<armed, worker>>
          /\ verdicts' = [verdicts EXCEPT ![running] = verdicts[running] + 1]
      BY <1>14, <2>2 DEF TimesOut, Decided
    <3>3. running \in 1 .. MaxChecks /\ verdicts'[running] = 1
          /\ \A j \in 1 .. MaxChecks :
                 j # running => verdicts'[j] = verdicts[j]
      BY <1>0, <3>1, <3>2
    <3> QED BY <1>0, <3>1, <3>2, <3>3
            DEF VerdictInv, Judging, OneVerdict
  <2> QED BY <2>1, <2>2
<1>15. ASSUME NEW k \in Checks, TimeoutClears(k)
       PROVE  VerdictInv'
  BY <1>15, <1>u DEF TimeoutClears
<1>16. CASE UNCHANGED routerVars
  BY <1>16, <1>u DEF routerVars
<1> QED BY <1>1, <1>2, <1>3, <1>4, <1>5, <1>6, <1>7, <1>8, <1>9, <1>10, <1>11,
           <1>12, <1>13, <1>14, <1>15, <1>16
     DEF RouterNext, Tool, Worker, Timeout

\* The router keeps its types: the queue never exceeds RC_QUEUE_MAX, and a
\* check is armed exactly while mic_active is set.
THEOREM RouterTypesHold == RouterSpec => []RouterTypeOK
<1>1. RouterInit => RouterTypes
  BY InitRouter
<1>2. RouterTypes /\ [RouterNext]_routerVars => RouterTypes'
  BY StepRouterTypes
<1>3. RouterTypes => RouterTypeOK
  BY DEF RouterTypes
<1> QED BY <1>1, <1>2, <1>3, PTL DEF RouterSpec

\* However answers, timeouts and new checks of the same speaker race, each
\* check that bsdr_roomcmd arms is welcomed or banned at most once.
THEOREM ChecksDecidedOnce == RouterSpec => []OneVerdict
<1>1. RouterInit => RouterTypes /\ VerdictInv
  BY InitRouter
<1>2. RouterTypes /\ VerdictInv /\ [RouterNext]_routerVars
          => RouterTypes' /\ VerdictInv'
  BY StepRouterTypes, StepVerdictInv
<1>3. RouterTypes /\ VerdictInv => OneVerdict
  BY DEF VerdictInv
<1> QED BY <1>1, <1>2, <1>3, PTL DEF RouterSpec

\* Who will end an armed check, and who will silence a speaker again that was
\* made audible: a check has a timeout thread that waits for its speaker, also
\* after a newer check has replaced an older one; and a boost belongs to an
\* arm, to the tool that is about to arm, or to a thread that is about to take
\* it away.
CheckHasTimeout ==
    mic # Nobody =>
        \E k \in Checks : timer[k].at = "waits" /\ timer[k].who = mic
BoostHasOwner ==
    boost # Nobody =>
        \/ tool.at # "idle" \/ mic # Nobody \/ xlate # Nobody
        \/ worker.at \in {"translate", "mic"}
        \/ \E k \in Checks : timer[k].at = "clears"
OwnedInv == CheckHasTimeout /\ BoostHasOwner

\* Arming, the worker's match and the two steps of a timeout change them; the
\* other steps do not (<1>u).
LEMMA StepOwnedInv ==
    RouterTypes /\ OwnedInv /\ [RouterNext]_routerVars => OwnedInv'
<1> SUFFICES ASSUME RouterTypes, OwnedInv, [RouterNext]_routerVars
             PROVE  OwnedInv'
  OBVIOUS
<1> USE DEF Checks, router, tally
<1>0. /\ MaxChecks \in Nat /\ armed \in 0 .. MaxChecks
      /\ Nobody \notin Strangers
      /\ tool.at = "mic" => armed < MaxChecks
      /\ tool.at # "idle" => tool.who \in Strangers
      /\ worker.at # "idle" => worker.who # Nobody
      /\ \E S, T : timer \in [1 .. MaxChecks -> [at : S, who : T]]
  BY RouterAssumption DEF RouterTypes, RouterTypeOK, People
<1>u. ASSUME UNCHANGED <<mic, xlate, timer>>,
             boost' \in {boost, Nobody},
             boost' # Nobody => /\ tool.at # "idle" => tool'.at # "idle"
                                /\ worker.at \in {"translate", "mic"}
                                       => worker'.at \in {"translate", "mic"}
      PROVE  OwnedInv'
  BY <1>u DEF OwnedInv, CheckHasTimeout, BoostHasOwner
<1>1. ASSUME NEW on \in BOOLEAN, SetEnabled(on) PROVE OwnedInv'
  BY <1>1, <1>u DEF SetEnabled
<1>2. ASSUME NEW kind \in {"mic", "translate"}, NEW p \in Strangers,
             Boosts(kind, p)
      PROVE  OwnedInv'
  <2>1. tool'.at # "idle" /\ UNCHANGED <<mic, timer>>
    BY <1>2 DEF Boosts
  <2> QED BY <2>1 DEF OwnedInv, CheckHasTimeout, BoostHasOwner
<1>3. CASE ArmsMicCheck
  <2>1. /\ mic' = tool.who /\ mic' # Nobody /\ armed + 1 \in 1 .. MaxChecks
        /\ timer' = [timer EXCEPT ![armed + 1] =
                         [at |-> "waits", who |-> tool.who]]
    BY <1>0, <1>3 DEF ArmsMicCheck
  <2>2. timer'[armed + 1] = [at |-> "waits", who |-> mic']
    BY <1>0, <2>1
  <2> QED BY <2>1, <2>2 DEF OwnedInv, CheckHasTimeout, BoostHasOwner
<1>4. CASE ArmsTranslation
  <2>1. xlate' # Nobody /\ UNCHANGED <<mic, timer>>
    BY <1>0, <1>4 DEF ArmsTranslation
  <2> QED BY <2>1 DEF OwnedInv, CheckHasTimeout, BoostHasOwner
<1>5. CASE Polls
  BY <1>5, <1>u DEF Polls
<1>6. ASSUME NEW p \in People, Speaks(p) PROVE OwnedInv'
  BY <1>6, <1>u DEF Speaks
<1>7. CASE WorkerTakes
  BY <1>7, <1>u DEF WorkerTakes
<1>8. CASE WorkerDrops
  BY <1>8, <1>u DEF WorkerDrops
<1>9. CASE MatchesTranslation \/ MatchesMicCheck
  <2>1. /\ worker'.at \in {"translate", "mic"} /\ timer' = timer
        /\ mic' \in {mic, Nobody}
    BY <1>9
       DEF MatchesTranslation, MatchesMicCheck,
           MicAfterAnswer, RouterTypes, RouterTypeOK
  <2> QED BY <2>1 DEF OwnedInv, CheckHasTimeout, BoostHasOwner
<1>10. CASE TranscriptionSucceeds \/ TranscriptionFails
  <2>1. boost' = Nobody /\ UNCHANGED <<mic, timer>>
    BY <1>10 DEF TranscriptionSucceeds, TranscriptionFails,
                 BoostAfterFailure
  <2> QED BY <2>1 DEF OwnedInv, CheckHasTimeout, BoostHasOwner
<1>11. CASE Judged
  BY <1>11, <1>u DEF Judged
<1>12. ASSUME NEW k \in Checks, TimesOut(k) PROVE OwnedInv'
  <2>1. /\ timer' = [timer EXCEPT ![k].at = "clears"]
        /\ mic' = Nobody \/ (mic' = mic /\ mic # timer[k].who)
    BY <1>12 DEF TimesOut, Unanswered
  <2>2. /\ timer'[k].at = "clears"
        /\ \A j \in 1 .. MaxChecks : j # k => timer'[j] = timer[j]
    BY <1>0, <2>1
  <2> QED BY <2>1, <2>2 DEF OwnedInv, CheckHasTimeout, BoostHasOwner
<1>13. ASSUME NEW k \in Checks, TimeoutClears(k)
       PROVE  OwnedInv'
  <2>1. /\ boost' = Nobody /\ mic' = mic /\ timer[k].at = "clears"
        /\ timer' = [timer EXCEPT ![k].at = "gone"]
    BY <1>13 DEF TimeoutClears
  <2>2. \A j \in 1 .. MaxChecks : j # k => timer'[j] = timer[j]
    BY <1>0, <2>1
  <2> QED BY <2>1, <2>2 DEF OwnedInv, CheckHasTimeout, BoostHasOwner
<1>14. CASE UNCHANGED routerVars
  BY <1>14, <1>u DEF routerVars
<1> QED BY <1>1, <1>2, <1>3, <1>4, <1>5, <1>6, <1>7, <1>8, <1>9, <1>10, <1>11,
           <1>12, <1>13, <1>14
     DEF RouterNext, Tool, Worker, Timeout

\* However checks replace each other and answers race with timeouts, no check
\* is left without the thread that ends it, and no stranger is left audible
\* whom nothing will silence: what CheckEnds and StrangersSilenced rest on.
THEOREM NobodyForgotten == RouterSpec => [](CheckHasTimeout /\ BoostHasOwner)
<1>1. RouterInit => RouterTypes /\ OwnedInv
  <2>1. RouterInit => OwnedInv
    BY DEF RouterInit, OwnedInv, CheckHasTimeout, BoostHasOwner
  <2> QED BY <2>1, InitRouter
<1>2. RouterTypes /\ OwnedInv /\ [RouterNext]_routerVars
          => RouterTypes' /\ OwnedInv'
  BY StepRouterTypes, StepOwnedInv
<1>3. OwnedInv => CheckHasTimeout /\ BoostHasOwner
  BY DEF OwnedInv
<1> QED BY <1>1, <1>2, <1>3, PTL DEF RouterSpec

-----------------------------------------------------------------------------
(***************************************************************************)
(* The voice assistant (Assistant).                                        *)
(***************************************************************************)
Prompted == {"prompt", "confirm"}
Working == {"transcribe", "round", "answer", "calls", "tool", "end"}
Released == {"prepare", "show", "transcribe", "round", "answer", "calls",
             "tool"}

\* A Send that the input thread is about to store, or that is stored since the
\* prompt was prepared, is one that was clicked for this capture.
SentInv ==
    /\ click = "send" => sent
    /\ cycle \in Prompted /\ send_req => sent
    /\ cycle \in Released => sent

\* The balloon offers Stop only while the cycle works, and the thread that
\* clicks is the one that would start the next cycle: the flag is set until the
\* loop looks at it.
StopInv ==
    /\ state = "working" => cycle \in Working
    /\ click = "abort" => cycle \in Working \union {"gone"}
    /\ halted => abort_req /\ cycle \in Working \union {"gone"}

\* A new prompt forgets old clicks, and a new cycle waits for the thread of the
\* last one: every step keeps SentInv.
LEMMA StepSentInv ==
    SentInv /\ [VoiceNext]_voiceVars => SentInv'
<1> SUFFICES ASSUME SentInv, [VoiceNext]_voiceVars PROVE SentInv'
  OBVIOUS
<1> USE DEF SentInv, Prompted, Working, Released, wishes, loop,
            history, Moves
<1>1. ASSUME NEW button \in Buttons, Looks(button) PROVE SentInv'
  BY <1>1 DEF Looks, Buttons
<1>2. CASE Trigger
  BY <1>2 DEF Trigger
<1>3. CASE StopCapture
  BY <1>3 DEF StopCapture
<1>4. CASE Confirm
  BY <1>4 DEF Confirm
<1>5. CASE Abort
  BY <1>5 DEF Abort
<1>6. CASE Begin
  BY <1>6 DEF Begin
<1>7. ASSUME NEW speech \in BOOLEAN, Listened(speech) PROVE SentInv'
  BY <1>7 DEF Listened
<1>8. CASE Asks
  BY <1>8 DEF Asks, StaleRequest
<1>9. CASE Prompts
  BY <1>9 DEF Prompts
<1>10. CASE Sent
  BY <1>10 DEF Sent
<1>11. CASE Discarded
  BY <1>11 DEF Discarded
<1>12. CASE Prepares
  BY <1>12 DEF Prepares
<1>13. CASE Works
  BY <1>13 DEF Works
<1>14. ASSUME NEW ok \in BOOLEAN, Transcribed(ok) PROVE SentInv'
  BY <1>14 DEF Transcribed
<1>15. CASE RoundEnds \/ RoundAsks \/ Answered
  BY <1>15 DEF RoundEnds, RoundAsks, Answered
<1>16. ASSUME NEW n \in 1 .. MaxTools, AnsweredWithCalls(n)
       PROVE  SentInv'
  BY <1>16 DEF AnsweredWithCalls
<1>17. CASE ToolBegins
  BY <1>17 DEF ToolBegins
<1>18. ASSUME NEW stops \in BOOLEAN, ToolReturns(stops) PROVE SentInv'
  BY <1>18 DEF ToolReturns
<1>19. CASE ToolsAborted \/ CallsHandled
  BY <1>19 DEF ToolsAborted, CallsHandled
<1>20. CASE Ends
  BY <1>20 DEF Ends
<1>21. CASE Frees \/ Freed
  BY <1>21 DEF Frees, Freed
<1>22. CASE UNCHANGED voiceVars
  BY <1>22 DEF voiceVars
<1> QED BY <1>1, <1>2, <1>3, <1>4, <1>5, <1>6, <1>7, <1>8, <1>9, <1>10, <1>11,
           <1>12, <1>13, <1>14, <1>15, <1>16, <1>17, <1>18, <1>19, <1>20,
           <1>21, <1>22
     DEF VoiceNext, Input, Cycle

\* Nothing is transcribed and no tool runs for a capture that the operator did
\* not send, wherever a late Send falls between two cycles.
THEOREM RunsSentOnly == VoiceSpec => []RunsOnlySent
<1>1. VoiceInit => SentInv
  BY DEF VoiceInit, SentInv, Prompted, Working, Released
<1>2. SentInv => RunsOnlySent
  BY DEF SentInv, Working, Released, RunsOnlySent
<1> QED BY <1>1, <1>2, StepSentInv, PTL DEF VoiceSpec

\* A stop that was set is forgotten only before the stop button is shown.
LEMMA StepStopInv ==
    StopInv /\ [VoiceNext]_voiceVars => StopInv'
<1> SUFFICES ASSUME StopInv, [VoiceNext]_voiceVars PROVE StopInv'
  OBVIOUS
<1> USE DEF StopInv, Working, wishes, loop,
            history, Moves
<1>1. ASSUME NEW button \in Buttons, Looks(button) PROVE StopInv'
  BY <1>1 DEF Looks, Shown
<1>2. CASE Trigger
  BY <1>2 DEF Trigger
<1>3. CASE StopCapture
  BY <1>3 DEF StopCapture
<1>4. CASE Confirm
  BY <1>4 DEF Confirm
<1>5. CASE Abort
  BY <1>5 DEF Abort
<1>6. CASE Begin
  BY <1>6 DEF Begin
<1>7. ASSUME NEW speech \in BOOLEAN, Listened(speech) PROVE StopInv'
  BY <1>7 DEF Listened
<1>8. CASE Asks
  BY <1>8 DEF Asks, StaleRequest
<1>9. CASE Prompts
  BY <1>9 DEF Prompts
<1>10. CASE Sent
  BY <1>10 DEF Sent
<1>11. CASE Discarded
  BY <1>11 DEF Discarded
<1>12. CASE Prepares
  BY <1>12 DEF Prepares
<1>13. CASE Works
  BY <1>13 DEF Works
<1>14. ASSUME NEW ok \in BOOLEAN, Transcribed(ok) PROVE StopInv'
  BY <1>14 DEF Transcribed, StopHeard
<1>15. CASE RoundEnds \/ RoundAsks \/ Answered
  BY <1>15 DEF RoundEnds, RoundAsks, Answered
<1>16. ASSUME NEW n \in 1 .. MaxTools, AnsweredWithCalls(n)
       PROVE  StopInv'
  BY <1>16 DEF AnsweredWithCalls
<1>17. CASE ToolBegins
  BY <1>17 DEF ToolBegins
<1>18. ASSUME NEW stops \in BOOLEAN, ToolReturns(stops) PROVE StopInv'
  BY <1>18 DEF ToolReturns
<1>19. CASE ToolsAborted \/ CallsHandled
  BY <1>19 DEF ToolsAborted, CallsHandled
<1>20. CASE Ends
  BY <1>20 DEF Ends
<1>21. CASE Frees \/ Freed
  BY <1>21 DEF Frees, Freed
<1>22. CASE UNCHANGED voiceVars
  BY <1>22 DEF voiceVars
<1> QED BY <1>1, <1>2, <1>3, <1>4, <1>5, <1>6, <1>7, <1>8, <1>9, <1>10, <1>11,
           <1>12, <1>13, <1>14, <1>15, <1>16, <1>17, <1>18, <1>19, <1>20,
           <1>21, <1>22
     DEF VoiceNext, Input, Cycle

\* Once the stop click has returned, no further tool call of that cycle passes
\* the test of the abort flag.
THEOREM StopIsFinal == VoiceSpec => StopStopsTools
<1>1. VoiceInit => StopInv
  BY DEF VoiceInit, StopInv
<1>2. StopInv /\ [VoiceNext]_voiceVars
          => [halted /\ cycle # "tool" => cycle' # "tool"]_voiceVars
  <2> SUFFICES ASSUME StopInv, VoiceNext, halted, cycle # "tool"
               PROVE  cycle' # "tool"
    OBVIOUS
  <2>1. abort_req
    BY DEF StopInv
  <2> QED BY <2>1
     DEF VoiceNext, Input, Cycle, Moves, Looks,
         Trigger, StopCapture, Confirm, Abort,
         Begin, Listened, Asks, Prompts, Sent,
         Discarded, Prepares, Works, Transcribed,
         RoundEnds, RoundAsks, Answered,
         AnsweredWithCalls, ToolBegins, ToolReturns,
         ToolsAborted, CallsHandled, Ends, Frees,
         Freed
<1> QED BY <1>1, <1>2, StepStopInv, PTL DEF VoiceSpec, StopStopsTools

Off == {"none", "gone"}

\* The balloon is idle exactly when no cycle runs, and it stays so until the
\* trigger that saw it idle has acted; once the main thread tears down there is
\* no click left, and it frees the assistant only when no cycle runs.
FreeInv ==
    /\ state = "idle" <=> cycle \in Off
    /\ click = "trigger" => cycle \in Off
    /\ main # "runs" => click = "none"
    /\ main = "freed" => cycle \in Off

\* Only the input thread starts a cycle, and only a cycle ends itself.
LEMMA StepFreeInv ==
    FreeInv /\ [VoiceNext]_voiceVars => FreeInv'
<1> SUFFICES ASSUME FreeInv, [VoiceNext]_voiceVars PROVE FreeInv'
  OBVIOUS
<1> USE DEF FreeInv, Off, wishes, loop,
            history, Moves
<1>1. ASSUME NEW button \in Buttons, Looks(button) PROVE FreeInv'
  BY <1>1 DEF Looks, Shown
<1>2. CASE Trigger
  BY <1>2 DEF Trigger
<1>3. CASE StopCapture
  BY <1>3 DEF StopCapture
<1>4. CASE Confirm
  BY <1>4 DEF Confirm
<1>5. CASE Abort
  BY <1>5 DEF Abort
<1>6. CASE Begin
  BY <1>6 DEF Begin
<1>7. ASSUME NEW speech \in BOOLEAN, Listened(speech) PROVE FreeInv'
  BY <1>7 DEF Listened
<1>8. CASE Asks
  BY <1>8 DEF Asks
<1>9. CASE Prompts
  BY <1>9 DEF Prompts
<1>10. CASE Sent
  BY <1>10 DEF Sent
<1>11. CASE Discarded
  BY <1>11 DEF Discarded
<1>12. CASE Prepares
  BY <1>12 DEF Prepares
<1>13. CASE Works
  BY <1>13 DEF Works
<1>14. ASSUME NEW ok \in BOOLEAN, Transcribed(ok) PROVE FreeInv'
  BY <1>14 DEF Transcribed
<1>15. CASE RoundEnds \/ RoundAsks \/ Answered
  BY <1>15 DEF RoundEnds, RoundAsks, Answered
<1>16. ASSUME NEW n \in 1 .. MaxTools, AnsweredWithCalls(n)
       PROVE  FreeInv'
  BY <1>16 DEF AnsweredWithCalls
<1>17. CASE ToolBegins
  BY <1>17 DEF ToolBegins
<1>18. ASSUME NEW stops \in BOOLEAN, ToolReturns(stops) PROVE FreeInv'
  BY <1>18 DEF ToolReturns
<1>19. CASE ToolsAborted \/ CallsHandled
  BY <1>19 DEF ToolsAborted, CallsHandled
<1>20. CASE Ends
  BY <1>20 DEF Ends
<1>21. CASE Frees \/ Freed
  BY <1>21 DEF Frees, Freed
<1>22. CASE UNCHANGED voiceVars
  BY <1>22 DEF voiceVars
<1> QED BY <1>1, <1>2, <1>3, <1>4, <1>5, <1>6, <1>7, <1>8, <1>9, <1>10, <1>11,
           <1>12, <1>13, <1>14, <1>15, <1>16, <1>17, <1>18, <1>19, <1>20,
           <1>21, <1>22
     DEF VoiceNext, Input, Cycle

TriggerFindsNobody == click = "trigger" => cycle \in Off
FreedForGood == main = "freed" => cycle \in Off /\ click = "none"

\* The input thread never waits for a running cycle when it joins the last one
\* in bsdr_voice_trigger, and bsdr_voice_free leaves nobody behind who still
\* uses the assistant.
THEOREM FreedUnused ==
    VoiceSpec => [](TriggerFindsNobody /\ FreedForGood)
<1>1. VoiceInit => FreeInv
  BY DEF VoiceInit, FreeInv, Off
<1>2. FreeInv => TriggerFindsNobody /\ FreedForGood
  BY DEF FreeInv, TriggerFindsNobody, FreedForGood
<1> QED BY <1>1, <1>2, StepFreeInv, PTL DEF VoiceSpec
=============================================================================
