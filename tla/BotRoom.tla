------------------------------ MODULE BotRoom ------------------------------
(***************************************************************************)
(* The second ("bot") Bigscreen account and the room it is in              *)
(* (src/src/app.c): logging it in, stopping and starting it, joining the   *)
(* room of the operator and leaving it, and follow-me, the tick of the     *)
(* main loop that keeps it with the operator.  The web UI, the assistant   *)
(* and the main loop call the same functions, which lock a->lock for a few *)
(* lines at a time and wait for Bigscreen, and for the threads of what     *)
(* they stop, without it.                                                  *)
(***************************************************************************)
EXTENDS Naturals, FiniteSets

CONSTANTS
    Web, Main,          \* the thread of the web UI and the main loop
    Assistants,         \* threads on which the assistant runs its tools
    Rooms, NoRoom,
    FollowConfirm,      \* FOLLOW_CONFIRM: polls that must agree
    MaxRequests,        \* bound: requests of the operator and the assistant
    MaxMoves            \* bound: times the operator changes room

ASSUME ThreadAssumption == Web # Main /\ {Web, Main} \intersect Assistants = {}
ASSUME NullAssumption == NoRoom \notin Rooms
ASSUME BoundAssumption ==
    FollowConfirm \in Nat \ {0} /\ MaxRequests \in Nat /\ MaxMoves \in Nat

VARIABLES
    cloud_logged_in,    \* the host account, see HostAccount
    bot_logged_in, bot_stopped,
    saved,              \* there is a bot session file
    bot_joined, bot_room_id,
    peer,               \* bot_audio_ip and bot_audio_port are known
    bot_follow, bot_loopback,
    media,              \* what the app holds: its presence socket (bot_ws),
                        \* what it has in the room (bot_mic, and bot_room,
                        \* the avatar, handled alike), loopback (bot_audio)
    lost,               \* those of which one still runs and no one can stop it
    operator,           \* the room Bigscreen reports for the operator
    miss,
    at,                 \* for each thread, the stage of the call it is in
    next,               \* what it does once it has left the room
    room,               \* the room it read, or joins
    requests, moves,    \* the bounds' counters
    overlaps            \* history: which calls have run at the same time

flags == <<cloud_logged_in, bot_logged_in, bot_stopped, saved>>
member == <<bot_joined, bot_room_id, peer>>
settings == <<bot_follow, bot_loopback>>
things == <<media, lost>>
call == <<at, next, room>>
counters == <<requests, moves>>
vars == <<flags, member, settings, things, operator, miss, call, counters,
          overlaps>>

Threads == {Web, Main} \union Assistants
Kinds == {"ws", "room", "audio"}

Goto(t, stage) == at' = [at EXCEPT ![t] = stage]
Return(t) ==
    /\ Goto(t, "idle")
    /\ next' = [next EXCEPT ![t] = "idle"]
    /\ room' = [room EXCEPT ![t] = NoRoom]

JoinStages == {"join", "deny", "ask", "joining", "replace", "produce",
               "joined", "peer", "apply", "loop"}
EndStages == {"leave", "clear", "left", "ending"}
Stages == JoinStages \union EndStages
              \union {"idle", "poll", "login", "check", "connect"}

Init ==
    /\ cloud_logged_in = TRUE
    /\ bot_logged_in \in BOOLEAN /\ bot_stopped = FALSE
    /\ saved = bot_logged_in
    /\ bot_joined = FALSE /\ bot_room_id = NoRoom /\ peer = FALSE
    /\ bot_follow \in BOOLEAN /\ bot_loopback \in BOOLEAN
    /\ media = IF bot_logged_in THEN {"ws"} ELSE {}
    /\ lost = {}
    /\ operator \in Rooms \union {NoRoom} /\ miss = 0
    /\ at = [t \in Threads |-> "idle"]
    /\ next = [t \in Threads |-> "idle"]
    /\ room = [t \in Threads |-> NoRoom]
    /\ requests = 0 /\ moves = 0
    /\ overlaps = {}

\* What overlaps when t begins a call that ends the bot's stay, or a join.
Others(t, stages) == \E u \in Threads \ {t} : at[u] \in stages
BeginsEnd(t) ==
    overlaps' = overlaps \union (IF Others(t, JoinStages) THEN {"end"} ELSE {})
BeginsJoin(t) ==
    overlaps' = overlaps
                    \union (IF Others(t, JoinStages) THEN {"join"} ELSE {})
                    \union (IF Others(t, EndStages) THEN {"end"} ELSE {})

\* A request of the operator or of the assistant.
Request(t) ==
    /\ at[t] = "idle" /\ t # Main
    /\ requests < MaxRequests
    /\ requests' = requests + 1

-----------------------------------------------------------------------------
(***************************************************************************)
(* bsdr_app_bot_leave_room by thread t: what the bot has running is taken  *)
(* out and stopped, then the room is cleared, then Bigscreen is told, and  *)
(* bot_set_msg writes the outcome.                                         *)
(***************************************************************************)
LeaveTakes(t) ==
    /\ at[t] = "leave"
    /\ media' = media \ {"room", "audio"}
    /\ Goto(t, "clear")
    /\ UNCHANGED <<flags, member, settings, lost, operator, miss, next, room,
                   counters, overlaps>>

LeaveClears(t) ==
    /\ at[t] = "clear"
    /\ bot_joined' = FALSE /\ bot_room_id' = NoRoom /\ peer' = FALSE
    /\ Goto(t, "left")
    /\ UNCHANGED <<flags, settings, things, operator, miss, next, room,
                   counters, overlaps>>

Left(t) ==
    /\ at[t] = "left"
    /\ bot_joined' = FALSE
    /\ IF next[t] = "join"
       THEN Goto(t, "join") /\ BeginsJoin(t) /\ UNCHANGED <<next, room>>
       ELSE Return(t) /\ UNCHANGED overlaps
    /\ UNCHANGED <<flags, bot_room_id, peer, settings, things, operator,
                   miss, counters>>

-----------------------------------------------------------------------------
(***************************************************************************)
(* bsdr_app_bot_join_room by thread t.  Failures write bot_joined = false, *)
(* whatever the bot has running from an earlier join.                      *)
(***************************************************************************)
JoinReads(t) ==
    /\ at[t] = "join"
    /\ Goto(t, IF cloud_logged_in /\ bot_logged_in THEN "ask" ELSE "deny")
    /\ UNCHANGED <<flags, member, settings, things, operator, miss, next,
                   room, counters, overlaps>>

JoinDenied(t) ==
    /\ at[t] = "deny"
    /\ bot_joined' = FALSE
    /\ Return(t)
    /\ UNCHANGED <<flags, bot_room_id, peer, settings, things, operator,
                   miss, counters, overlaps>>

\* GET /rooms with the host's token.
RoomFound(t) ==
    /\ at[t] = "ask" /\ operator # NoRoom
    /\ room' = [room EXCEPT ![t] = operator]
    /\ Goto(t, "joining")
    /\ UNCHANGED <<flags, member, settings, things, operator, miss, next,
                   counters, overlaps>>

NoRoomFound(t) ==
    /\ at[t] = "ask"
    /\ bot_joined' = FALSE
    /\ Return(t)
    /\ UNCHANGED <<flags, bot_room_id, peer, settings, things, operator,
                   miss, counters, overlaps>>

\* The bot is let in at once, or as an invitation says, which may be to
\* another room.
JoinGranted(t, r) ==
    /\ at[t] = "joining"
    /\ room' = [room EXCEPT ![t] = r]
    /\ Goto(t, "replace")
    /\ UNCHANGED <<flags, member, settings, things, operator, miss, next,
                   counters, overlaps>>

JoinRefused(t) ==
    /\ at[t] = "joining"
    /\ bot_joined' = FALSE /\ bot_room_id' = room[t]
    /\ Return(t)
    /\ UNCHANGED <<flags, peer, settings, things, operator, miss, counters,
                   overlaps>>

\* The producer and the avatar of a previous join are taken out and stopped,
\* and new ones started and stored over whatever is there; what failed to
\* start is stored as nothing.
OldMedia == {"room"}

Replace(t) ==
    /\ at[t] = "replace"
    /\ media' = media \ OldMedia
    /\ Goto(t, "produce")
    /\ UNCHANGED <<flags, member, settings, lost, operator, miss, next, room,
                   counters, overlaps>>

Produce(t, up) ==
    /\ at[t] = "produce"
    /\ media' = IF up THEN media \union {"room"} ELSE media \ {"room"}
    /\ lost' = lost \union ({"room"} \intersect media)
    /\ Goto(t, "joined")
    /\ UNCHANGED <<flags, member, settings, operator, miss, next, room,
                   counters, overlaps>>

\* --no-audio, or no peer in Bigscreen's answer.
ProducesNothing(t) ==
    /\ at[t] = "produce"
    /\ Goto(t, "joined")
    /\ UNCHANGED <<flags, member, settings, things, operator, miss, next,
                   room, counters, overlaps>>

\* bot_set_msg(a, true, ...)
Joined(t) ==
    /\ at[t] = "joined"
    /\ bot_joined' = TRUE /\ bot_room_id' = room[t]
    /\ Goto(t, "peer")
    /\ UNCHANGED <<flags, peer, settings, things, operator, miss, next, room,
                   counters, overlaps>>

PeerKnown(t, known) ==
    /\ at[t] = "peer"
    /\ peer' = known
    /\ Goto(t, "apply")
    /\ UNCHANGED <<flags, bot_joined, bot_room_id, settings, things,
                   operator, miss, next, room, counters, overlaps>>

(***************************************************************************)
(* bot_loopback_apply, at the end of a join and when the setting changes.  *)
(***************************************************************************)
WantLoopback_Stopped == bot_loopback /\ peer
WantLoopback == bot_loopback /\ bot_joined /\ ~bot_stopped /\ peer

LoopbackApply(t) ==
    /\ at[t] = "apply"
    /\ media' = IF WantLoopback THEN media ELSE media \ {"audio"}
    /\ IF WantLoopback /\ "audio" \notin media
       THEN Goto(t, "loop") /\ UNCHANGED <<next, room>>
       ELSE Return(t)
    /\ UNCHANGED <<flags, member, settings, lost, operator, miss, counters,
                   overlaps>>

\* One that was started meanwhile is taken out and stopped.
LoopbackLoses_Duplicate == {"audio"} \intersect media
LoopbackLoses == {}

LoopbackStarts(t, up) ==
    /\ at[t] = "loop"
    /\ media' = IF up THEN media \union {"audio"} ELSE media \ {"audio"}
    /\ lost' = lost \union LoopbackLoses
    /\ Return(t)
    /\ UNCHANGED <<flags, member, settings, operator, miss, counters,
                   overlaps>>

-----------------------------------------------------------------------------
(***************************************************************************)
(* Requests: of the web UI, of the assistant (compcontrol.c), or of both.  *)
(***************************************************************************)
RequestJoin ==
    /\ Request(Web)
    /\ Goto(Web, "join")
    /\ BeginsJoin(Web)
    /\ UNCHANGED <<flags, member, settings, things, operator, miss, next,
                   room, moves>>

\* Follow-me is turned off first.
RequestLeave(t) ==
    /\ Request(t)
    /\ bot_follow' = FALSE
    /\ Goto(t, "leave")
    /\ next' = [next EXCEPT ![t] = "idle"]
    /\ BeginsEnd(t)
    /\ UNCHANGED <<flags, member, bot_loopback, things, operator, miss, room,
                   moves>>

\* The assistant's restart_bot leaves and joins; in an instance without an
\* assistant the web thread stands for the thread it runs on.
RequestRejoin(t) ==
    /\ Assistants # {} => t # Web
    /\ Request(t)
    /\ Goto(t, "leave")
    /\ next' = [next EXCEPT ![t] = "join"]
    /\ BeginsEnd(t)
    /\ UNCHANGED <<flags, member, settings, things, operator, miss, room,
                   moves>>

RequestFollow(t, on) ==
    /\ Request(t)
    /\ bot_follow # on /\ bot_follow' = on
    /\ UNCHANGED <<flags, member, bot_loopback, things, operator, miss, call,
                   moves, overlaps>>

RequestLoopback(on) ==
    /\ Request(Web)
    /\ bot_loopback' = on
    /\ Goto(Web, "apply")
    /\ UNCHANGED <<flags, member, bot_follow, things, operator, miss, next,
                   room, moves, overlaps>>

\* bsdr_app_bot_stop; then what was running is stopped, and Bigscreen told.
Stop ==
    /\ Request(Web)
    /\ media' = {}
    /\ bot_logged_in' = FALSE /\ bot_joined' = FALSE /\ bot_stopped' = TRUE
    /\ bot_room_id' = NoRoom
    /\ Goto(Web, "ending")
    /\ BeginsEnd(Web)
    /\ UNCHANGED <<cloud_logged_in, saved, peer, settings, lost, operator,
                   miss, next, room, moves>>

\* bsdr_app_bot_logout; the session file goes at the end.
BotLogout ==
    /\ Request(Web)
    /\ media' = {}
    /\ bot_logged_in' = FALSE /\ bot_joined' = FALSE
    /\ bot_room_id' = NoRoom
    /\ saved' = FALSE
    /\ Goto(Web, "ending")
    /\ BeginsEnd(Web)
    /\ UNCHANGED <<cloud_logged_in, bot_stopped, peer, settings, lost,
                   operator, miss, next, room, moves>>

Ended ==
    /\ at[Web] = "ending"
    /\ Return(Web)
    /\ UNCHANGED <<flags, member, settings, things, operator, miss, counters,
                   overlaps>>

\* bsdr_app_bot_login; a login that fails leaves what runs running.
BotLogin ==
    /\ Request(Web)
    /\ Goto(Web, "login")
    /\ UNCHANGED <<flags, member, settings, things, operator, miss, next,
                   room, moves, overlaps>>

LoginReturns(ok) ==
    /\ at[Web] = "login"
    /\ bot_logged_in' = ok
    /\ bot_stopped' = (bot_stopped /\ ~ok)
    /\ saved' = (saved \/ ok)
    /\ Goto(Web, IF ok THEN "connect" ELSE "idle")
    /\ UNCHANGED <<cloud_logged_in, member, settings, things, operator, miss,
                   next, room, counters, overlaps>>

\* bsdr_app_bot_start: the saved session is checked, and used if Bigscreen
\* does not reject it.
Start ==
    /\ Request(Web)
    /\ bot_stopped' = FALSE
    /\ Goto(Web, IF saved THEN "check" ELSE "idle")
    /\ UNCHANGED <<cloud_logged_in, bot_logged_in, saved, member, settings,
                   things, operator, miss, next, room, moves, overlaps>>

StartChecked(ok) ==
    /\ at[Web] = "check"
    /\ bot_logged_in' = (bot_logged_in \/ ok)
    /\ bot_stopped' = (bot_stopped /\ ~ok)
    /\ Goto(Web, IF ok THEN "connect" ELSE "idle")
    /\ UNCHANGED <<cloud_logged_in, saved, member, settings, things,
                   operator, miss, next, room, counters, overlaps>>

\* The presence socket; one of an earlier login is overwritten, as the host's
\* is (HostAccount).
BotConnects(up) ==
    /\ at[Web] = "connect"
    /\ media' = IF up THEN media \union {"ws"} ELSE media \ {"ws"}
    /\ Return(Web)
    /\ UNCHANGED <<flags, member, settings, lost, operator, miss, counters,
                   overlaps>>

HostAccountChanges ==
    /\ Request(Web)
    /\ cloud_logged_in' = ~cloud_logged_in
    /\ UNCHANGED <<bot_logged_in, bot_stopped, saved, member, settings,
                   things, operator, miss, call, moves, overlaps>>

OperatorMoves(r) ==
    /\ moves < MaxMoves /\ moves' = moves + 1
    /\ operator # r /\ operator' = r
    /\ UNCHANGED <<flags, member, settings, things, miss, call, requests,
                   overlaps>>

-----------------------------------------------------------------------------
(***************************************************************************)
(* bsdr_app_bot_follow_tick.  The decision mixes the room read before the  *)
(* poll, room[Main], with bot_joined read after it.                        *)
(***************************************************************************)
FollowReads ==
    /\ at[Main] = "idle"
    /\ bot_follow /\ cloud_logged_in /\ bot_logged_in /\ ~bot_stopped
    /\ room' = [room EXCEPT ![Main] = bot_room_id]
    /\ Goto(Main, "poll")
    /\ UNCHANGED <<flags, member, settings, things, operator, miss, next,
                   counters, overlaps>>

FollowInactive ==
    /\ at[Main] = "idle" /\ miss > 0
    /\ ~(bot_follow /\ cloud_logged_in /\ bot_logged_in /\ ~bot_stopped)
    /\ miss' = 0
    /\ UNCHANGED <<flags, member, settings, things, operator, call, counters,
                   overlaps>>

Settled_ByRoom == room[Main] # NoRoom
Settled == bot_joined /\ room[Main] # NoRoom

Confirmed == miss + 1 >= FollowConfirm

\* The bot is with the operator, or neither is in a room.
FollowHolds ==
    /\ at[Main] = "poll"
    /\ IF Settled THEN room[Main] = operator ELSE operator = NoRoom
    /\ miss' = 0
    /\ Return(Main)
    /\ UNCHANGED <<flags, member, settings, things, operator, counters,
                   overlaps>>

\* A joined bot is not where the operator is, so far too few times in a row.
FollowMisses ==
    /\ at[Main] = "poll" /\ Settled /\ room[Main] # operator
    /\ ~Confirmed
    /\ miss' = miss + 1
    /\ Return(Main)
    /\ UNCHANGED <<flags, member, settings, things, operator, counters,
                   overlaps>>

\* Confirmed: the bot leaves, and joins the operator's new room if any.
FollowLeaves ==
    /\ at[Main] = "poll" /\ Settled /\ room[Main] # operator
    /\ Confirmed
    /\ miss' = 0
    /\ Goto(Main, "leave")
    /\ next' = [next EXCEPT ![Main] =
                    IF operator = NoRoom THEN "idle" ELSE "join"]
    /\ room' = [room EXCEPT ![Main] = NoRoom]
    /\ BeginsEnd(Main)
    /\ UNCHANGED <<flags, member, settings, things, operator, counters>>

\* A bot that is nowhere joins at once.
FollowJoins ==
    /\ at[Main] = "poll" /\ ~Settled /\ operator # NoRoom
    /\ miss' = 0
    /\ Goto(Main, "join")
    /\ room' = [room EXCEPT ![Main] = NoRoom]
    /\ BeginsJoin(Main)
    /\ UNCHANGED <<flags, member, settings, things, operator, next,
                   counters>>

-----------------------------------------------------------------------------
\* What a thread does once it is in a call.
Step(t) ==
    \/ LeaveTakes(t) \/ LeaveClears(t) \/ Left(t)
    \/ JoinReads(t) \/ JoinDenied(t) \/ RoomFound(t) \/ NoRoomFound(t)
    \/ \E r \in Rooms : JoinGranted(t, r)
    \/ JoinRefused(t) \/ Replace(t)
    \/ ProducesNothing(t) \/ Joined(t) \/ LoopbackApply(t)
    \/ \E ok \in BOOLEAN :
           Produce(t, ok) \/ PeerKnown(t, ok) \/ LoopbackStarts(t, ok)

WebStep ==
    \/ Ended
    \/ \E ok \in BOOLEAN :
           LoginReturns(ok) \/ StartChecked(ok) \/ BotConnects(ok)

FollowStep == FollowHolds \/ FollowMisses \/ FollowLeaves \/ FollowJoins

Requests ==
    \/ RequestJoin
    \/ \E t \in Threads : \/ RequestLeave(t) \/ RequestRejoin(t)
                          \/ \E on \in BOOLEAN : RequestFollow(t, on)
    \/ \E on \in BOOLEAN : RequestLoopback(on)
    \/ Stop \/ Start \/ BotLogin \/ BotLogout \/ HostAccountChanges

Next ==
    \/ \E t \in Threads : Step(t)
    \/ WebStep
    \/ FollowReads \/ FollowInactive \/ FollowStep
    \/ Requests
    \/ \E r \in Rooms \union {NoRoom} : OperatorMoves(r)

Spec == Init /\ [][Next]_vars

(***************************************************************************)
(* Every call goes on (HTTPS has its timeouts, the threads that are joined *)
(* end), the main loop polls, and Bigscreen does not for ever refuse to    *)
(* name the room, or to let the bot into it.                               *)
(***************************************************************************)
Fairness ==
    /\ \A t \in Threads : WF_vars(Step(t))
    /\ WF_vars(WebStep) /\ WF_vars(FollowReads) /\ WF_vars(FollowStep)
    /\ SF_vars(RoomFound(Main))
    /\ SF_vars(JoinGranted(Main, room[Main]))
FairSpec == Spec /\ Fairness

-----------------------------------------------------------------------------
\* Type invariant.
TypeOK ==
    /\ cloud_logged_in \in BOOLEAN /\ bot_logged_in \in BOOLEAN
    /\ bot_stopped \in BOOLEAN /\ saved \in BOOLEAN
    /\ bot_joined \in BOOLEAN /\ peer \in BOOLEAN
    /\ bot_follow \in BOOLEAN /\ bot_loopback \in BOOLEAN
    /\ bot_room_id \in Rooms \union {NoRoom}
    /\ operator \in Rooms \union {NoRoom}
    /\ media \subseteq Kinds /\ lost \subseteq Kinds
    /\ miss \in 0 .. FollowConfirm - 1
    /\ at \in [Threads -> Stages]
    /\ next \in [Threads -> {"idle", "join"}]
    /\ room \in [Threads -> Rooms \union {NoRoom}]
    /\ requests \in 0 .. MaxRequests /\ moves \in 0 .. MaxMoves
    /\ overlaps \subseteq {"join", "end"}

\* A stopped bot is quiet: no producer, avatar, loopback or presence socket,
\* and not joined, whatever the settings, the assistant and follow-me ask of
\* it, unless a join ran at the same time as the stop or a leave
\* (bsdr_app_bot_stop, the test in bsdr_app_bot_join_room, and
\* bot_loopback_apply, which still knows the room's audio peer).
QuietWhenStopped ==
    bot_stopped /\ "end" \notin overlaps => media = {} /\ ~bot_joined

\* Nothing the bot has started keeps running with nobody to stop it: a second
\* loopback is stopped whoever started the first, and a producer or avatar
\* is overwritten only when two joins run at the same time
\* (bsdr_app_bot_join_room, bot_loopback_apply).
ProducersKept ==
    /\ "audio" \notin lost
    /\ lost # {} => "join" \in overlaps

Following ==
    bot_follow /\ cloud_logged_in /\ bot_logged_in /\ ~bot_stopped

\* Follow-me: once the operator stays in a room, with follow-me on and both
\* accounts logged in, the bot ends up joined to that room, however it was
\* left by requests that overlapped (bsdr_app_bot_follow_tick).
FollowCatchesUp ==
    \A r \in Rooms :
        <>[](Following /\ operator = r) => <>[](bot_joined /\ bot_room_id = r)

\* src/src/webui.c:1055-1059: an explicit Leave turns "follow off FIRST so a
\* concurrent follow tick can't re-join": no tick that read a room of the bot
\* begins to join it while a Leave, past clearing that room, has not returned.
TickKeepsOut ==
    [][at[Main] = "poll" /\ room[Main] # NoRoom /\ at'[Main] = "join" =>
           ~(at[Web] = "left" /\ next[Web] = "idle")]_vars
=============================================================================
