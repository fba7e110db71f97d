----------------------------- MODULE CloudShare -----------------------------
(***************************************************************************)
(* Internet sharing (src/src/app.c): the wish internet_sharing, which many *)
(* threads set, and the relay stream cloud_stream, which the tick of the   *)
(* agent's main loop starts, pauses, resumes or replaces to match it, and  *)
(* which the main loop and the LAN workers also take away and stop.        *)
(*                                                                         *)
(* Everything done under one hold of a->lock is one action; GET /rooms,    *)
(* the start of a stream and the joins in bsdr_cloud_stream_stop happen    *)
(* without it, so other threads run in between.                            *)
(***************************************************************************)
CONSTANTS
    Rooms, NoRoom,      \* relay tuples (address, port, session) /rooms shows
    Streams, NoStream,  \* heap objects of a relay stream
    Main,               \* the agent's main loop
    Workers             \* LAN workers, which report a dead capture

ASSUME NullAssumption == NoRoom \notin Rooms /\ NoStream \notin Streams
ASSUME ThreadAssumption == Main \notin Workers

VARIABLES
    internet_sharing, cloud_logged_in, quest_paired, unpair_pending,
    cloud_stream,       \* the stream of the app, which the LAN loop feeds
    cloud_starting,
    room,               \* what Bigscreen's /rooms says now
    up,                 \* the streams that exist: started and not yet freed
    active,             \* those that send, the others are paused
    tuple,              \* the relay each stream was started for
    tick,               \* where the main loop is in a tick, and its locals
    to_stop             \* for each thread, the stream it took out to stop

wish == <<internet_sharing, cloud_logged_in, quest_paired, unpair_pending>>
streams == <<up, active, tuple>>
vars == <<wish, cloud_stream, cloud_starting, room, streams, tick, to_stop>>

Threads == Workers \union {Main}

\* cs: the stream it borrowed, and then the one it started; scr: the screen
\* it fetched.
NoTick == [at |-> "idle", want |-> FALSE, logged |-> FALSE,
           cs |-> NoStream, scr |-> NoRoom]

At(stage) == tick.at = stage
Goto(stage) == tick' = [tick EXCEPT !.at = stage]
Return == tick' = NoTick

\* The main loop is between two stages, and joins no stream.
MainIdle == At("idle") /\ to_stop[Main] = NoStream

Init ==
    /\ internet_sharing = FALSE /\ cloud_logged_in = FALSE
    /\ quest_paired = FALSE /\ unpair_pending = FALSE
    /\ cloud_stream = NoStream /\ cloud_starting = FALSE
    /\ room = NoRoom
    /\ up = {} /\ active = {} /\ tuple = [s \in Streams |-> NoRoom]
    /\ tick = NoTick
    /\ to_stop = [t \in Threads |-> NoStream]

-----------------------------------------------------------------------------
(***************************************************************************)
(* Who sets the wish: the headset's callbacks, the web UI, and the         *)
(* auto-share that follows a pairing or a login; logging in and out, and   *)
(* pairing.  They touch no stream.                                         *)
(***************************************************************************)
SetInternetSharing(on) ==
    /\ internet_sharing' = on
    /\ UNCHANGED <<cloud_logged_in, quest_paired, unpair_pending, cloud_stream,
                   cloud_starting, room, streams, tick, to_stop>>

\* bsdr_app_login and bsdr_app_restore_session; a login that fails leaves the
\* account logged out and the wish as it was.
Login(ok) ==
    /\ cloud_logged_in' = ok
    /\ UNCHANGED <<internet_sharing, quest_paired, unpair_pending, cloud_stream,
                   cloud_starting, room, streams, tick, to_stop>>

Logout ==
    /\ cloud_logged_in' = FALSE
    /\ internet_sharing' = FALSE
    /\ UNCHANGED <<quest_paired, unpair_pending, cloud_stream, cloud_starting,
                   room, streams, tick, to_stop>>

SetPaired(on) ==
    /\ quest_paired' = on
    /\ unpair_pending' =
           (~on /\ (unpair_pending \/ cloud_stream # NoStream \/ internet_sharing))
    /\ UNCHANGED <<internet_sharing, cloud_logged_in, cloud_stream,
                   cloud_starting, room, streams, tick, to_stop>>

\* Bigscreen's side: a screen is published, moves or goes away.
RoomChanges(r) ==
    /\ room' = r
    /\ UNCHANGED <<wish, cloud_stream, cloud_starting, streams, tick, to_stop>>

-----------------------------------------------------------------------------
(***************************************************************************)
(* Taking the stream away: unpair_finalize_locked by thread t, which then  *)
(* stops the stream outside the lock.                                      *)
(***************************************************************************)
StreamAfterUnpair_Kept == cloud_stream
StreamAfterUnpair == NoStream

UnpairFinalize(t) ==
    /\ to_stop[t] = NoStream
    /\ to_stop' = [to_stop EXCEPT ![t] = cloud_stream]
    /\ cloud_stream' = StreamAfterUnpair
    /\ internet_sharing' = FALSE
    /\ unpair_pending' = FALSE
    /\ UNCHANGED <<cloud_logged_in, quest_paired, cloud_starting, room, streams,
                   tick>>

CaptureDead(w) == UnpairFinalize(w)

\* The operator's disconnect.
UnpairNow == At("idle") /\ UnpairFinalize(Main)

GraceExpired ==
    /\ At("idle") /\ unpair_pending /\ ~quest_paired
    /\ UnpairFinalize(Main)

\* bsdr_cloud_stream_stop returns: the stream's threads are joined (see
\* CloudQueue) and it is freed.
StreamStopped(t) ==
    /\ to_stop[t] # NoStream
    /\ up' = up \ {to_stop[t]}
    /\ active' = active \ {to_stop[t]}
    /\ to_stop' = [to_stop EXCEPT ![t] = NoStream]
    /\ UNCHANGED <<wish, cloud_stream, cloud_starting, room, tuple, tick>>

-----------------------------------------------------------------------------
(***************************************************************************)
(* cloud_try_start, on the main loop.                                      *)
(***************************************************************************)
TickReads ==
    /\ MainIdle
    /\ tick' = [at |-> "decide", want |-> internet_sharing,
                logged |-> cloud_logged_in, cs |-> cloud_stream, scr |-> NoRoom]
    /\ UNCHANGED <<wish, cloud_stream, cloud_starting, room, streams, to_stop>>

\* Not wanted: the stream is paused, its connections stay.  A write through a
\* pointer to a stream freed meanwhile changes no stream.
MustPause_LoggedInOnly == tick.logged /\ ~tick.want
MustPause == ~tick.want

TickPauses ==
    /\ At("decide") /\ MustPause
    /\ active' = active \ {tick.cs}
    /\ Return
    /\ UNCHANGED <<wish, cloud_stream, cloud_starting, room, up, tuple, to_stop>>

TickGivesUp ==
    /\ At("decide") /\ ~MustPause /\ ~tick.logged
    /\ Return
    /\ UNCHANGED <<wish, cloud_stream, cloud_starting, room, streams, to_stop>>

\* bsdr_cloud_stream_active: of a stream freed meanwhile it may say anything.
Sends(yes) == tick.cs \in up => yes = (tick.cs \in active)

TickBorrows(sends) ==
    /\ At("decide") /\ tick.want /\ tick.logged /\ tick.cs # NoStream
    /\ Sends(sends)
    /\ IF sends THEN Return ELSE Goto("refetch")
    /\ UNCHANGED <<wish, cloud_stream, cloud_starting, room, streams, to_stop>>

\* rooms_fetch: GET /rooms answers with the screen, or fails or finds none
\* that is fully published.
TickFetches(scr) ==
    /\ tick.at \in {"refetch", "fetch"}
    /\ scr \in {room, NoRoom}
    /\ tick' = [tick EXCEPT !.scr = scr,
                            !.at = IF At("refetch") THEN "resume" ELSE "start"]
    /\ UNCHANGED <<wish, cloud_stream, cloud_starting, room, streams, to_stop>>

\* bsdr_cloud_stream_matches, likewise.
Matches(yes) == tick.cs \in up => yes = (tuple[tick.cs] = tick.scr)

TickResumes ==
    /\ At("resume") /\ tick.scr # NoRoom /\ Matches(TRUE)
    /\ active' = active \union ({tick.cs} \intersect up)
    /\ Return
    /\ UNCHANGED <<wish, cloud_stream, cloud_starting, room, up, tuple, to_stop>>

\* Without a screen the start slot is released.
SlotAfterMiss == cloud_starting /\ At("resume")

TickMisses ==
    /\ tick.at \in {"resume", "start"} /\ tick.scr = NoRoom
    /\ cloud_starting' = SlotAfterMiss
    /\ Return
    /\ UNCHANGED <<wish, cloud_stream, room, streams, to_stop>>

TickDrops_Ignored ==
    /\ At("resume") /\ tick.scr # NoRoom /\ Matches(FALSE)
    /\ Return
    /\ UNCHANGED <<wish, cloud_stream, cloud_starting, room, streams, to_stop>>

\* The screen has moved: whatever stream the app has now is taken out and
\* stopped; the next tick starts a fresh one.
TickDrops ==
    /\ At("resume") /\ tick.scr # NoRoom /\ Matches(FALSE)
    /\ to_stop' = [to_stop EXCEPT ![Main] = cloud_stream]
    /\ cloud_stream' = NoStream
    /\ Return
    /\ UNCHANGED <<wish, cloud_starting, room, streams>>

TickClaims ==
    /\ At("decide") /\ tick.want /\ tick.logged /\ tick.cs = NoStream
    /\ IF internet_sharing /\ cloud_stream = NoStream /\ ~cloud_starting
         THEN cloud_starting' = TRUE /\ Goto("fetch")
         ELSE UNCHANGED cloud_starting /\ Return
    /\ UNCHANGED <<wish, cloud_stream, room, streams, to_stop>>

\* bsdr_cloud_stream_start
TickStarts(s) ==
    /\ At("start") /\ tick.scr # NoRoom /\ s \notin up
    /\ up' = up \union {s}
    /\ active' = active \union {s}
    /\ tuple' = [tuple EXCEPT ![s] = tick.scr]
    /\ tick' = [tick EXCEPT !.cs = s, !.at = "adopt"]
    /\ UNCHANGED <<wish, cloud_stream, cloud_starting, room, to_stop>>

\* It returns NULL, and that is what the app gets.
TickFailsToStart ==
    /\ At("start") /\ tick.scr # NoRoom
    /\ Goto("adopt")
    /\ UNCHANGED <<wish, cloud_stream, cloud_starting, room, streams, to_stop>>

StillWanted == cloud_stream = NoStream /\ internet_sharing

TickAdopts ==
    /\ At("adopt") /\ StillWanted
    /\ cloud_stream' = tick.cs
    /\ cloud_starting' = FALSE
    /\ Return
    /\ UNCHANGED <<wish, room, streams, to_stop>>

\* Turned off meanwhile.
TickDiscards ==
    /\ At("adopt") /\ ~StillWanted
    /\ to_stop' = [to_stop EXCEPT ![Main] = tick.cs]
    /\ cloud_starting' = FALSE
    /\ Return
    /\ UNCHANGED <<wish, cloud_stream, room, streams>>

-----------------------------------------------------------------------------
Others ==
    \/ \E on \in BOOLEAN : SetInternetSharing(on) \/ Login(on) \/ SetPaired(on)
    \/ Logout
    \/ \E r \in Rooms \union {NoRoom} : RoomChanges(r)
    \/ \E w \in Workers : CaptureDead(w)

Tick ==
    \/ TickPauses \/ TickGivesUp
    \/ \E sends \in BOOLEAN : TickBorrows(sends)
    \/ \E scr \in Rooms \union {NoRoom} : TickFetches(scr)
    \/ TickResumes \/ TickMisses \/ TickDrops
    \/ TickClaims
    \/ \E s \in Streams : TickStarts(s)
    \/ TickFailsToStart
    \/ TickAdopts \/ TickDiscards

Next ==
    \/ Others
    \/ UnpairNow \/ GraceExpired
    \/ TickReads \/ Tick
    \/ \E t \in Threads : StreamStopped(t)

Spec == Init /\ [][Next]_vars

\* The main loop goes through a tick in every iteration and does not stop in
\* one; joins end.  A GET /rooms and a start that can succeed do not fail for
\* ever.  Nothing is assumed of the headset, the operator or Bigscreen.
FairSpec ==
    /\ Spec
    /\ SF_vars(TickReads) /\ WF_vars(Tick)
    /\ \A t \in Threads : WF_vars(StreamStopped(t))
    /\ \A r \in Rooms : SF_vars(TickFetches(r))
    /\ \A s \in Streams : SF_vars(TickStarts(s))

-----------------------------------------------------------------------------
(***************************************************************************)
(* Properties.                                                             *)
(***************************************************************************)
TickStages == {"idle", "decide", "refetch", "fetch", "resume", "start", "adopt"}

TypeOK ==
    /\ internet_sharing \in BOOLEAN /\ cloud_logged_in \in BOOLEAN
    /\ quest_paired \in BOOLEAN /\ unpair_pending \in BOOLEAN
    /\ cloud_stream \in Streams \union {NoStream}
    /\ cloud_starting \in BOOLEAN
    /\ cloud_starting <=> tick.at \in {"fetch", "start", "adopt"}
    /\ room \in Rooms \union {NoRoom}
    /\ up \subseteq Streams /\ active \subseteq up
    /\ tuple \in [Streams -> Rooms \union {NoRoom}]
    /\ tick \in [at : TickStages, want : BOOLEAN, logged : BOOLEAN,
                 cs : Streams \union {NoStream}, scr : Rooms \union {NoRoom}]
    /\ to_stop \in [Threads -> Streams \union {NoStream}]

\* The stream that bsdr_cloud_stream_start returned and no one has yet.
Started == IF At("adopt") THEN tick.cs ELSE NoStream

\* A stream that exists belongs to the app, to the tick that has just started
\* it, or to a thread that is stopping it, and to one of them only: it is not
\* lost with its sockets and threads, and no two threads stop it.  A freed one
\* belongs to nobody, so the LAN loop, which feeds cloud_stream under a->lock,
\* never feeds a freed one.
OneOwner ==
    /\ up = ({cloud_stream, Started} \union {to_stop[t] : t \in Threads}) \ {NoStream}
    /\ cloud_stream # NoStream => cloud_stream # Started
    /\ \A t \in Threads : to_stop[t] # NoStream =>
           /\ to_stop[t] \notin {cloud_stream, Started}
           /\ \A u \in Threads \ {t} : to_stop[u] # to_stop[t]

\* While sharing stays off, whatever stream there is gets paused or stopped,
\* also one that was being started, and also after a logout.
ShareGoesQuiet == [](<>(internet_sharing \/ active = {}))

\* When sharing stays wanted, the account logged in and a screen published, a
\* stream is up and sending in the end: a paused one that matches is resumed,
\* one for another relay is replaced.
ShareComesUp ==
    \A r \in Rooms :
        <>[](internet_sharing /\ cloud_logged_in /\ room = r)
            => <>[](cloud_stream \in active)

\* src/src/app.c borrows the stream in the tick on the ground that it is
\* stopped and freed only "after claiming under lock", and calls the tick "the
\* only place that may block on ... stream start/stop": so a tick that goes on
\* to read the stream it borrowed finds it there.
BorrowedIsUp ==
    tick.cs # NoStream /\ tick.at \in {"decide", "refetch", "resume"} => tick.cs \in up
=============================================================================
