------------------------- MODULE CloudShare_proofs -------------------------
(***************************************************************************)
(* Proofs about CloudShare: for any number of relays, streams and workers, *)
(* every relay stream has exactly one owner.                               *)
(***************************************************************************)
EXTENDS CloudShare, TLAPS

\* The inductive invariant.  Beyond the two properties: the main loop joins a
\* stream only between ticks, and a tick that starts a stream holds none yet.
ShareInv ==
    /\ TypeOK
    /\ OneOwner
    /\ ~At("idle") => to_stop[Main] = NoStream
    /\ tick.at \in {"fetch", "start"} => tick.cs = NoStream

LEMMA InitShareInv == Init => ShareInv
<1> SUFFICES ASSUME Init PROVE ShareInv
  OBVIOUS
<1>1. TypeOK
  BY DEF Init, TypeOK, NoTick, TickStages
<1>2. OneOwner
  <2>1. Started = NoStream
    BY DEF Init, Started, At, NoTick
  <2>2. \A t \in Threads : to_stop[t] = NoStream
    BY DEF Init
  <2> QED BY <2>1, <2>2 DEF Init, OneOwner
<1> QED BY <1>1, <1>2 DEF Init, ShareInv, At, NoTick, Threads

\* A thread that takes the published stream out becomes its owner.
LEMMA FinalizeKeeps ==
    ASSUME ShareInv, NEW t \in Threads, UnpairFinalize(t), t = Main => At("idle")
    PROVE  ShareInv'
<1>1. TypeOK'
  BY DEF ShareInv, TypeOK, UnpairFinalize, StreamAfterUnpair, streams
<1>2. OneOwner'
  <2>1. Started' = Started /\ up' = up
    BY DEF UnpairFinalize, streams, Started, At
  <2>2. /\ to_stop'[t] = cloud_stream /\ to_stop[t] = NoStream
        /\ \A u \in Threads \ {t} : to_stop'[u] = to_stop[u]
        /\ cloud_stream' = NoStream
    BY DEF ShareInv, TypeOK, UnpairFinalize, StreamAfterUnpair
  <2>3. {cloud_stream', Started'} \union {to_stop'[u] : u \in Threads}
          = {cloud_stream, Started, NoStream} \union {to_stop[u] : u \in Threads}
    BY <2>1, <2>2
  <2> QED BY <2>1, <2>2, <2>3 DEF ShareInv, OneOwner
<1>3. (~At("idle") => to_stop[Main] = NoStream)'
  BY DEF ShareInv, TypeOK, UnpairFinalize, At, Threads
<1>4. (tick.at \in {"fetch", "start"} => tick.cs = NoStream)'
  BY DEF ShareInv, UnpairFinalize
<1> QED BY <1>1, <1>2, <1>3, <1>4 DEF ShareInv

\* bsdr_cloud_stream_stop frees the stream of the thread that owned it.
LEMMA StreamStoppedKeeps ==
    ASSUME ShareInv, NEW t \in Threads, StreamStopped(t)
    PROVE  ShareInv'
<1>1. TypeOK'
  BY DEF ShareInv, TypeOK, StreamStopped, wish
<1>2. OneOwner'
  <2>1. Started' = Started /\ cloud_stream' = cloud_stream
    BY DEF StreamStopped, wish, Started, At
  <2>2. /\ to_stop'[t] = NoStream
        /\ \A u \in Threads \ {t} : to_stop'[u] = to_stop[u]
        /\ up' = up \ {to_stop[t]}
    BY DEF ShareInv, TypeOK, StreamStopped
  <2>3. {to_stop'[u] : u \in Threads} \ {NoStream}
          = {to_stop[u] : u \in Threads} \ {NoStream, to_stop[t]}
    BY <2>2 DEF ShareInv, OneOwner, StreamStopped
  <2> QED BY <2>1, <2>2, <2>3 DEF ShareInv, OneOwner, StreamStopped
<1>3. (~At("idle") => to_stop[Main] = NoStream)'
  BY DEF ShareInv, TypeOK, StreamStopped, At, Threads
<1>4. (tick.at \in {"fetch", "start"} => tick.cs = NoStream)'
  BY DEF ShareInv, StreamStopped
<1> QED BY <1>1, <1>2, <1>3, <1>4 DEF ShareInv

\* The steps that touch no stream and no owner of one.
LEMMA OthersKeep ==
    ASSUME ShareInv,
           \/ \E on \in BOOLEAN : SetInternetSharing(on) \/ Login(on) \/ SetPaired(on)
           \/ Logout
           \/ \E r \in Rooms \union {NoRoom} : RoomChanges(r)
    PROVE  ShareInv'
<1>1. UNCHANGED <<cloud_stream, cloud_starting, streams, tick, to_stop>>
  BY DEF SetInternetSharing, Login, SetPaired, Logout, RoomChanges
<1>2. /\ <<internet_sharing', cloud_logged_in', quest_paired', unpair_pending'>>
            \in BOOLEAN \X BOOLEAN \X BOOLEAN \X BOOLEAN
      /\ room' \in Rooms \union {NoRoom}
  <2>1. ASSUME NEW on \in BOOLEAN, SetInternetSharing(on) PROVE <1>2
    BY <2>1 DEF ShareInv, TypeOK, SetInternetSharing
  <2>2. ASSUME NEW on \in BOOLEAN, Login(on) PROVE <1>2
    BY <2>2 DEF ShareInv, TypeOK, Login
  <2>3. ASSUME NEW on \in BOOLEAN, SetPaired(on) PROVE <1>2
    BY <2>3 DEF ShareInv, TypeOK, SetPaired
  <2>4. ASSUME Logout PROVE <1>2
    BY <2>4 DEF ShareInv, TypeOK, Logout
  <2>5. ASSUME NEW r \in Rooms \union {NoRoom}, RoomChanges(r) PROVE <1>2
    BY <2>5 DEF ShareInv, TypeOK, RoomChanges, wish
  <2> QED BY <2>1, <2>2, <2>3, <2>4, <2>5
<1>3. TypeOK'
  BY <1>1, <1>2 DEF ShareInv, TypeOK, streams
<1> QED BY <1>1, <1>3 DEF ShareInv, OneOwner, Started, At, streams

\* The steps of a tick that change no owner: it reads, decides, fetches.
LEMMA TickKeeps ==
    ASSUME ShareInv,
           \/ TickReads \/ TickPauses \/ TickGivesUp
           \/ \E sends \in BOOLEAN : TickBorrows(sends)
           \/ \E scr \in Rooms \union {NoRoom} : TickFetches(scr)
           \/ TickResumes \/ TickMisses \/ TickClaims
    PROVE  ShareInv'
<1> DEFINE Kept ==
       /\ UNCHANGED <<cloud_stream, up, to_stop>>
       /\ ~At("adopt") /\ ~At("adopt")'
       /\ TypeOK'
       /\ (~At("idle") => to_stop[Main] = NoStream)'
       /\ (tick.at \in {"fetch", "start"} => tick.cs = NoStream)'
<1> USE DEF ShareInv, TypeOK, At, TickStages, wish, streams
<1>1. ASSUME TickReads PROVE Kept
  BY <1>1 DEF TickReads, MainIdle, NoTick
<1>2. ASSUME TickPauses PROVE Kept
  BY <1>2 DEF TickPauses, Return, NoTick, MustPause
<1>3. ASSUME TickGivesUp PROVE Kept
  BY <1>3 DEF TickGivesUp, Return, NoTick, MustPause
<1>4. ASSUME NEW sends \in BOOLEAN, TickBorrows(sends) PROVE Kept
  <2>1. tick' = NoTick \/ tick' = [tick EXCEPT !.at = "refetch"]
    BY <1>4 DEF TickBorrows, Return, Goto
  <2>2. /\ UNCHANGED <<wish, cloud_stream, cloud_starting, room, streams, to_stop>>
        /\ At("decide")
    BY <1>4 DEF TickBorrows
  <2>3. CASE tick' = NoTick
    BY <2>2, <2>3 DEF NoTick
  <2>4. CASE tick' = [tick EXCEPT !.at = "refetch"]
    BY <2>2, <2>4
  <2> QED BY <2>1, <2>3, <2>4
<1>5. ASSUME NEW scr \in Rooms \union {NoRoom}, TickFetches(scr) PROVE Kept
  BY <1>5 DEF TickFetches
<1>6. ASSUME TickResumes PROVE Kept
  BY <1>6 DEF TickResumes, Return, NoTick
<1>7. ASSUME TickMisses PROVE Kept
  BY <1>7 DEF TickMisses, Return, NoTick, SlotAfterMiss
<1>8. ASSUME TickClaims PROVE Kept
  <2>1. \/ cloud_starting' = TRUE /\ tick' = [tick EXCEPT !.at = "fetch"]
        \/ cloud_starting' = cloud_starting /\ tick' = NoTick
    BY <1>8 DEF TickClaims, Return, Goto
  <2>2. /\ UNCHANGED <<wish, cloud_stream, room, streams, to_stop>>
        /\ At("decide") /\ tick.cs = NoStream
    BY <1>8 DEF TickClaims
  <2>3. CASE cloud_starting' = TRUE /\ tick' = [tick EXCEPT !.at = "fetch"]
    BY <2>2, <2>3
  <2>4. CASE cloud_starting' = cloud_starting /\ tick' = NoTick
    BY <2>2, <2>4 DEF NoTick
  <2> QED BY <2>1, <2>3, <2>4
<1> HIDE DEF ShareInv, TypeOK, At, TickStages, wish, streams
<1>9. Kept
  BY <1>1, <1>2, <1>3, <1>4, <1>5, <1>6, <1>7, <1>8
<1>10. OneOwner'
  BY <1>9 DEF ShareInv, OneOwner, Started
<1> QED BY <1>9, <1>10 DEF ShareInv

\* The steps of a tick that hand a stream over.
LEMMA TickDropsKeeps == ShareInv /\ TickDrops => ShareInv'
<1> SUFFICES ASSUME ShareInv, TickDrops PROVE ShareInv'
  OBVIOUS
<1>1. TypeOK'
  BY DEF ShareInv, TypeOK, TickDrops, Return, NoTick, TickStages, wish, streams,
         At, Threads
<1>2. /\ to_stop'[Main] = cloud_stream /\ to_stop[Main] = NoStream
      /\ \A u \in Threads \ {Main} : to_stop'[u] = to_stop[u]
      /\ cloud_stream' = NoStream /\ up' = up
      /\ Started = NoStream /\ Started' = NoStream
  BY DEF ShareInv, TypeOK, TickDrops, Started, Return, NoTick, At, streams, Threads
<1>3. {cloud_stream', Started'} \union {to_stop'[u] : u \in Threads}
        = {cloud_stream, Started, NoStream} \union {to_stop[u] : u \in Threads}
  BY <1>2 DEF Threads
<1>4. OneOwner'
  BY <1>2, <1>3 DEF ShareInv, OneOwner
<1> QED BY <1>1, <1>4 DEF ShareInv, TickDrops, Return, NoTick, At

LEMMA TickStartsKeeps ==
    ASSUME ShareInv, NEW s \in Streams, TickStarts(s)
    PROVE  ShareInv'
<1>1. TypeOK'
  BY DEF ShareInv, TypeOK, TickStarts, TickStages, wish, At
<1>2. /\ UNCHANGED <<cloud_stream, to_stop>> /\ up' = up \union {s} /\ s \notin up
      /\ Started = NoStream /\ Started' = s
  BY DEF ShareInv, TypeOK, TickStarts, Started, At
<1>3. OneOwner'
  BY <1>2, NullAssumption DEF ShareInv, OneOwner
<1> QED BY <1>1, <1>3 DEF ShareInv, TickStarts, TypeOK, At

LEMMA TickFailsToStartKeeps == ShareInv /\ TickFailsToStart => ShareInv'
<1> SUFFICES ASSUME ShareInv, TickFailsToStart PROVE ShareInv'
  OBVIOUS
<1>1. TypeOK'
  BY DEF ShareInv, TypeOK, TickFailsToStart, Goto, TickStages, wish, streams, At
<1>2. UNCHANGED <<cloud_stream, to_stop, up>> /\ Started' = Started
  BY DEF ShareInv, TypeOK, TickFailsToStart, Goto, Started, At, streams
<1> QED BY <1>1, <1>2 DEF ShareInv, TickFailsToStart, OneOwner, Goto, TypeOK, At

LEMMA TickAdoptsKeeps == ShareInv /\ TickAdopts => ShareInv'
<1> SUFFICES ASSUME ShareInv, TickAdopts PROVE ShareInv'
  OBVIOUS
<1>1. TypeOK'
  BY DEF ShareInv, TypeOK, TickAdopts, Return, NoTick, TickStages, wish, streams, At
<1>2. /\ UNCHANGED <<to_stop, up>> /\ cloud_stream = NoStream
      /\ cloud_stream' = Started /\ Started' = NoStream
  BY DEF ShareInv, TypeOK, TickAdopts, StillWanted, Return, NoTick, Started, At, streams
<1> QED BY <1>1, <1>2 DEF ShareInv, TickAdopts, OneOwner, Return, NoTick, At

LEMMA TickDiscardsKeeps == ShareInv /\ TickDiscards => ShareInv'
<1> SUFFICES ASSUME ShareInv, TickDiscards PROVE ShareInv'
  OBVIOUS
<1>1. TypeOK'
  BY DEF ShareInv, TypeOK, TickDiscards, Return, NoTick, TickStages, wish, streams,
         At, Threads
<1>2. /\ to_stop'[Main] = Started /\ to_stop[Main] = NoStream
      /\ \A u \in Threads \ {Main} : to_stop'[u] = to_stop[u]
      /\ UNCHANGED <<cloud_stream, up>> /\ Started' = NoStream
  BY DEF ShareInv, TypeOK, TickDiscards, Started, Return, NoTick, At, streams, Threads
<1>3. {cloud_stream', Started'} \union {to_stop'[u] : u \in Threads}
        = {cloud_stream, Started, NoStream} \union {to_stop[u] : u \in Threads}
  BY <1>2 DEF Threads
<1>4. OneOwner'
  BY <1>2, <1>3 DEF ShareInv, OneOwner
<1> QED BY <1>1, <1>4 DEF ShareInv, TickDiscards, Return, NoTick, At

LEMMA NextShareInv == ShareInv /\ [Next]_vars => ShareInv'
<1> SUFFICES ASSUME ShareInv, [Next]_vars PROVE ShareInv'
  OBVIOUS
<1>1. CASE Others
  <2>1. CASE \E w \in Workers : CaptureDead(w)
    BY <2>1, FinalizeKeeps, ThreadAssumption DEF CaptureDead, Threads
  <2> QED BY <1>1, <2>1, OthersKeep DEF Others
<1>2. CASE UnpairNow \/ GraceExpired
  BY <1>2, FinalizeKeeps DEF UnpairNow, GraceExpired, Threads
<1>3. CASE TickReads
  BY <1>3, TickKeeps
<1>4. CASE Tick
  BY <1>4, TickKeeps, TickDropsKeeps, TickStartsKeeps, TickFailsToStartKeeps,
     TickAdoptsKeeps, TickDiscardsKeeps DEF Tick
<1>5. CASE \E t \in Threads : StreamStopped(t)
  BY <1>5, StreamStoppedKeeps
<1>6. CASE UNCHANGED vars
  BY <1>6 DEF vars, wish, streams, ShareInv, TypeOK, OneOwner, Started, At
<1> QED BY <1>1, <1>2, <1>3, <1>4, <1>5, <1>6 DEF Next

\* Type correctness of cloud_try_start and of what interferes with it; the
\* start slot is held exactly while the tick starts a stream.
THEOREM ShareTypeCorrect == Spec => []TypeOK
<1>1. ShareInv => TypeOK
  BY DEF ShareInv
<1> QED BY <1>1, InitShareInv, NextShareInv, PTL DEF Spec

\* However the tick, the grace timer, the disconnect and dead captures
\* interleave, every relay stream has exactly one owner.
THEOREM StreamsOwned == Spec => []OneOwner
<1>1. ShareInv => OneOwner
  BY DEF ShareInv
<1> QED BY <1>1, InitShareInv, NextShareInv, PTL DEF Spec
=============================================================================
