----------------------------- MODULE CloudQueue -----------------------------
(***************************************************************************)
(* The coupled video path of the cloud relay stream                        *)
(* (src/src/cloud_stream.c).  The LAN loop feeds every encoded access unit *)
(* into a ring of VQ slots (bsdr_cloud_stream_feed_video); the thread      *)
(* cloud_video_main takes them out and sends them to the relay.  The app   *)
(* tick pauses, resumes and finally stops the stream                       *)
(* (bsdr_cloud_stream_set_active, bsdr_cloud_stream_stop).                 *)
(*                                                                         *)
(* A critical section under cs->flock is one action; everything read       *)
(* outside it (video_ready, active, stop) is an action of its own, so the  *)
(* three threads interleave between them.  Buffers are identities: the     *)
(* sender SWAPS its buffer with the slot's instead of copying, so who owns *)
(* which buffer is state.                                                  *)
(***************************************************************************)
EXTENDS Naturals, Sequences

CONSTANTS
    VQ,             \* slots of the ring (BSDR_CLOUD_VQ = 64 in the code)
    Buffers,        \* heap blocks realloc may return
    NoBuf,          \* the null pointer
    MaxFrames,      \* bound: access units the LAN encoder produces
    MaxToggles      \* bound: pause / resume calls

ASSUME VQAssumption == VQ \in Nat \ {0, 1}
ASSUME BuffersAssumption == NoBuf \notin Buffers
ASSUME BoundsAssumption == MaxFrames \in Nat /\ MaxToggles \in Nat

VARIABLES
    buf,            \* vq[i].buf
    keyframe,       \* vq[i].keyframe
    mem,            \* the bytes in each heap block: the frame last copied in
    head, tail,     \* vq_head, vq_tail
    video_ready, active, stop,
    fed,            \* access units the LAN loop has offered so far
    feeder,         \* where feed_video is: "idle" or "lock" (about to lock)
    incoming,       \* the access unit feed_video was called with
    sender,         \* where cloud_video_main is
    scratch,        \* the sender's own buffer
    taken,          \* the frame the sender dequeued last (history)
    sent,           \* frames handed to the relay, in order (history)
    sincePause,     \* frames sent since the pause began (history)
    toggles         \* pause / resume calls so far

ring == <<buf, keyframe, mem, head, tail>>
flags == <<video_ready, active, stop>>
history == <<taken, sent, sincePause>>
vars == <<ring, flags, fed, feeder, incoming, sender, scratch, history, toggles>>

Slots == 0 .. VQ - 1
Frames == [id : 1 .. MaxFrames, key : BOOLEAN]
NoFrame == [id |-> 0, key |-> FALSE]
AnyFrame == Frames \union {NoFrame}
SenderPcs == {"top", "active?", "flush", "lock", "wait", "woken", "send", "exit"}

Succ(i) == (i + 1) % VQ

Full == Succ(tail) = head
Empty == head = tail

\* A signal on vcond lets a waiting sender run again; it must retake flock.
Signalled == IF sender = "wait" THEN "woken" ELSE sender

-----------------------------------------------------------------------------
Init ==
    /\ buf = [i \in Slots |-> NoBuf]
    /\ keyframe = [i \in Slots |-> FALSE]
    /\ mem = [b \in Buffers |-> NoFrame]
    /\ head = 0 /\ tail = 0
    /\ video_ready = TRUE /\ active = TRUE /\ stop = FALSE
    /\ fed = 0 /\ feeder = "idle" /\ incoming = NoFrame
    /\ sender = "top" /\ scratch = NoBuf
    /\ taken = NoFrame /\ sent = <<>> /\ sincePause = 0 /\ toggles = 0

(***************************************************************************)
(* The LAN loop.  bsdr_app_feed_cloud_video holds the app lock around the  *)
(* whole call, and whoever stops the stream has taken it out of the app    *)
(* under that lock first: no feed begins once stop is set.                 *)
(***************************************************************************)
FeedCheck(key) ==
    /\ feeder = "idle" /\ ~stop /\ fed < MaxFrames
    /\ fed' = fed + 1
    /\ IF video_ready /\ active
         THEN feeder' = "lock" /\ incoming' = [id |-> fed + 1, key |-> key]
         ELSE UNCHANGED <<feeder, incoming>>
    /\ UNCHANGED <<ring, flags, sender, scratch, history, toggles>>

\* Full, the oldest frame is a keyframe and the newcomer is not: the
\* newcomer is dropped.
MustProtect == Full /\ keyframe[head] /\ ~incoming.key

\* Where the newcomer goes: the block the slot already has, or a new one.
TargetBlock(b) ==
    IF buf[tail] # NoBuf
      THEN b = buf[tail]
      ELSE b # scratch /\ \A i \in Slots : b # buf[i]

HeadAfterOverflow_Stays == head
HeadAfterOverflow == IF Full THEN Succ(head) ELSE head

SlotKey == incoming.key

\* The critical section of bsdr_cloud_stream_feed_video.  stored = FALSE is a
\* failed realloc: the oldest frame has been dropped all the same.
FeedLocked ==
    /\ feeder = "lock"
    /\ feeder' = "idle"
    /\ sender' = Signalled
    /\ \/ /\ MustProtect
          /\ UNCHANGED ring
       \/ /\ ~MustProtect
          /\ head' = HeadAfterOverflow
          /\ \/ \E b \in Buffers :
                   /\ TargetBlock(b)
                   /\ buf' = [buf EXCEPT ![tail] = b]
                   /\ mem' = [mem EXCEPT ![b] = incoming]
                   /\ keyframe' = [keyframe EXCEPT ![tail] = SlotKey]
                   /\ tail' = Succ(tail)
             \/ UNCHANGED <<buf, keyframe, mem, tail>>
    /\ UNCHANGED <<flags, fed, incoming, scratch, history, toggles>>

-----------------------------------------------------------------------------
(***************************************************************************)
(* cloud_video_main, one iteration of its loop.                            *)
(***************************************************************************)
SenderTop ==
    /\ sender = "top"
    /\ IF stop THEN sender' = "exit" /\ video_ready' = FALSE
               ELSE sender' = "active?" /\ UNCHANGED video_ready
    /\ UNCHANGED <<ring, active, stop, fed, feeder, incoming, scratch, history,
                   toggles>>

SenderPaused ==
    /\ sender = "active?" /\ ~active
    /\ sender' = "flush"
    /\ UNCHANGED <<ring, flags, fed, feeder, incoming, scratch, history, toggles>>

FlushedHead_Keep == head
FlushedHead == tail

\* Under flock; the share may have been resumed since the check, and what was
\* fed since then is flushed too.
SenderFlush ==
    /\ sender = "flush"
    /\ head' = FlushedHead
    /\ sender' = "top"
    /\ UNCHANGED <<buf, keyframe, mem, tail, flags, fed, feeder, incoming,
                   scratch, history, toggles>>

SenderActive_Ignored == sender = "active?" /\ (active \/ ~Empty)
SenderActive == sender = "active?" /\ active

SenderGo ==
    /\ SenderActive
    /\ sender' = "lock"
    /\ UNCHANGED <<ring, flags, fed, feeder, incoming, scratch, history, toggles>>

\* bsdr_cond_wait_ms releases flock and sleeps.
SenderWait ==
    /\ sender = "lock" /\ Empty
    /\ sender' = "wait"
    /\ UNCHANGED <<ring, flags, fed, feeder, incoming, scratch, history, toggles>>

WaitTimeout_Never ==
    /\ FALSE
    /\ UNCHANGED vars

\* The wait is bounded at 100 ms, and may wake spuriously.
WaitTimeout ==
    /\ sender = "wait"
    /\ sender' = "woken"
    /\ UNCHANGED <<ring, flags, fed, feeder, incoming, scratch, history, toggles>>

SenderNothing ==
    /\ sender = "woken" /\ Empty
    /\ sender' = "top"
    /\ UNCHANGED <<ring, flags, fed, feeder, incoming, scratch, history, toggles>>

SlotAfterTake_Shared == buf[head]
SlotAfterTake == scratch

\* The sender takes the oldest frame by swapping buffers with its slot.
SenderTake ==
    /\ sender \in {"lock", "woken"} /\ ~Empty
    /\ scratch' = buf[head]
    /\ buf' = [buf EXCEPT ![head] = SlotAfterTake]
    /\ head' = Succ(head)
    /\ taken' = mem[buf[head]]
    /\ sender' = "send"
    /\ UNCHANGED <<keyframe, mem, tail, flags, fed, feeder, incoming, sent,
                   sincePause, toggles>>

\* bsdr_video_send_au_cloud reads the buffer outside the lock.
SenderSend ==
    /\ sender = "send"
    /\ sent' = Append(sent, mem[scratch])
    /\ sincePause' = IF active THEN 0 ELSE sincePause + 1
    /\ sender' = "top"
    /\ UNCHANGED <<ring, flags, fed, feeder, incoming, scratch, taken, toggles>>

-----------------------------------------------------------------------------
(***************************************************************************)
(* The app tick.                                                           *)
(***************************************************************************)
SetActive(on) ==
    /\ ~stop /\ toggles < MaxToggles
    /\ active # on
    /\ active' = on
    /\ sender' = Signalled
    /\ toggles' = toggles + 1
    /\ sincePause' = 0
    /\ UNCHANGED <<ring, video_ready, stop, fed, feeder, incoming, scratch,
                   taken, sent>>

Stop ==
    /\ ~stop /\ feeder = "idle"
    /\ stop' = TRUE
    /\ sender' = Signalled
    /\ UNCHANGED <<ring, video_ready, active, fed, feeder, incoming, scratch,
                   history, toggles>>

\* bsdr_cloud_stream_stop has joined the thread and freed the stream.
Joined ==
    /\ stop /\ sender = "exit"
    /\ UNCHANGED vars

Feeder == (\E key \in BOOLEAN : FeedCheck(key)) \/ FeedLocked
Sender ==
    \/ SenderTop \/ SenderPaused \/ SenderFlush \/ SenderGo \/ SenderWait \/ WaitTimeout
    \/ SenderNothing \/ SenderTake \/ SenderSend
AppTick == (\E on \in BOOLEAN : SetActive(on)) \/ Stop

Next == Feeder \/ Sender \/ AppTick \/ Joined

Spec == Init /\ [][Next]_vars

\* The sender thread is always runnable except in its bounded wait, and a
\* thread that waits for flock gets it: weak fairness of the thread's steps.
FairSpec == Spec /\ WF_vars(Sender) /\ WF_vars(FeedLocked)

-----------------------------------------------------------------------------
(***************************************************************************)
(* Properties.                                                             *)
(***************************************************************************)
TypeOK ==
    /\ buf \in [Slots -> Buffers \union {NoBuf}]
    /\ keyframe \in [Slots -> BOOLEAN]
    /\ mem \in [Buffers -> AnyFrame]
    /\ head \in Slots /\ tail \in Slots
    /\ video_ready \in BOOLEAN /\ active \in BOOLEAN /\ stop \in BOOLEAN
    /\ fed \in 0 .. MaxFrames
    /\ feeder \in {"idle", "lock"}
    /\ incoming \in AnyFrame /\ (feeder = "lock" => incoming \in Frames)
    /\ sender \in SenderPcs
    /\ scratch \in Buffers \union {NoBuf}
    /\ taken \in AnyFrame
    /\ sent \in Seq(AnyFrame)
    /\ sincePause \in Nat
    /\ toggles \in 0 .. MaxToggles

\* The slots that hold a frame still to be sent.
Occupied ==
    IF head <= tail THEN {i \in Slots : head <= i /\ i < tail}
                    ELSE {i \in Slots : head <= i \/ i < tail}

\* No heap block has two owners: the slots and the sender never share one.
\* Were it otherwise the feeder would overwrite the frame being sent, and
\* bsdr_cloud_stream_stop would free a block twice.
BufferExclusive ==
    /\ \A i, j \in Slots : i # j /\ buf[i] # NoBuf => buf[i] # buf[j]
    /\ scratch # NoBuf => \A i \in Slots : buf[i] # scratch

\* A slot that is to be sent has a block, and the keyframe flag the overflow
\* rule consults is the flag of the frame that is really in it.
SlotsDescribeFrames ==
    \A i \in Occupied :
        buf[i] # NoBuf /\ mem[buf[i]] \in Frames /\ keyframe[i] = mem[buf[i]].key

\* While the sender transmits outside the lock, the bytes it reads are those
\* of the frame it dequeued, whatever the feeder does meanwhile.
InFlightIntact == sender = "send" => scratch # NoBuf /\ mem[scratch] = taken

\* Pausing the share takes effect at once: at most the one frame already past
\* the active check goes out before the share is resumed.
QuietWhilePaused == sincePause <= 1

\* Stopping the stream terminates: the sender leaves its loop, even when the
\* signal that announces the stop is sent before it begins to wait.
StopJoins == stop ~> sender = "exit"

\* No frame stays in the queue: it is sent, or evicted by a newer one, or
\* flushed because the share was paused, unless the stream is stopped.  In
\* particular a share that stays paused discards its stale frames.
FramesLeave == ~Empty ~> (Empty \/ stop)

\* The ring read from head to tail, through the buffers.
Queue == [j \in 1 .. (tail + VQ - head) % VQ |-> mem[buf[(head + j - 1) % VQ]]]

\* The relay is the bounded FIFO of FrameFifo.  A frame counts as delivered
\* when the sender has taken it.  The share counts as paused also while the
\* sender is still acting on a pause.
Fifo == INSTANCE FrameFifo WITH
    Cap <- VQ - 1,
    fifo <- Queue,
    delivered <- IF sender = "send" THEN Append(sent, mem[scratch]) ELSE sent,
    newest <- fed,
    paused <- ~active \/ sender = "flush"

RelayIsFifo == Fifo!Spec
=============================================================================
