-------------------------- MODULE CloudQueue_proofs --------------------------
(***************************************************************************)
(* Safety of the cloud relay's frame ring for every ring size, every       *)
(* number of frames and every pool of heap blocks, and that the ring is    *)
(* the FIFO that FrameFifo specifies.                                      *)
(***************************************************************************)
EXTENDS CloudQueue, SequenceTheorems, TLAPS

\* Advancing a ring index stays in the ring and wraps at the last slot.
LEMMA SuccLemma ==
    ASSUME NEW i \in Slots
    PROVE  /\ Succ(i) \in Slots
           /\ Succ(i) = IF i = VQ - 1 THEN 0 ELSE i + 1
<1>1. VQ \in Nat /\ VQ > 1 /\ i \in Nat /\ i < VQ
  BY VQAssumption DEF Slots
<1>2. CASE i = VQ - 1
  <2>1. (i + 1) % VQ = 0
    BY <1>1, <1>2
  <2> QED BY <1>1, <1>2, <2>1 DEF Succ, Slots
<1>3. CASE i # VQ - 1
  <2>1. (i + 1) % VQ = i + 1
    BY <1>1, <1>3
  <2> QED BY <1>1, <1>3, <2>1 DEF Succ, Slots
<1> QED BY <1>2, <1>3

\* An index is in the occupied part of the ring unless the ring is empty.
LEMMA HeadOccupied == TypeOK /\ ~Empty => head \in Occupied
<1> SUFFICES ASSUME TypeOK, ~Empty PROVE head \in Occupied
  OBVIOUS
<1>1. head \in 0 .. VQ - 1 /\ tail \in 0 .. VQ - 1 /\ head # tail
  BY DEF TypeOK, Empty, Slots
<1> QED BY <1>1, VQAssumption DEF Occupied, Slots

\* Taking the oldest frame frees the head slot and no other.
LEMMA OccupiedAfterTake ==
    ASSUME TypeOK, ~Empty, head' = Succ(head), tail' = tail
    PROVE  Occupied' \subseteq Occupied \ {head}
<1>1. head \in Slots /\ tail \in Slots /\ head # tail
  BY DEF TypeOK, Empty
<1>2. head' = IF head = VQ - 1 THEN 0 ELSE head + 1
  BY <1>1, SuccLemma
<1> QED BY <1>1, <1>2, VQAssumption DEF Occupied, Slots

\* Storing a frame adds the tail slot, which held no frame to be sent.
LEMMA OccupiedAfterStore ==
    ASSUME TypeOK, tail' = Succ(tail), head' = HeadAfterOverflow
    PROVE  /\ Occupied' \subseteq Occupied \union {tail}
           /\ tail \notin Occupied
<1>1. head \in Slots /\ tail \in Slots
  BY DEF TypeOK
<1>2. /\ Succ(head) = IF head = VQ - 1 THEN 0 ELSE head + 1
      /\ Succ(tail) = IF tail = VQ - 1 THEN 0 ELSE tail + 1
  BY <1>1, SuccLemma
<1> QED BY <1>1, <1>2, VQAssumption DEF Occupied, Slots, HeadAfterOverflow, Full

\* Dropping the oldest frame of a full ring only shrinks the occupied part.
LEMMA OccupiedAfterDrop ==
    ASSUME TypeOK, tail' = tail, head' = HeadAfterOverflow
    PROVE  Occupied' \subseteq Occupied
<1>1. head \in Slots /\ tail \in Slots
  BY DEF TypeOK
<1>2. /\ Succ(head) = IF head = VQ - 1 THEN 0 ELSE head + 1
      /\ Succ(tail) = IF tail = VQ - 1 THEN 0 ELSE tail + 1
  BY <1>1, SuccLemma
<1> QED BY <1>1, <1>2, VQAssumption DEF Occupied, Slots, HeadAfterOverflow, Full

-----------------------------------------------------------------------------
(***************************************************************************)
(* The inductive invariant.  The type of the frame in flight depends on    *)
(* the head slot having a block, that on the slots describing their        *)
(* frames, and that on no block having two owners: none is inductive       *)
(* without the others.                                                     *)
(***************************************************************************)
RingInv == TypeOK /\ BufferExclusive /\ SlotsDescribeFrames /\ InFlightIntact

LEMMA InitRing == Init => RingInv
<1> USE VQAssumption, BuffersAssumption, BoundsAssumption
<1> SUFFICES ASSUME Init PROVE RingInv
  OBVIOUS
<1>1. TypeOK
  <2>1. NoFrame \in AnyFrame
    BY DEF AnyFrame
  <2>2. 0 \in Slots /\ 0 \in 0 .. MaxFrames /\ 0 \in 0 .. MaxToggles
    BY DEF Slots
  <2>3. sent \in Seq(AnyFrame)
    BY DEF Init
  <2>4. /\ buf \in [Slots -> Buffers \union {NoBuf}]
        /\ keyframe \in [Slots -> BOOLEAN]
        /\ mem \in [Buffers -> AnyFrame]
    BY <2>1 DEF Init
  <2> QED BY <2>1, <2>2, <2>3, <2>4 DEF Init, TypeOK, SenderPcs
<1>2. BufferExclusive /\ InFlightIntact
  BY DEF Init, BufferExclusive, InFlightIntact
<1>3. Occupied = {}
  BY DEF Init, Occupied, Slots
<1>4. SlotsDescribeFrames
  BY <1>3 DEF SlotsDescribeFrames
<1> QED BY <1>1, <1>2, <1>4 DEF RingInv

\* A step that leaves the ring and the sender's buffer alone, and does not
\* begin a transmission, keeps the invariant if it keeps the types.
LEMMA RingUntouched ==
    ASSUME RingInv, TypeOK', UNCHANGED <<ring, scratch, taken>>,
           sender' = "send" => sender = "send"
    PROVE  RingInv'
BY DEF RingInv, ring, BufferExclusive, SlotsDescribeFrames, InFlightIntact,
       Occupied

\* The feeder's critical section: the block it writes is the tail slot's own
\* or a fresh one, so neither the sender's block nor that of a queued frame.
LEMMA FeedKeepsRing == RingInv /\ FeedLocked => RingInv'
<1> USE VQAssumption, BuffersAssumption
<1> SUFFICES ASSUME RingInv, FeedLocked PROVE RingInv'
  OBVIOUS
<1> USE DEF RingInv
<1>1. head \in Slots /\ tail \in Slots /\ Succ(head) \in Slots /\ Succ(tail) \in Slots
  BY SuccLemma DEF TypeOK
<1>2. /\ feeder' \in {"idle", "lock"} /\ feeder' # "lock"
      /\ sender' \in SenderPcs
      /\ sender' = "send" => sender = "send"
      /\ UNCHANGED <<flags, fed, incoming, scratch, taken, sent, sincePause,
                     toggles>>
  BY DEF FeedLocked, TypeOK, Signalled, SenderPcs, history
<1>3. CASE UNCHANGED ring
  <2>1. TypeOK'
    BY <1>2, <1>3 DEF TypeOK, ring, flags
  <2> QED BY <1>2, <1>3, <2>1, RingUntouched
<1>4. CASE head' = HeadAfterOverflow /\ UNCHANGED <<buf, keyframe, mem, tail>>
  <2>1. head' \in Slots
    BY <1>1, <1>4 DEF HeadAfterOverflow
  <2>2. TypeOK'
    BY <1>2, <1>4, <2>1 DEF TypeOK, flags
  <2>3. Occupied' \subseteq Occupied
    BY <1>4, OccupiedAfterDrop
  <2> QED BY <1>2, <1>4, <2>2, <2>3
       DEF BufferExclusive, SlotsDescribeFrames, InFlightIntact
<1>5. ASSUME NEW b \in Buffers, TargetBlock(b),
             incoming \in Frames,
             head' = HeadAfterOverflow,
             buf' = [buf EXCEPT ![tail] = b],
             mem' = [mem EXCEPT ![b] = incoming],
             keyframe' = [keyframe EXCEPT ![tail] = SlotKey],
             tail' = Succ(tail)
      PROVE  RingInv'
  <2>1. head' \in Slots /\ tail' \in Slots
    BY <1>1, <1>5 DEF HeadAfterOverflow
  <2>2. SlotKey \in BOOLEAN /\ SlotKey = incoming.key /\ incoming \in AnyFrame
    BY <1>5 DEF Frames, AnyFrame, SlotKey
  <2>3. /\ buf' \in [Slots -> Buffers \union {NoBuf}]
        /\ keyframe' \in [Slots -> BOOLEAN]
        /\ mem' \in [Buffers -> AnyFrame]
    BY <1>5, <2>2 DEF TypeOK
  <2>4. TypeOK'
    BY <1>2, <2>1, <2>3 DEF TypeOK, flags
  <2>5. b # scratch /\ \A i \in Slots : i # tail => b # buf[i]
    BY <1>1, <1>5 DEF TargetBlock, BufferExclusive, TypeOK
  <2>6. BufferExclusive'
    BY <1>1, <1>2, <1>5, <2>5 DEF BufferExclusive, TypeOK
  <2>7. InFlightIntact'
    BY <1>2, <1>5, <2>5 DEF InFlightIntact, TypeOK
  <2>8. Occupied' \subseteq Occupied \union {tail} /\ tail \notin Occupied
    BY <1>5, OccupiedAfterStore
  <2>9. SlotsDescribeFrames'
    <3> SUFFICES ASSUME NEW i \in Occupied'
                 PROVE  /\ buf'[i] # NoBuf
                        /\ mem'[buf'[i]] \in Frames
                        /\ keyframe'[i] = mem'[buf'[i]].key
      BY DEF SlotsDescribeFrames
    <3>1. i \in Slots
      BY <2>8, <1>1 DEF Occupied
    <3>2. CASE i = tail
      BY <1>1, <1>5, <2>2, <3>2 DEF TypeOK
    <3>3. CASE i # tail
      <4>1. i \in Occupied /\ b # buf[i]
        BY <2>5, <2>8, <3>1, <3>3
      <4>2. buf'[i] = buf[i] /\ keyframe'[i] = keyframe[i]
        BY <1>5, <3>1, <3>3 DEF TypeOK
      <4>3. /\ buf[i] # NoBuf
            /\ mem[buf[i]] \in Frames
            /\ keyframe[i] = mem[buf[i]].key
        BY <4>1 DEF SlotsDescribeFrames
      <4>4. mem'[buf[i]] = mem[buf[i]]
        BY <1>5, <3>1, <4>1, <4>3 DEF TypeOK
      <4> QED BY <4>2, <4>3, <4>4
    <3> QED BY <3>2, <3>3
  <2> QED BY <2>4, <2>6, <2>7, <2>9
<1>6. incoming \in Frames
  BY DEF FeedLocked, TypeOK
<1> QED BY <1>3, <1>4, <1>5, <1>6 DEF FeedLocked

\* The sender's swap: the block it takes leaves the ring, the one it gives is
\* its own.
LEMMA TakeKeepsRing == RingInv /\ SenderTake => RingInv'
<1> USE VQAssumption, BuffersAssumption
<1> SUFFICES ASSUME RingInv, SenderTake PROVE RingInv'
  OBVIOUS
<1> USE DEF RingInv
<1>1. head \in Slots /\ Succ(head) \in Slots
  BY SuccLemma DEF TypeOK
<1>2. head \in Occupied
  BY HeadOccupied DEF SenderTake
<1>3. buf[head] \in Buffers /\ mem[buf[head]] \in AnyFrame
  BY <1>1, <1>2 DEF SlotsDescribeFrames, TypeOK
<1>4. /\ scratch' = buf[head]
      /\ buf' = [buf EXCEPT ![head] = scratch]
      /\ head' = Succ(head)
      /\ taken' = mem[buf[head]]
      /\ sender' = "send"
      /\ UNCHANGED <<keyframe, mem, tail, flags, fed, feeder, incoming, sent,
                     sincePause, toggles>>
  BY DEF SenderTake, SlotAfterTake
<1>5. TypeOK'
  <2>1. buf' \in [Slots -> Buffers \union {NoBuf}]
    BY <1>4 DEF TypeOK
  <2> QED BY <1>1, <1>3, <1>4, <2>1 DEF TypeOK, flags, SenderPcs
<1>6. BufferExclusive'
  BY <1>1, <1>3, <1>4 DEF BufferExclusive, TypeOK
<1>7. Occupied' \subseteq Occupied \ {head}
  BY <1>4, OccupiedAfterTake DEF SenderTake
<1>8. SlotsDescribeFrames'
  <2> SUFFICES ASSUME NEW i \in Occupied'
               PROVE  /\ buf'[i] # NoBuf
                      /\ mem'[buf'[i]] \in Frames
                      /\ keyframe'[i] = mem'[buf'[i]].key
    BY DEF SlotsDescribeFrames
  <2>1. i \in Occupied /\ i # head /\ i \in Slots
    BY <1>7 DEF Occupied
  <2>2. buf'[i] = buf[i]
    BY <1>4, <2>1 DEF TypeOK
  <2> QED BY <1>4, <2>1, <2>2 DEF SlotsDescribeFrames
<1>9. InFlightIntact'
  BY <1>3, <1>4, BuffersAssumption DEF InFlightIntact
<1> QED BY <1>5, <1>6, <1>8, <1>9

LEMMA StepRing == RingInv /\ [Next]_vars => RingInv'
<1> USE VQAssumption, BuffersAssumption, BoundsAssumption
<1> SUFFICES ASSUME RingInv, [Next]_vars PROVE RingInv'
  OBVIOUS
<1>0. TypeOK
  BY DEF RingInv
<1>1. ASSUME NEW key \in BOOLEAN, FeedCheck(key) PROVE RingInv'
  <2>1. fed' = fed + 1 /\ fed' \in 1 .. MaxFrames
    BY <1>0, <1>1 DEF FeedCheck, TypeOK
  <2>2. /\ feeder' \in {"idle", "lock"}
        /\ incoming' \in AnyFrame
        /\ feeder' = "lock" => incoming' \in Frames
    <3>1. CASE video_ready /\ active
      <4>1. incoming' = [id |-> fed', key |-> key] /\ feeder' = "lock"
        BY <1>1, <3>1, <2>1 DEF FeedCheck
      <4>2. incoming' \in Frames
        BY <4>1, <2>1 DEF Frames
      <4> QED BY <4>1, <4>2 DEF AnyFrame
    <3>2. CASE ~(video_ready /\ active)
      BY <1>0, <1>1, <3>2 DEF FeedCheck, TypeOK
    <3> QED BY <3>1, <3>2
  <2>3. UNCHANGED <<ring, flags, sender, scratch, history, toggles>>
    BY <1>1 DEF FeedCheck
  <2>4. TypeOK'
    BY <1>0, <2>1, <2>2, <2>3 DEF TypeOK, ring, flags, history
  <2> QED BY <2>3, <2>4, RingUntouched DEF history
<1>2. CASE FeedLocked
  BY <1>2, FeedKeepsRing
<1>3. CASE SenderTop
  <2>1. TypeOK'
    BY <1>0, <1>3 DEF SenderTop, TypeOK, ring, history, SenderPcs
  <2> QED BY <1>3, <2>1, RingUntouched DEF SenderTop, history
<1>4. CASE SenderFlush
  <2>1. TypeOK'
    BY <1>0, <1>4 DEF SenderFlush, FlushedHead, TypeOK, flags, history, SenderPcs
  <2>2. Occupied' = {}
    BY <1>0, <1>4 DEF SenderFlush, FlushedHead, TypeOK, Occupied, Slots
  <2> QED BY <1>4, <2>1, <2>2
       DEF SenderFlush, RingInv, BufferExclusive, SlotsDescribeFrames,
           InFlightIntact, history
<1>5. CASE SenderPaused \/ SenderGo \/ SenderWait \/ WaitTimeout \/ SenderNothing
  <2>1. TypeOK'
    BY <1>0, <1>5 DEF SenderPaused, SenderGo, SenderWait, WaitTimeout, SenderNothing, TypeOK,
                      ring, flags, history, SenderPcs
  <2> QED BY <1>5, <2>1, RingUntouched
       DEF SenderPaused, SenderGo, SenderWait, WaitTimeout, SenderNothing, history
<1>6. CASE SenderTake
  BY <1>6, TakeKeepsRing
<1>7. CASE SenderSend
  <2>1. scratch \in Buffers
    BY <1>0, <1>7 DEF SenderSend, RingInv, InFlightIntact, TypeOK
  <2>2. mem[scratch] \in AnyFrame
    BY <1>0, <2>1 DEF TypeOK
  <2>3. sent' \in Seq(AnyFrame)
    BY <1>0, <1>7, <2>2 DEF SenderSend, TypeOK
  <2>4. sincePause' \in Nat
    BY <1>0, <1>7 DEF SenderSend, TypeOK
  <2>5. TypeOK'
    BY <1>0, <1>7, <2>3, <2>4 DEF SenderSend, TypeOK, ring, flags, SenderPcs
  <2> QED BY <1>7, <2>5, RingUntouched DEF SenderSend
<1>8. ASSUME NEW on \in BOOLEAN, SetActive(on) PROVE RingInv'
  <2>1. TypeOK'
    BY <1>0, <1>8 DEF SetActive, Signalled, TypeOK, ring, SenderPcs
  <2> QED BY <1>8, <2>1, RingUntouched DEF SetActive, Signalled
<1>9. CASE Stop
  <2>1. TypeOK'
    BY <1>0, <1>9 DEF Stop, Signalled, TypeOK, ring, history, SenderPcs
  <2> QED BY <1>9, <2>1, RingUntouched DEF Stop, Signalled, history
<1>10. CASE Joined \/ UNCHANGED vars
  <2>1. TypeOK'
    BY <1>0, <1>10 DEF Joined, vars, TypeOK, ring, flags, history
  <2> QED BY <1>10, <2>1, RingUntouched DEF Joined, vars, history
<1> QED BY <1>1, <1>2, <1>3, <1>4, <1>5, <1>6, <1>7, <1>8, <1>9, <1>10
     DEF Next, Feeder, Sender, AppTick

\* The ring is sound in every reachable state: types, sole ownership of every
\* block, slots that describe their frames, and a frame in flight whose bytes
\* the feeder of bsdr_cloud_stream_feed_video never touches.
THEOREM RingCorrect == Spec => [](TypeOK /\ BufferExclusive /\ SlotsDescribeFrames /\ InFlightIntact)
<1>1. Init => RingInv
  BY InitRing
<1>2. RingInv /\ [Next]_vars => RingInv'
  BY StepRing
<1>3. RingInv => TypeOK /\ BufferExclusive /\ SlotsDescribeFrames /\ InFlightIntact
  BY DEF RingInv
<1> QED BY <1>1, <1>2, <1>3, PTL DEF Spec

-----------------------------------------------------------------------------
\* Why a pause is quiet: while the share is active nothing is counted, and
\* once a frame has gone out after the pause the sender is in front of its
\* active check, which it cannot pass until the share is resumed.
PauseInv ==
    /\ active => sincePause = 0
    /\ sincePause \in {0, 1}
    /\ sincePause = 1 => sender \in {"top", "active?", "flush", "exit"}

\* bsdr_cloud_stream_set_active(0) lets at most one more frame out.
THEOREM PauseIsQuiet == Spec => []QuietWhilePaused
<1>1. Init => PauseInv
  BY DEF Init, PauseInv
<1>2. PauseInv /\ [Next]_vars => PauseInv'
  <2> SUFFICES ASSUME PauseInv, [Next]_vars PROVE PauseInv'
    OBVIOUS
  <2> USE DEF PauseInv
  <2>1. ASSUME NEW key \in BOOLEAN, FeedCheck(key) PROVE PauseInv'
    BY <2>1 DEF FeedCheck, flags, history
  <2>2. CASE FeedLocked
    BY <2>2 DEF FeedLocked, Signalled, flags, history
  <2>3. CASE SenderTop
    BY <2>3 DEF SenderTop, history
  <2>4. CASE SenderPaused \/ SenderFlush
    BY <2>4 DEF SenderPaused, SenderFlush, flags, history
  <2>5. CASE SenderGo
    BY <2>5 DEF SenderGo, SenderActive, flags, history
  <2>6. CASE SenderWait \/ WaitTimeout \/ SenderNothing
    BY <2>6 DEF SenderWait, WaitTimeout, SenderNothing, flags, history
  <2>7. CASE SenderTake
    BY <2>7 DEF SenderTake, flags
  <2>8. CASE SenderSend
    BY <2>8 DEF SenderSend, flags
  <2>9. ASSUME NEW on \in BOOLEAN, SetActive(on) PROVE PauseInv'
    BY <2>9 DEF SetActive
  <2>10. CASE Stop
    BY <2>10 DEF Stop, Signalled, history
  <2>11. CASE Joined \/ UNCHANGED vars
    BY <2>11 DEF Joined, vars, flags, history
  <2> QED BY <2>1, <2>2, <2>3, <2>4, <2>5, <2>6, <2>7, <2>8, <2>9, <2>10, <2>11
       DEF Next, Feeder, Sender, AppTick
<1>3. PauseInv => QuietWhilePaused
  BY DEF PauseInv, QuietWhilePaused
<1> QED BY <1>1, <1>2, <1>3, PTL DEF Spec

-----------------------------------------------------------------------------

(***************************************************************************)
(* The relay is the FIFO of FrameFifo.  First the arithmetic of the ring:  *)
(* how many frames lie between the indices h and t, and where the j-th is. *)
(***************************************************************************)
Count(h, t) == (t + VQ - h) % VQ
Place(h, j) == (h + j - 1) % VQ

\* Below twice the size of the ring, the modulus subtracts it once or not.
LEMMA RingMod ==
    ASSUME NEW n \in Nat, n < 2 * VQ
    PROVE  n % VQ = IF n < VQ THEN n ELSE n - VQ
<1>1. VQ \in Nat /\ VQ > 1
  BY VQAssumption
<1>2. CASE n < VQ
  BY <1>1, <1>2
<1>3. CASE n >= VQ
  <2>1. (n - VQ) + 1 * VQ = n /\ n - VQ \in 0 .. VQ - 1
    BY <1>1, <1>3
  <2> QED BY <1>1, <1>3, <2>1
<1> QED BY <1>1, <1>2, <1>3

\* The number of frames between two indices, by cases, and its range.
LEMMA CountValue ==
    ASSUME NEW h \in Slots, NEW t \in Slots
    PROVE  /\ Count(h, t) = IF h <= t THEN t - h ELSE t + VQ - h
           /\ Count(h, t) \in 0 .. VQ - 1
<1>1. VQ \in Nat /\ h \in 0 .. VQ - 1 /\ t \in 0 .. VQ - 1
  BY VQAssumption DEF Slots
<1>2. t + VQ - h \in Nat /\ t + VQ - h < 2 * VQ
  BY <1>1
<1>3. Count(h, t) = IF t + VQ - h < VQ THEN t + VQ - h ELSE t + VQ - h - VQ
  BY <1>1, <1>2, RingMod DEF Count
<1>4. CASE h <= t
  <2>1. t + VQ - h >= VQ
    BY <1>1, <1>4
  <2>2. Count(h, t) = t + VQ - h - VQ
    BY <1>1, <1>3, <2>1
  <2>3. t + VQ - h - VQ = t - h
    BY <1>1
  <2>4. t - h \in 0 .. VQ - 1
    BY <1>1, <1>4
  <2> QED BY <1>4, <2>2, <2>3, <2>4
<1>5. CASE ~(h <= t)
  <2>1. t + VQ - h < VQ /\ t + VQ - h \in 0 .. VQ - 1
    BY <1>1, <1>5
  <2> QED BY <1>3, <1>5, <2>1
<1> QED BY <1>4, <1>5

\* The place of the j-th frame, by cases, and that it is a slot.
LEMMA PlaceValue ==
    ASSUME NEW h \in Slots, NEW j \in 1 .. VQ
    PROVE  /\ Place(h, j) = IF h + j <= VQ THEN h + j - 1 ELSE h + j - 1 - VQ
           /\ Place(h, j) \in Slots
<1>1. VQ \in Nat /\ h \in 0 .. VQ - 1
  BY VQAssumption DEF Slots
<1>2. h + j - 1 \in Nat /\ h + j - 1 < 2 * VQ
  BY <1>1
<1>3. Place(h, j) = IF h + j - 1 < VQ THEN h + j - 1 ELSE h + j - 1 - VQ
  BY <1>1, <1>2, RingMod DEF Place
<1>4. CASE h + j <= VQ
  <2>1. h + j - 1 < VQ /\ h + j - 1 \in Slots
    BY <1>1, <1>4 DEF Slots
  <2> QED BY <1>3, <1>4, <2>1
<1>5. CASE ~(h + j <= VQ)
  <2>1. ~(h + j - 1 < VQ) /\ h + j - 1 - VQ \in Slots
    BY <1>1, <1>5 DEF Slots
  <2> QED BY <1>3, <1>5, <2>1
<1> QED BY <1>4, <1>5

\* The head moves on: one frame less, and each of the others is one place
\* nearer to the front.
LEMMA HeadMoves ==
    ASSUME NEW h \in Slots, NEW t \in Slots, h # t
    PROVE  /\ Count(h, t) >= 1
           /\ Count(Succ(h), t) = Count(h, t) - 1
           /\ Place(h, 1) = h
           /\ \A j \in 1 .. VQ - 1 : Place(Succ(h), j) = Place(h, j + 1)
<1>1. /\ VQ \in Nat /\ VQ > 1 /\ h \in 0 .. VQ - 1 /\ t \in 0 .. VQ - 1
      /\ Succ(h) \in 0 .. VQ - 1
      /\ Succ(h) = IF h = VQ - 1 THEN 0 ELSE h + 1
  BY VQAssumption, SuccLemma DEF Slots
<1>2. /\ Count(h, t) = IF h <= t THEN t - h ELSE t + VQ - h
      /\ Count(Succ(h), t) = IF Succ(h) <= t THEN t - Succ(h)
                                             ELSE t + VQ - Succ(h)
  BY <1>1, CountValue DEF Slots
<1>3. Place(h, 1) = h
  BY <1>1, PlaceValue DEF Slots
<1>4. ASSUME NEW j \in 1 .. VQ - 1
      PROVE  Place(Succ(h), j) = Place(h, j + 1)
  <2>1. Place(Succ(h), j) = IF Succ(h) + j <= VQ THEN Succ(h) + j - 1
                                                ELSE Succ(h) + j - 1 - VQ
    BY <1>1, PlaceValue DEF Slots
  <2>2. Place(h, j + 1) = IF h + (j + 1) <= VQ THEN h + (j + 1) - 1
                                              ELSE h + (j + 1) - 1 - VQ
    BY <1>1, PlaceValue
  <2> QED BY <1>1, <2>1, <2>2
<1> QED BY <1>1, <1>2, <1>3, <1>4

\* The tail moves on over a slot that is free: one frame more, in that slot.
LEMMA TailMoves ==
    ASSUME NEW h \in Slots, NEW t \in Slots, Succ(t) # h
    PROVE  /\ Count(h, t) < VQ - 1
           /\ Count(h, Succ(t)) = Count(h, t) + 1
           /\ Place(h, Count(h, t) + 1) = t
<1>1. /\ VQ \in Nat /\ VQ > 1 /\ h \in 0 .. VQ - 1 /\ t \in 0 .. VQ - 1
      /\ Succ(t) \in 0 .. VQ - 1
      /\ Succ(t) = IF t = VQ - 1 THEN 0 ELSE t + 1
  BY VQAssumption, SuccLemma DEF Slots
<1>2. /\ Count(h, t) = IF h <= t THEN t - h ELSE t + VQ - h
      /\ Count(h, Succ(t)) = IF h <= Succ(t) THEN Succ(t) - h
                                             ELSE Succ(t) + VQ - h
  BY <1>1, CountValue DEF Slots
<1>3. Count(h, t) + 1 \in 1 .. VQ
  BY <1>1, <1>2
<1>4. Place(h, Count(h, t) + 1) =
          IF h + (Count(h, t) + 1) <= VQ THEN h + (Count(h, t) + 1) - 1
                                         ELSE h + (Count(h, t) + 1) - 1 - VQ
  BY <1>3, PlaceValue
<1> QED BY <1>1, <1>2, <1>4

\* A full ring holds one frame less than it has slots.
LEMMA FullCount ==
    ASSUME NEW h \in Slots, NEW t \in Slots
    PROVE  Succ(t) = h <=> Count(h, t) = VQ - 1
<1>1. /\ VQ \in Nat /\ VQ > 1 /\ h \in 0 .. VQ - 1 /\ t \in 0 .. VQ - 1
      /\ Succ(t) = IF t = VQ - 1 THEN 0 ELSE t + 1
  BY VQAssumption, SuccLemma DEF Slots
<1>2. Count(h, t) = IF h <= t THEN t - h ELSE t + VQ - h
  BY CountValue
<1> QED BY <1>1, <1>2

\* The places of the frames in the ring are the occupied slots.
LEMMA PlaceOccupied ==
    ASSUME head \in Slots, tail \in Slots, NEW j \in 1 .. Count(head, tail)
    PROVE  /\ Place(head, j) \in Occupied
           /\ Place(head, j) \in Slots
           /\ Place(head, j) # tail
           /\ j > 1 => Place(head, j) # head
<1>1. VQ \in Nat /\ VQ > 1 /\ head \in 0 .. VQ - 1 /\ tail \in 0 .. VQ - 1
  BY VQAssumption DEF Slots
<1>2. /\ Count(head, tail) = IF head <= tail THEN tail - head
                                             ELSE tail + VQ - head
      /\ Count(head, tail) \in 0 .. VQ - 1
  BY CountValue
<1>3. j \in 1 .. VQ
  BY <1>1, <1>2
<1>4. Place(head, j) = IF head + j <= VQ THEN head + j - 1
                                         ELSE head + j - 1 - VQ
  BY <1>3, PlaceValue
<1> QED BY <1>1, <1>2, <1>3, <1>4 DEF Occupied, Slots

\* In a sound ring the queue is a sequence of frames, and the oldest of them
\* is in the head slot.
LEMMA QueueValue ==
    RingInv => /\ Queue \in Seq(Frames)
               /\ Len(Queue) = Count(head, tail)
               /\ \A j \in 1 .. Count(head, tail) :
                      Queue[j] = mem[buf[Place(head, j)]]
<1> SUFFICES ASSUME RingInv
             PROVE  /\ Queue \in Seq(Frames)
                    /\ Len(Queue) = Count(head, tail)
                    /\ \A j \in 1 .. Count(head, tail) :
                           Queue[j] = mem[buf[Place(head, j)]]
  OBVIOUS
<1>1. head \in Slots /\ tail \in Slots
  BY DEF RingInv, TypeOK
<1>2. Queue = [j \in 1 .. Count(head, tail) |-> mem[buf[Place(head, j)]]]
  BY DEF Queue, Count, Place
<1>3. Count(head, tail) \in Nat
  BY <1>1, CountValue, VQAssumption
<1>4. \A j \in 1 .. Count(head, tail) : mem[buf[Place(head, j)]] \in Frames
  BY <1>1, PlaceOccupied DEF RingInv, SlotsDescribeFrames
<1>5. Queue \in Seq(Frames)
  BY <1>2, <1>3, <1>4, IsASeq
<1>6. Len(Queue) = Count(head, tail)
  BY <1>2, <1>3
<1> QED BY <1>2, <1>5, <1>6

\* The same of the next state.
LEMMA NextQueueValue ==
    RingInv' => /\ Queue' \in Seq(Frames)
                /\ Len(Queue') = Count(head', tail')
                /\ \A j \in 1 .. Count(head', tail') :
                      Queue'[j] = mem'[buf'[Place(head', j)]]
<1>1. (RingInv => /\ Queue \in Seq(Frames)
                  /\ Len(Queue) = Count(head, tail)
                  /\ \A j \in 1 .. Count(head, tail) :
                         Queue[j] = mem[buf[Place(head, j)]])'
  BY QueueValue, PTL
<1> QED BY <1>1 DEF Count, Place

\* SenderTake takes the first frame of the queue.
LEMMA TakeQueue ==
    RingInv /\ SenderTake => /\ Queue # <<>>
                             /\ Head(Queue) = mem[buf[head]]
                             /\ Queue' = Tail(Queue)
<1> SUFFICES ASSUME RingInv, SenderTake
             PROVE  /\ Queue # <<>>
                    /\ Head(Queue) = mem[buf[head]]
                    /\ Queue' = Tail(Queue)
  OBVIOUS
<1>1. /\ head \in Slots /\ tail \in Slots /\ head # tail
      /\ head' = Succ(head) /\ tail' = tail /\ mem' = mem
      /\ buf' = [buf EXCEPT ![head] = scratch]
      /\ buf \in [Slots -> Buffers \union {NoBuf}]
  BY DEF RingInv, TypeOK, SenderTake, Empty, SlotAfterTake
<1>2. RingInv'
  BY TakeKeepsRing
<1>3. /\ Queue \in Seq(Frames) /\ Queue' \in Seq(Frames)
      /\ Len(Queue) = Count(head, tail) /\ Len(Queue') = Count(head', tail)
      /\ \A j \in 1 .. Len(Queue) : Queue[j] = mem[buf[Place(head, j)]]
      /\ \A j \in 1 .. Len(Queue') : Queue'[j] = mem[buf'[Place(head', j)]]
  BY <1>1, <1>2, QueueValue, NextQueueValue
<1>4. /\ Len(Queue) >= 1 /\ Len(Queue') = Len(Queue) - 1
      /\ Len(Queue) \in 0 .. VQ - 1 /\ Place(head, 1) = head
      /\ \A j \in 1 .. VQ - 1 : Place(head', j) = Place(head, j + 1)
  BY <1>1, <1>3, HeadMoves, CountValue
<1>5. Queue # <<>> /\ Head(Queue) = mem[buf[head]]
  BY <1>3, <1>4
<1>6. /\ Tail(Queue) \in Seq(Frames) /\ Len(Tail(Queue)) = Len(Queue) - 1
      /\ \A j \in 1 .. Len(Tail(Queue)) : Tail(Queue)[j] = Queue[j + 1]
  BY <1>3, <1>5, HeadTailProperties
<1>7. ASSUME NEW j \in 1 .. Len(Queue')
      PROVE  Queue'[j] = Tail(Queue)[j]
  <2>1. j \in 1 .. VQ - 1 /\ j + 1 \in 1 .. Len(Queue) /\ j + 1 > 1
    BY <1>4, VQAssumption
  <2>2. Place(head', j) = Place(head, j + 1)
    BY <1>4, <2>1
  <2>3. Place(head, j + 1) \in Slots /\ Place(head, j + 1) # head
    BY <1>1, <1>3, <2>1, PlaceOccupied
  <2>4. Queue'[j] = mem[buf[Place(head, j + 1)]]
    BY <1>1, <1>3, <2>2, <2>3
  <2>5. j \in 1 .. Len(Tail(Queue))
    BY <1>4, <1>6
  <2> QED BY <1>3, <1>6, <2>1, <2>4, <2>5
<1>8. Queue' = Tail(Queue)
  BY <1>3, <1>4, <1>6, <1>7, SeqEqual
<1> QED BY <1>5, <1>8

\* What the feeder's critical section keeps when it does not drop the newcomer
\* at once: a full ring loses its oldest frame, then the newcomer is stored
\* behind the others or, for lack of memory, not at all.
Kept == IF Full THEN Tail(Queue) ELSE Queue

\* What is kept lies behind the head that an overflow leaves, in occupied
\* slots other than the tail.
LEMMA KeptValue ==
    RingInv => /\ Kept \in Seq(Frames)
               /\ Len(Kept) = Count(HeadAfterOverflow, tail)
               /\ \A j \in 1 .. Len(Kept) :
                      /\ Kept[j] = mem[buf[Place(HeadAfterOverflow, j)]]
                      /\ Place(HeadAfterOverflow, j) \in Occupied \ {tail}
<1> SUFFICES ASSUME RingInv
             PROVE  /\ Kept \in Seq(Frames)
                    /\ Len(Kept) = Count(HeadAfterOverflow, tail)
                    /\ \A j \in 1 .. Len(Kept) :
                          /\ Kept[j] = mem[buf[Place(HeadAfterOverflow, j)]]
                          /\ Place(HeadAfterOverflow, j) \in Occupied \ {tail}
  OBVIOUS
<1>1. head \in Slots /\ tail \in Slots
  BY DEF RingInv, TypeOK
<1>2. /\ Queue \in Seq(Frames) /\ Len(Queue) = Count(head, tail)
      /\ \A j \in 1 .. Len(Queue) : Queue[j] = mem[buf[Place(head, j)]]
      /\ Count(head, tail) \in 0 .. VQ - 1
  BY <1>1, QueueValue, CountValue
<1>3. \A j \in 1 .. Len(Queue) : Place(head, j) \in Occupied \ {tail}
  BY <1>1, <1>2, PlaceOccupied
<1>4. CASE ~Full
  BY <1>2, <1>3, <1>4 DEF Kept, HeadAfterOverflow
<1>5. CASE Full
  <2>1. Len(Queue) = VQ - 1 /\ VQ - 1 >= 1 /\ head # tail
    BY <1>1, <1>2, <1>5, FullCount, SuccLemma, VQAssumption DEF Full, Slots
  <2>2. /\ Count(Succ(head), tail) = Len(Queue) - 1
        /\ \A j \in 1 .. VQ - 1 : Place(Succ(head), j) = Place(head, j + 1)
    BY <1>1, <1>2, <2>1, HeadMoves
  <2>3. /\ Tail(Queue) \in Seq(Frames) /\ Len(Tail(Queue)) = Len(Queue) - 1
        /\ \A j \in 1 .. Len(Tail(Queue)) : Tail(Queue)[j] = Queue[j + 1]
    BY <1>2, <2>1, HeadTailProperties
  <2>4. Kept = Tail(Queue) /\ HeadAfterOverflow = Succ(head)
    BY <1>5 DEF Kept, HeadAfterOverflow
  <2>5. ASSUME NEW j \in 1 .. Len(Kept)
        PROVE  /\ Kept[j] = mem[buf[Place(HeadAfterOverflow, j)]]
               /\ Place(HeadAfterOverflow, j) \in Occupied \ {tail}
    <3>1. j \in 1 .. VQ - 1 /\ j + 1 \in 1 .. Len(Queue)
      BY <2>1, <2>3, <2>4, VQAssumption
    <3> QED BY <1>2, <1>3, <2>2, <2>3, <2>4, <3>1
  <2> QED BY <2>2, <2>3, <2>4, <2>5
<1> QED BY <1>4, <1>5

\* A newcomer that is stored at the tail stands behind what is kept.
LEMMA StoreQueue ==
    ASSUME RingInv, RingInv', NEW b \in Buffers, TargetBlock(b),
           head' = HeadAfterOverflow,
           buf' = [buf EXCEPT ![tail] = b],
           mem' = [mem EXCEPT ![b] = incoming],
           tail' = Succ(tail)
    PROVE  Queue' = Append(Kept, incoming)
<1>1. /\ head \in Slots /\ tail \in Slots /\ head' \in Slots
      /\ buf \in [Slots -> Buffers \union {NoBuf}]
      /\ mem \in [Buffers -> AnyFrame]
  BY DEF RingInv, TypeOK
<1>2. /\ Kept \in Seq(Frames) /\ Len(Kept) = Count(head', tail)
      /\ \A j \in 1 .. Len(Kept) : /\ Kept[j] = mem[buf[Place(head', j)]]
                                   /\ Place(head', j) \in Occupied \ {tail}
  BY KeptValue
<1>3. /\ Queue' \in Seq(Frames)
      /\ Len(Queue') = Count(head', tail')
      /\ \A j \in 1 .. Len(Queue') : Queue'[j] = mem'[buf'[Place(head', j)]]
  BY NextQueueValue
<1>4. Succ(tail) # head'
  <2>1. Succ(head) # head
    BY <1>1, SuccLemma, VQAssumption DEF Slots
  <2> QED BY <2>1 DEF HeadAfterOverflow, Full
<1>5. /\ Len(Queue') = Len(Kept) + 1 /\ Len(Kept) \in Nat
      /\ Place(head', Len(Kept) + 1) = tail
  BY <1>1, <1>2, <1>3, <1>4, TailMoves, CountValue, VQAssumption
<1>6. buf'[tail] = b /\ mem'[b] = incoming
  BY <1>1
<1>7. incoming \in Frames
  <2>1. Queue'[Len(Kept) + 1] = incoming
    BY <1>3, <1>5, <1>6
  <2> QED BY <1>3, <1>5, <2>1, ElementOfSeq
<1>8. ASSUME NEW i \in Occupied \ {tail}
      PROVE  buf'[i] = buf[i] /\ mem'[buf[i]] = mem[buf[i]]
  <2>1. i \in Slots /\ i # tail
    BY <1>8 DEF Occupied
  <2>2. buf[i] \in Buffers
    BY <1>1, <1>8, <2>1 DEF RingInv, SlotsDescribeFrames
  <2>3. buf[i] # b
    BY <1>1, <2>1, <2>2 DEF TargetBlock, RingInv, BufferExclusive
  <2> QED BY <1>1, <2>1, <2>2, <2>3
<1>9. ASSUME NEW j \in 1 .. Len(Kept)
      PROVE  Queue'[j] = Kept[j]
  <2>1. j \in 1 .. Len(Queue') /\ Place(head', j) \in Occupied \ {tail}
    BY <1>2, <1>5
  <2> QED BY <1>2, <1>3, <1>8, <2>1
<1>10. /\ Append(Kept, incoming) \in Seq(Frames)
       /\ Len(Append(Kept, incoming)) = Len(Kept) + 1
       /\ \A j \in 1 .. Len(Kept) : Append(Kept, incoming)[j] = Kept[j]
       /\ Append(Kept, incoming)[Len(Kept) + 1] = incoming
  BY <1>2, <1>7, AppendProperties
<1>11. ASSUME NEW j \in 1 .. Len(Queue')
       PROVE  Queue'[j] = Append(Kept, incoming)[j]
  <2>1. CASE j = Len(Kept) + 1
    BY <1>3, <1>5, <1>6, <1>10, <2>1
  <2>2. CASE j # Len(Kept) + 1
    BY <1>5, <1>9, <1>10, <2>2
  <2> QED BY <2>1, <2>2
<1> QED BY <1>3, <1>5, <1>10, <1>11, SeqEqual

\* A newcomer that finds no memory leaves what is kept.
LEMMA DropQueue ==
    ASSUME RingInv, RingInv', head' = HeadAfterOverflow,
           UNCHANGED <<buf, mem, tail>>
    PROVE  Queue' = Kept
<1>1. /\ Kept \in Seq(Frames) /\ Len(Kept) = Count(head', tail)
      /\ \A j \in 1 .. Len(Kept) : Kept[j] = mem[buf[Place(head', j)]]
  BY KeptValue
<1>2. /\ Queue' \in Seq(Frames)
      /\ Len(Queue') = Count(head', tail')
      /\ \A j \in 1 .. Len(Queue') : Queue'[j] = mem'[buf'[Place(head', j)]]
  BY NextQueueValue
<1> QED BY <1>1, <1>2, SeqEqual

\* What the abstract FIFO sees of delivery and of the pause.
Delivered == IF sender = "send" THEN Append(sent, mem[scratch]) ELSE sent
Paused == ~active \/ sender = "flush"

\* The frame the feeder is about to store is the newest: those in the ring and
\* those delivered are older than it.
Offered(id) == id \in Nat /\ id <= fed /\ (feeder = "lock" => id < fed)
OfferInv ==
    /\ feeder = "lock" => incoming.id = fed
    /\ \A i \in Occupied : Offered(mem[buf[i]].id)
DeliveredInv ==
    /\ Delivered \in Seq(AnyFrame)
    /\ \A i \in 1 .. Len(Delivered) : Offered(Delivered[i].id)

\* OfferInv holds at the start.
LEMMA InitOfferInv == Init => OfferInv /\ DeliveredInv
BY VQAssumption
   DEF Init, OfferInv, DeliveredInv, Delivered, Offered, Occupied, Slots

\* Only the feeder numbers frames, and it holds one at a time.
LEMMA StepOfferInv == RingInv /\ OfferInv /\ [Next]_vars => OfferInv'
<1> SUFFICES ASSUME RingInv, OfferInv, [Next]_vars PROVE OfferInv'
  OBVIOUS
<1>0. /\ head \in Slots /\ tail \in Slots /\ fed \in Nat
      /\ buf \in [Slots -> Buffers \union {NoBuf}]
      /\ mem \in [Buffers -> AnyFrame]
      /\ feeder = "lock" => incoming \in Frames
      /\ \A i \in Occupied : mem[buf[i]].id \in Nat
  BY BoundsAssumption
     DEF RingInv, TypeOK, SlotsDescribeFrames, Frames
<1> USE DEF Offered
<1>1. ASSUME NEW key \in BOOLEAN, FeedCheck(key) PROVE OfferInv'
  <2>1. Occupied' = Occupied /\ mem' = mem /\ buf' = buf /\ fed' = fed + 1
    BY <1>1 DEF FeedCheck, ring, Occupied
  <2>2. feeder' = "lock" => incoming'.id = fed'
    BY <1>1 DEF FeedCheck, OfferInv
  <2> QED BY <1>0, <2>1, <2>2 DEF OfferInv
<1>2. CASE FeedLocked
  <2>1. feeder = "lock" /\ feeder' = "idle" /\ fed' = fed
    BY <1>2 DEF FeedLocked
  <2>2. CASE UNCHANGED ring
    BY <2>1, <2>2 DEF OfferInv, ring, Occupied
  <2>3. CASE head' = HeadAfterOverflow /\ UNCHANGED <<buf, keyframe, mem, tail>>
    <3>1. Occupied' \subseteq Occupied
      BY <2>3, OccupiedAfterDrop DEF RingInv
    <3> QED BY <2>1, <2>3, <3>1 DEF OfferInv
  <2>4. ASSUME NEW b \in Buffers, TargetBlock(b),
               head' = HeadAfterOverflow,
               buf' = [buf EXCEPT ![tail] = b],
               mem' = [mem EXCEPT ![b] = incoming],
               tail' = Succ(tail)
        PROVE  OfferInv'
    <3>1. Occupied' \subseteq Occupied \union {tail}
      BY <2>4, OccupiedAfterStore DEF RingInv
    <3>2. \A i \in Occupied : i \in Slots
      BY DEF Occupied
    <3>3. ASSUME NEW i \in Occupied'
          PROVE  mem'[buf'[i]].id \in Nat /\ mem'[buf'[i]].id <= fed
      <4>1. CASE i = tail
        BY <1>0, <2>1, <2>4, <4>1 DEF OfferInv, Frames
      <4>2. CASE i # tail
        <5>1. i \in Occupied /\ buf'[i] = buf[i] /\ buf[i] \in Buffers
          BY <1>0, <2>4, <3>1, <3>2, <4>2 DEF RingInv, SlotsDescribeFrames
        <5>2. buf[i] # b
          BY <1>0, <2>4, <3>2, <4>2, <5>1
             DEF TargetBlock, RingInv, BufferExclusive
        <5> QED BY <1>0, <2>4, <5>1, <5>2 DEF OfferInv
      <4> QED BY <4>1, <4>2
    <3> QED BY <2>1, <3>3 DEF OfferInv
  <2> QED BY <1>2, <2>2, <2>3, <2>4 DEF FeedLocked
<1>3. CASE SenderTake
  <2>1. /\ Occupied' \subseteq Occupied \ {head} /\ mem' = mem
        /\ buf' = [buf EXCEPT ![head] = scratch]
        /\ UNCHANGED <<fed, feeder, incoming>>
    BY <1>3, OccupiedAfterTake DEF SenderTake, SlotAfterTake, RingInv
  <2>2. \A i \in Occupied' : i \in Occupied /\ buf'[i] = buf[i]
    BY <1>0, <2>1 DEF Occupied
  <2> QED BY <2>1, <2>2 DEF OfferInv
<1>4. CASE SenderFlush
  <2>1. Occupied' = {}
    BY <1>0, <1>4, VQAssumption DEF SenderFlush, FlushedHead, Occupied, Slots
  <2> QED BY <1>4, <2>1 DEF SenderFlush, OfferInv
<1>5. CASE UNCHANGED <<ring, fed, feeder, incoming>>
  BY <1>5 DEF OfferInv, ring, Occupied
<1>6. \/ SenderTop \/ SenderPaused \/ SenderGo \/ SenderWait \/ WaitTimeout
      \/ SenderNothing \/ SenderSend \/ Stop \/ Joined \/ UNCHANGED vars
      \/ \E on \in BOOLEAN : SetActive(on)
      => UNCHANGED <<ring, fed, feeder, incoming>>
  BY DEF SenderTop, SenderPaused, SenderGo, SenderWait, WaitTimeout,
         SenderNothing, SenderSend, Stop, Joined, vars, SetActive, ring
<1> QED BY <1>1, <1>2, <1>3, <1>4, <1>5, <1>6
     DEF Next, Feeder, Sender, AppTick

\* Only taking a frame changes what is delivered: what the sender transmits is
\* not overwritten meanwhile, and counts once.
LEMMA DeliveredKept ==
    ASSUME RingInv, [Next]_vars, ~SenderTake
    PROVE  Delivered' = Delivered
<1>1. CASE FeedLocked
  <2>1. /\ scratch' = scratch /\ sent' = sent
        /\ sender' = "send" <=> sender = "send"
        /\ \/ mem' = mem
           \/ \E b \in Buffers :
                  TargetBlock(b) /\ mem' = [mem EXCEPT ![b] = incoming]
    BY <1>1 DEF FeedLocked, history, Signalled, ring
  <2>2. ASSUME sender = "send", NEW b \in Buffers, TargetBlock(b)
        PROVE  b # scratch /\ scratch \in Buffers
    BY <2>2 DEF RingInv, InFlightIntact, TypeOK, TargetBlock, BufferExclusive
  <2> QED BY <2>1, <2>2 DEF Delivered, RingInv, TypeOK
<1>2. CASE SenderSend
  BY <1>2 DEF SenderSend, ring, Delivered
<1>3. ASSUME UNCHANGED <<mem, scratch, sent>>, sender # "send", sender' # "send"
      PROVE  Delivered' = Delivered
  BY <1>3 DEF Delivered
<1>4. ASSUME UNCHANGED <<mem, scratch, sent>>,
             sender' \in {sender, Signalled}
      PROVE  Delivered' = Delivered
  BY <1>4 DEF Delivered, Signalled
<1>5. CASE SenderTop \/ SenderPaused \/ SenderFlush \/ SenderGo \/ SenderWait
           \/ WaitTimeout \/ SenderNothing
  BY <1>3, <1>5
     DEF SenderTop, SenderPaused, SenderFlush, SenderGo, SenderActive,
         SenderWait, WaitTimeout, SenderNothing, ring, history
<1>6. CASE \/ \E key \in BOOLEAN : FeedCheck(key)
           \/ \E on \in BOOLEAN : SetActive(on)
           \/ Stop \/ Joined \/ UNCHANGED vars
  BY <1>4, <1>6
     DEF FeedCheck, SetActive, Stop, Joined, vars, ring, history
<1> QED BY <1>1, <1>2, <1>5, <1>6 DEF Next, Feeder, Sender, AppTick

\* A frame that is taken is older than the next one, since it was in the ring.
LEMMA StepDeliveredInv ==
    RingInv /\ OfferInv /\ DeliveredInv /\ [Next]_vars => DeliveredInv'
<1> SUFFICES ASSUME RingInv, OfferInv, DeliveredInv, [Next]_vars
             PROVE  DeliveredInv'
  OBVIOUS
<1>0. fed \in Nat /\ head \in Slots /\ mem \in [Buffers -> AnyFrame]
  BY BoundsAssumption DEF RingInv, TypeOK
<1>1. \/ fed' = fed + 1
      \/ fed' = fed /\ (feeder' = "lock" => feeder = "lock")
  BY <1>0
     DEF Next, Feeder, Sender, AppTick, FeedCheck, FeedLocked, SenderTop,
         SenderPaused, SenderFlush, SenderGo, SenderActive, SenderWait,
         WaitTimeout, SenderNothing, SenderTake, SenderSend, SetActive, Stop,
         Joined, vars
<1>2. ASSUME NEW id, Offered(id) PROVE Offered(id)'
  BY <1>0, <1>1, <1>2 DEF Offered
<1>3. CASE ~SenderTake
  <2>1. Delivered' = Delivered
    BY <1>3, DeliveredKept
  <2> QED BY <1>2, <2>1 DEF DeliveredInv
<1>4. CASE SenderTake
  <2> DEFINE f == mem[buf[head]]
  <2>1. head \in Occupied /\ f \in AnyFrame /\ Offered(f.id)
    <3>1. head \in Occupied
      BY <1>4, HeadOccupied DEF SenderTake, RingInv
    <3> QED BY <3>1 DEF RingInv, SlotsDescribeFrames, OfferInv, AnyFrame
  <2>2. Delivered = sent /\ Delivered' = Append(sent, f)
    BY <1>4 DEF SenderTake, Delivered
  <2> HIDE DEF f
  <2>3. /\ Delivered' \in Seq(AnyFrame) /\ Len(Delivered') = Len(Delivered) + 1
        /\ \A i \in 1 .. Len(Delivered) : Delivered'[i] = Delivered[i]
        /\ Delivered'[Len(Delivered) + 1] = f /\ Len(Delivered) \in Nat
    BY <2>1, <2>2, AppendProperties, LenProperties DEF DeliveredInv
  <2>4. ASSUME NEW i \in 1 .. Len(Delivered')
        PROVE  Offered(Delivered'[i].id)
    <3>1. i = Len(Delivered) + 1 \/ i \in 1 .. Len(Delivered)
      BY <2>3
    <3> QED BY <2>1, <2>3, <3>1 DEF DeliveredInv
  <2> QED BY <1>2, <2>3, <2>4 DEF DeliveredInv
<1> QED BY <1>3, <1>4

\* Storing, dropping and refusing are steps of the FIFO.
LEMMA FeedIsFifo ==
    RingInv /\ OfferInv /\ DeliveredInv /\ FeedLocked
        => [Fifo!Next]_Fifo!fifoVars
<1> SUFFICES ASSUME RingInv, OfferInv, DeliveredInv, FeedLocked
             PROVE  [Fifo!Next]_Fifo!fifoVars
  OBVIOUS
<1>0. RingInv'
  BY FeedKeepsRing
<1>1. /\ feeder = "lock" /\ fed' = fed /\ active' = active
      /\ incoming \in Frames /\ incoming.id = fed
      /\ head \in Slots /\ tail \in Slots
      /\ scratch' = scratch /\ sent' = sent
      /\ sender' = "send" <=> sender = "send"
      /\ sender' = "flush" <=> sender = "flush"
  BY DEF FeedLocked, RingInv, TypeOK, flags, history, Signalled, OfferInv
<1>2. Paused' = Paused
  BY <1>1 DEF Paused
<1>8. Delivered' = Delivered
  <2>1. ~SenderTake
    BY DEF FeedLocked, SenderTake, Signalled
  <2> QED BY <2>1, DeliveredKept DEF Next, Feeder
<1>3. /\ Queue \in Seq(Frames) /\ Len(Queue) = Count(head, tail)
      /\ \A j \in 1 .. Len(Queue) : Queue[j] = mem[buf[Place(head, j)]]
      /\ Len(Queue) \in 0 .. VQ - 1
  BY <1>1, QueueValue, CountValue
<1>4. Full <=> Len(Queue) = VQ - 1
  BY <1>1, <1>3, FullCount DEF Full
<1>5. CASE UNCHANGED ring
  <2>1. Queue' = Queue /\ Delivered' = Delivered
    BY <1>1, <1>5 DEF ring, Queue, Delivered
  <2> QED BY <1>1, <1>2, <2>1 DEF Fifo!fifoVars, Paused, Delivered
<1>6. CASE head' = HeadAfterOverflow /\ UNCHANGED <<buf, keyframe, mem, tail>>
  <2>1. Queue' = Kept /\ Delivered' = Delivered
    BY <1>0, <1>1, <1>6, DropQueue DEF Delivered
  <2>2. CASE Full
    BY <1>1, <1>2, <1>4, <2>1, <2>2
       DEF Kept, Fifo!Next, Fifo!DropOldest, Paused, Delivered
  <2>3. CASE ~Full
    BY <1>1, <1>2, <2>1, <2>3 DEF Kept, Fifo!fifoVars, Paused, Delivered
  <2> QED BY <2>2, <2>3
<1>7. ASSUME NEW b \in Buffers, TargetBlock(b), ~MustProtect,
             head' = HeadAfterOverflow,
             buf' = [buf EXCEPT ![tail] = b],
             mem' = [mem EXCEPT ![b] = incoming],
             tail' = Succ(tail)
      PROVE  Fifo!Next
  <2>1. Queue' = Append(Kept, incoming)
    BY <1>0, <1>7, StoreQueue
  <2>2. Delivered' = Delivered
    BY <1>8
  <2>3. Fifo!Older(Queue, incoming) /\ Fifo!Older(Delivered, incoming)
    BY <1>1, <1>3, PlaceOccupied
       DEF OfferInv, DeliveredInv, Offered, Fifo!Older
  <2>4. Len(Queue) = VQ - 1 => (Head(Queue).key => incoming.key)
    <3> SUFFICES ASSUME Full PROVE Head(Queue).key => incoming.key
      BY <1>4
    <3>1. head # tail
      BY <1>1, SuccLemma, VQAssumption DEF Full, Slots
    <3>2. Place(head, 1) = head /\ head \in Occupied /\ Len(Queue) >= 1
      BY <1>1, <1>3, <3>1, HeadMoves, HeadOccupied DEF Empty, RingInv
    <3>3. Head(Queue) = mem[buf[head]]
      BY <1>3, <3>2
    <3> QED BY <1>7, <3>2, <3>3 DEF MustProtect, RingInv, SlotsDescribeFrames
  <2>5. incoming = [id |-> fed, key |-> incoming.key] /\ incoming.key \in BOOLEAN
    BY <1>1 DEF Frames
  <2>6. IF Len(Queue) < VQ - 1
          THEN Queue' = Append(Queue, incoming)
          ELSE /\ Head(Queue).key => incoming.key
               /\ Queue' = Append(Tail(Queue), incoming)
    BY <1>3, <1>4, <2>1, <2>4, VQAssumption DEF Kept
  <2>7. Fifo!Accept(incoming)
    BY <1>1, <1>2, <2>2, <2>3, <2>6 DEF Fifo!Accept, Paused, Delivered
  <2> QED BY <2>5, <2>7 DEF Fifo!Next
<1> QED BY <1>5, <1>6, <1>7 DEF FeedLocked

\* A step that leaves the ring alone and neither begins nor ends a delivery
\* may only change what is paused.
LEMMA RestIsFifo ==
    ASSUME UNCHANGED <<ring, fed, scratch, sent>>,
           sender' = "send" <=> sender = "send",
           Paused \in BOOLEAN, Paused' \in BOOLEAN
    PROVE  [Fifo!Next]_Fifo!fifoVars
<1>1. Queue' = Queue /\ Delivered' = Delivered
  BY DEF ring, Queue, Delivered
<1>2. CASE Paused' = Paused
  BY <1>1, <1>2 DEF Fifo!fifoVars, Paused, Delivered
<1>3. CASE Paused' = ~Paused
  BY <1>1, <1>3 DEF Fifo!Next, Fifo!PauseOrResume, Paused, Delivered
<1> QED BY <1>2, <1>3

\* Every step of the feeder, the sender, the app's tick and the end of a share
\* is a step of the FIFO, or none.
LEMMA StepIsFifo ==
    RingInv /\ OfferInv /\ DeliveredInv /\ [Next]_vars
        => [Fifo!Next]_Fifo!fifoVars
<1> SUFFICES ASSUME RingInv, OfferInv, DeliveredInv, [Next]_vars
             PROVE  [Fifo!Next]_Fifo!fifoVars
  OBVIOUS
<1>0. Paused \in BOOLEAN /\ Paused' \in BOOLEAN
  BY DEF Paused
<1>1. ASSUME NEW key \in BOOLEAN, FeedCheck(key)
      PROVE  Fifo!Next
  <2>1. /\ Queue' = Queue /\ Delivered' = Delivered /\ Paused' = Paused
        /\ fed' = fed + 1 /\ fed \in Nat
    BY <1>1, BoundsAssumption
       DEF FeedCheck, ring, flags, history, Queue, Delivered, Paused, RingInv,
           TypeOK
  <2>2. Fifo!Offer([id |-> fed + 1, key |-> key])
    BY <2>1 DEF Fifo!Offer, Paused, Delivered
  <2> QED BY <2>2 DEF Fifo!Next
<1>2. CASE FeedLocked
  BY <1>2, FeedIsFifo
<1>3. CASE SenderFlush
  <2>1. Queue' = <<>>
    <3>1. tail \in Slots /\ head' = tail /\ tail' = tail
      BY <1>3 DEF SenderFlush, FlushedHead, RingInv, TypeOK
    <3>2. Count(tail, tail) = 0
      BY <3>1, CountValue, VQAssumption DEF Slots
    <3>3. Queue' = [j \in 1 .. 0 |-> mem'[buf'[(head' + j - 1) % VQ]]]
      BY <3>1, <3>2 DEF Queue, Count
    <3> QED BY <3>3
  <2>2. Paused /\ Delivered' = Delivered /\ fed' = fed
    BY <1>3 DEF SenderFlush, Paused, Delivered, history
  <2> QED BY <1>0, <2>1, <2>2 DEF Fifo!Next, Fifo!Flush, Paused, Delivered
<1>4. CASE SenderTake
  <2>1. Queue # <<>> /\ Head(Queue) = mem[buf[head]] /\ Queue' = Tail(Queue)
    BY <1>4, TakeQueue
  <2>2. Delivered = sent /\ Delivered' = Append(sent, mem[buf[head]])
    BY <1>4 DEF SenderTake, Delivered
  <2>3. fed' = fed /\ Paused' = Paused
    BY <1>4 DEF SenderTake, Paused, flags
  <2> QED BY <2>1, <2>2, <2>3 DEF Fifo!Next, Fifo!Deliver, Paused, Delivered
<1>5. CASE SenderSend
  <2>1. Queue' = Queue /\ Delivered' = Delivered /\ Paused' = Paused
        /\ fed' = fed
    BY <1>5 DEF SenderSend, ring, flags, Queue, Delivered, Paused
  <2> QED BY <2>1 DEF Fifo!fifoVars, Paused, Delivered
<1>6. CASE SenderTop \/ SenderPaused \/ SenderGo \/ SenderWait \/ WaitTimeout
           \/ SenderNothing
  BY <1>0, <1>6, RestIsFifo
     DEF SenderTop, SenderPaused, SenderGo, SenderActive, SenderWait,
         WaitTimeout, SenderNothing, history
<1>7. CASE Stop \/ \E on \in BOOLEAN : SetActive(on)
  BY <1>0, <1>7, RestIsFifo DEF Stop, SetActive, Signalled, history
<1>8. CASE Joined \/ UNCHANGED vars
  BY <1>0, <1>8, RestIsFifo DEF Joined, vars, history
<1> QED BY <1>1, <1>2, <1>3, <1>4, <1>5, <1>6, <1>7, <1>8
     DEF Next, Feeder, Sender, AppTick

\* What bsdr_cloud_stream_feed_video and cloud_video_main do with the ring is
\* what FrameFifo promises, step by step, for every ring size: frames are
\* delivered once and in order, and lost only to make room for a newer one,
\* for lack of memory, or because the share was paused.
THEOREM ImplementsFifo == Spec => RelayIsFifo
<1>1. Init => Fifo!Init
  <2> SUFFICES ASSUME Init PROVE Fifo!Init
    OBVIOUS
  <2>1. head = 0 /\ tail = 0 /\ 0 \in Slots
    BY VQAssumption DEF Init, Slots
  <2>2. Count(0, 0) = 0
    BY <2>1, CountValue
  <2>3. Queue = [j \in 1 .. 0 |-> mem[buf[(head + j - 1) % VQ]]]
    BY <2>1, <2>2 DEF Queue, Count
  <2> QED BY <2>3 DEF Init, Fifo!Init
<1>2. Init => RingInv /\ OfferInv /\ DeliveredInv
  BY InitRing, InitOfferInv
<1>3. RingInv /\ OfferInv /\ DeliveredInv /\ [Next]_vars
          => /\ RingInv' /\ OfferInv' /\ DeliveredInv'
             /\ [Fifo!Next]_Fifo!fifoVars
  BY StepRing, StepOfferInv, StepDeliveredInv, StepIsFifo
<1> QED BY <1>1, <1>2, <1>3, PTL DEF Spec, RelayIsFifo, Fifo!Spec

-----------------------------------------------------------------------------
(***************************************************************************)
(* What the FIFO means for the viewer.  Delivered frames and those that    *)
(* wait form one line of rising ids, up to the newest that was offered.    *)
(***************************************************************************)
AbstractFrames == [id : Nat, key : BOOLEAN]
Rising(s) == \A i, j \in 1 .. Len(s) : i < j => s[i].id < s[j].id
Line(d, q, n) ==
    /\ n \in Nat /\ d \in Seq(AbstractFrames) /\ q \in Seq(AbstractFrames)
    /\ Rising(d) /\ Rising(q)
    /\ \A i \in 1 .. Len(d), j \in 1 .. Len(q) : d[i].id < q[j].id
    /\ \A i \in 1 .. Len(d) : d[i].id <= n
    /\ \A i \in 1 .. Len(q) : q[i].id <= n

\* Whatever drops frames from the front of what waits keeps the line.
LEMMA LineTail ==
    ASSUME NEW d, NEW q, NEW n, Line(d, q, n), q # <<>>
    PROVE  Line(d, Tail(q), n)
<1> DEFINE t == Tail(q)
<1>1. /\ t \in Seq(AbstractFrames) /\ Len(t) = Len(q) - 1 /\ Len(q) \in Nat
      /\ \A i \in 1 .. Len(t) : t[i] = q[i + 1]
  BY HeadTailProperties, LenProperties DEF Line
<1> HIDE DEF t
<1>2. \A i \in 1 .. Len(t) : i + 1 \in 1 .. Len(q)
  BY <1>1
<1>3. Rising(t)
  <2> SUFFICES ASSUME NEW i \in 1 .. Len(t), NEW j \in 1 .. Len(t), i < j
               PROVE  t[i].id < t[j].id
    BY DEF Rising
  <2>1. q[i + 1].id < q[j + 1].id
    BY <1>2 DEF Line, Rising
  <2> QED BY <1>1, <2>1
<1> QED BY <1>1, <1>2, <1>3 DEF Line, t

\* A frame newer than all of them goes behind.
LEMMA LineAppend ==
    ASSUME NEW d, NEW q, NEW n, Line(d, q, n), NEW f \in AbstractFrames,
           f.id = n,
           \A i \in 1 .. Len(q) : q[i].id < n,
           \A i \in 1 .. Len(d) : d[i].id < n
    PROVE  Line(d, Append(q, f), n)
<1> DEFINE a == Append(q, f)
<1>1. /\ a \in Seq(AbstractFrames) /\ Len(a) = Len(q) + 1 /\ Len(q) \in Nat
      /\ \A i \in 1 .. Len(q) : a[i] = q[i]
      /\ a[Len(q) + 1] = f
  BY AppendProperties, LenProperties DEF Line
<1> HIDE DEF a
<1>2. \A i \in 1 .. Len(a) : i = Len(q) + 1 \/ i \in 1 .. Len(q)
  BY <1>1
<1>3. Rising(a)
  BY <1>1, <1>2 DEF Line, Rising
<1>4. \A i \in 1 .. Len(a) : a[i].id <= n
  BY <1>1, <1>2 DEF Line
<1>5. \A i \in 1 .. Len(d), j \in 1 .. Len(a) : d[i].id < a[j].id
  BY <1>1, <1>2 DEF Line
<1> QED BY <1>1, <1>3, <1>4, <1>5 DEF Line, a

\* The frame that is taken goes from the front of the one to the end of the
\* other.
LEMMA LineDeliver ==
    ASSUME NEW d, NEW q, NEW n, Line(d, q, n), q # <<>>
    PROVE  Line(Append(d, Head(q)), Tail(q), n)
<1> DEFINE t == Tail(q)
           a == Append(d, Head(q))
<1>1. /\ t \in Seq(AbstractFrames) /\ Len(t) = Len(q) - 1 /\ Len(q) \in Nat
      /\ \A i \in 1 .. Len(t) : t[i] = q[i + 1]
      /\ Head(q) \in AbstractFrames /\ Head(q) = q[1] /\ Len(q) >= 1
  BY HeadTailProperties, LenProperties, EmptySeq DEF Line
<1>2. /\ a \in Seq(AbstractFrames) /\ Len(a) = Len(d) + 1 /\ Len(d) \in Nat
      /\ \A i \in 1 .. Len(d) : a[i] = d[i]
      /\ a[Len(d) + 1] = q[1]
  BY <1>1, AppendProperties, LenProperties DEF Line
<1>3. Line(d, t, n)
  BY LineTail
<1> HIDE DEF t, a
<1>4. \A i \in 1 .. Len(a) : i = Len(d) + 1 \/ i \in 1 .. Len(d)
  BY <1>2
<1>5. 1 \in 1 .. Len(q) /\ \A i \in 1 .. Len(t) : i + 1 \in 1 .. Len(q)
  BY <1>1
<1>6. Rising(a)
  BY <1>2, <1>4, <1>5 DEF Line, Rising
<1>7. \A i \in 1 .. Len(a) : a[i].id <= n
  BY <1>2, <1>4, <1>5 DEF Line
<1>8. \A j \in 1 .. Len(t) : q[1].id < t[j].id
  BY <1>1, <1>5 DEF Line, Rising
<1>9. \A i \in 1 .. Len(a), j \in 1 .. Len(t) : a[i].id < t[j].id
  BY <1>2, <1>3, <1>4, <1>8 DEF Line
<1> QED BY <1>2, <1>3, <1>6, <1>7, <1>9 DEF Line, t, a

\* Every step of the FIFO keeps the line.
LEMMA StepLine ==
    Line(Delivered, Queue, fed) /\ [Fifo!Next]_Fifo!fifoVars
        => Line(Delivered, Queue, fed)'
<1> DEFINE d == Delivered
           q == Queue
<1> SUFFICES ASSUME Line(d, q, fed), [Fifo!Next]_Fifo!fifoVars
             PROVE  Line(d', q', fed')
  BY DEF Line, Rising
<1>0. VQ \in Nat /\ VQ - 1 >= 1 /\ Len(q) \in Nat
  BY VQAssumption, LenProperties DEF Line
<1>1. ASSUME NEW key \in BOOLEAN, Fifo!Offer([id |-> fed + 1, key |-> key])
      PROVE  Line(d', q', fed')
  <2>1. fed' = fed + 1 /\ q' = q /\ d' = d
    BY <1>1 DEF Fifo!Offer, Delivered
  <2> HIDE DEF d, q
  <2>2. fed \in Nat /\ \A n \in Nat : n <= fed => n <= fed + 1
    BY DEF Line
  <2>3. /\ \A i \in 1 .. Len(d) : d[i].id \in Nat
        /\ \A i \in 1 .. Len(q) : q[i].id \in Nat
    <3>1. /\ \A i \in 1 .. Len(d) : d[i] \in AbstractFrames
          /\ \A i \in 1 .. Len(q) : q[i] \in AbstractFrames
      BY ElementOfSeq DEF Line
    <3> QED BY <3>1 DEF AbstractFrames
  <2>4. /\ \A i \in 1 .. Len(d) : d[i].id <= fed + 1
        /\ \A i \in 1 .. Len(q) : q[i].id <= fed + 1
    BY <2>2, <2>3 DEF Line
  <2>5. fed + 1 \in Nat
    BY <2>2
  <2>6. Line(d, q, fed + 1)
    BY <2>4, <2>5 DEF Line
  <2> QED BY <2>1, <2>6
<1>2. ASSUME NEW key \in BOOLEAN, Fifo!Accept([id |-> fed, key |-> key])
      PROVE  Line(d', q', fed')
  <2> DEFINE f == [id |-> fed, key |-> key]
  <2>1. /\ fed' = fed /\ d' = d /\ f \in AbstractFrames /\ f.id = fed
        /\ \A i \in 1 .. Len(q) : q[i].id < fed
        /\ \A i \in 1 .. Len(d) : d[i].id < fed
        /\ IF Len(q) < VQ - 1 THEN q' = Append(q, f) ELSE q' = Append(Tail(q), f)
    BY <1>2 DEF Fifo!Accept, Fifo!Older, Delivered, Line, AbstractFrames
  <2> HIDE DEF d, q, f
  <2>2. CASE Len(q) < VQ - 1
    BY <2>1, <2>2, LineAppend
  <2>3. CASE ~(Len(q) < VQ - 1)
    <3>1. q # <<>> /\ q \in Seq(AbstractFrames)
      BY <1>0, <2>3, EmptySeq DEF Line
    <3>2. Line(d, Tail(q), fed)
      BY <3>1, LineTail
    <3>3. \A i \in 1 .. Len(Tail(q)) : Tail(q)[i].id < fed
      <4>1. /\ Len(Tail(q)) = Len(q) - 1
            /\ \A i \in 1 .. Len(Tail(q)) : Tail(q)[i] = q[i + 1]
        BY <3>1, HeadTailProperties
      <4> QED BY <1>0, <2>1, <4>1
    <3> QED BY <2>1, <2>3, <3>2, <3>3, LineAppend
  <2> QED BY <2>2, <2>3
<1>3. CASE Fifo!DropOldest
  <2>1. q # <<>> /\ q' = Tail(q) /\ fed' = fed /\ d' = d
    <3>1. Len(q) = VQ - 1 /\ q' = Tail(q) /\ fed' = fed /\ d' = d
      BY <1>3 DEF Fifo!DropOldest, Delivered
    <3> QED BY <1>0, <3>1, EmptySeq
  <2> HIDE DEF d, q
  <2> QED BY <2>1, LineTail
<1>4. CASE Fifo!Flush
  <2>1. q' = <<>> /\ fed' = fed /\ d' = d
    BY <1>4 DEF Fifo!Flush, Delivered
  <2> HIDE DEF d, q
  <2> QED BY <2>1, EmptySeq DEF Line, Rising
<1>5. CASE Fifo!Deliver
  <2>1. q # <<>> /\ q' = Tail(q) /\ fed' = fed /\ d' = Append(d, Head(q))
    BY <1>5 DEF Fifo!Deliver, Delivered
  <2> HIDE DEF d, q
  <2> QED BY <2>1, LineDeliver
<1>6. CASE Fifo!PauseOrResume \/ UNCHANGED Fifo!fifoVars
  <2>1. q' = q /\ fed' = fed /\ d' = d
    BY <1>6 DEF Fifo!PauseOrResume, Fifo!fifoVars, Delivered
  <2> HIDE DEF d, q
  <2> QED BY <2>1
<1> QED BY <1>1, <1>2, <1>3, <1>4, <1>5, <1>6 DEF Fifo!Next

\* So no viewer of the share sees a frame twice, or an older one after a newer
\* one, however overflow, pause and a slow sender mix: the promise of the FIFO,
\* which the relay keeps.
THEOREM DeliversInOrder == Spec => []Fifo!InOrder
<1>1. Fifo!Init => Line(Delivered, Queue, fed)
  <2> SUFFICES ASSUME Fifo!Init PROVE Line(Delivered, Queue, fed)
    OBVIOUS
  <2>1. Queue = <<>> /\ Delivered = <<>> /\ fed = 0
    BY DEF Fifo!Init, Delivered
  <2> QED BY <2>1, EmptySeq DEF Line, Rising
<1>2. Line(Delivered, Queue, fed) => Fifo!InOrder
  BY DEF Line, Rising, Fifo!InOrder, Delivered
<1>3. Fifo!Spec => []Fifo!InOrder
  BY <1>1, <1>2, StepLine, PTL DEF Fifo!Spec
<1> QED BY <1>3, ImplementsFifo, PTL DEF RelayIsFifo

\* The sender sleeps only while there is nothing to send: a frame that is fed
\* while it goes to sleep wakes it, and does not wait for the 100 ms to pass.
SleepInv == sender = "wait" => Empty

THEOREM SleepsWhenEmpty == Spec => []SleepInv
<1>1. Init => SleepInv
  BY DEF Init, SleepInv
<1>2. SleepInv /\ [Next]_vars => SleepInv'
  BY DEF SleepInv, Empty, Next, Feeder, Sender, AppTick, FeedCheck, FeedLocked,
         Signalled, SenderTop, SenderPaused, SenderFlush, SenderGo,
         SenderActive, SenderWait, WaitTimeout, SenderNothing, SenderTake,
         SenderSend, SetActive, Stop, Joined, vars, ring
<1> QED BY <1>1, <1>2, PTL DEF Spec
==============================================================================
