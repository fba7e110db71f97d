------------------------- MODULE LiveSource_proofs -------------------------
(***************************************************************************)
(* Proofs about LiveSource: for any cameras, clips and playlists, any      *)
(* number of terminals and any number of choices.                          *)
(***************************************************************************)
EXTENDS LiveSource, TLAPS

\* Before the worker has a terminal, and when it has ended.
EarlyStages == {"clip", "terminal?", "start", "open terminal", "camera?",
                "try live", "open live", "done"}

\* Which terminals exist, and which of them the settings and the capture may
\* name at each stage.
HeldUp ==
    /\ up = {term, nterm} \ {NoBackend}
    /\ nterm # NoBackend =>
           term # nterm /\ pc \in {"open terminal", "new open", "adopt"}
HeldEarly == pc \in EarlyStages => term = NoBackend /\ cap.term = NoBackend
HeldConfig ==
    /\ pc = "open terminal" => cfg.term = nterm
    /\ pc \notin {"open terminal", "done"} => cfg.term \in {term, NoBackend}
    /\ pc \in {"new camera?", "new start", "new open", "adopt"} => ncfg.term = nterm
    /\ pc = "open region" => ncfg.term = cfg.term
HeldCapture ==
    /\ pc = "adopt" => cap.term \in {nterm, NoBackend}
    /\ pc # "adopt" => cap.term \in {term, NoBackend}

Held == HeldUp /\ HeldEarly /\ HeldConfig /\ HeldCapture

SourceInv == TypeOK /\ Held

Captures == [source : Sources, term : Backends \union {NoBackend}]
Renders(c) == CaptureOf(c).term \in {c.term, NoBackend}

\* bsdr_capture_open makes a capture of any settings, and it renders from no
\* terminal but theirs.
LEMMA CaptureOfConfig ==
    ASSUME NEW c \in Configs
    PROVE  CaptureOf(c) \in Captures /\ Renders(c)
<1>1. Target(c) \in Sources
  BY DEF Target, Configs, Sources
<1> QED
  BY <1>1 DEF CaptureOf, Captures, Renders, Configs

LEMMA ConfigsOpen ==
    /\ Plain \in Configs
    /\ \A c \in Configs :
           /\ WithCamera(c) \in Configs /\ WithCamera(c).term = c.term
           /\ \A f \in Clips : [c EXCEPT !.file = f] \in Configs
           /\ \A b \in Backends \union {NoBackend} : [c EXCEPT !.term = b] \in Configs
<1>1. Plain \in Configs
  BY DEF Plain, Configs
<1>2. ASSUME NEW c \in Configs
      PROVE  WithCamera(c) \in Configs /\ WithCamera(c).term = c.term
  BY DEF WithCamera, Configs
<1>3. ASSUME NEW c \in Configs, NEW f \in Clips
      PROVE  [c EXCEPT !.file = f] \in Configs
  BY DEF Configs
<1>4. ASSUME NEW c \in Configs, NEW b \in Backends \union {NoBackend}
      PROVE  [c EXCEPT !.term = b] \in Configs
  BY DEF Configs
<1> QED BY <1>1, <1>2, <1>3, <1>4

LEMMA InitSourceInv == Init => SourceInv
<1> SUFFICES ASSUME Init PROVE SourceInv
  OBVIOUS
<1>1. TypeOK
  <2>1. cfg \in Configs /\ ncfg \in Configs
    BY ConfigsOpen DEF Init
  <2>2. cap \in [source : Sources \union {Nothing}, term : Backends \union {NoBackend}]
    BY DEF Init, Closed
  <2>3. requests \in 0..MaxRequests
    BY RequestsAssumption DEF Init
  <2>4. pc \in Stages /\ (pc \in Streaming \union {"enter"} => cap.source # Nothing)
    BY DEF Init, Stages, Streaming
  <2> QED BY <2>1, <2>2, <2>3, <2>4 DEF Init, TypeOK
<1>2. Held
  BY DEF Init, Held, HeldUp, HeldEarly, HeldConfig, HeldCapture, Plain, Closed
<1> QED BY <1>1, <1>2 DEF SourceInv

-----------------------------------------------------------------------------
(***************************************************************************)
(* Each step keeps the invariant.                                          *)
(***************************************************************************)
\* Many steps only move the worker on: from a stage and to a stage at which
\* no new terminal is held, and not to one that needs what the first lacks.
Moves ==
    /\ UNCHANGED <<source, requests, stop, cfg, ncfg, cap, playing, video_file,
                   term, nterm, up, dead, refused, missed>>
    /\ source_new' \in BOOLEAN
    /\ pc \notin {"open terminal", "new open", "adopt", "done"}
    /\ pc' \in {"start", "camera?", "try live", "open live", "done", "top", "choice",
                "shell", "region", "frame", "leave"}
    /\ pc' \in EarlyStages => pc \in EarlyStages
    /\ pc' \in Streaming => pc \in Streaming \union {"enter"}

LEMMA MovesKeep ==
    ASSUME SourceInv, Moves
    PROVE  SourceInv'
<1> USE DEF SourceInv
<1>1. TypeOK'
  <2>1. pc' \in Stages
    BY DEF Moves, Stages, Opening, Streaming
  <2>2. pc' \in Streaming \union {"enter"} => cap'.source # Nothing
    BY DEF TypeOK, Moves
  <2> HIDE DEF SourceInv
  <2>3. /\ UNCHANGED <<source, requests, stop, cfg, ncfg, cap, playing, video_file,
                       term, nterm, up, dead, refused, missed>>
        /\ source_new' \in BOOLEAN
    BY DEF Moves
  <2> QED BY <2>1, <2>2, <2>3 DEF SourceInv, TypeOK
<1>2. HeldUp' /\ HeldEarly' /\ HeldCapture'
  BY DEF Held, HeldUp, HeldEarly, HeldCapture, Moves
<1>3. HeldConfig'
  BY DEF Held, HeldConfig, Moves
<1> QED BY <1>1, <1>2, <1>3 DEF Held

OnlyMoves ==
    \/ AsksTerminal \/ TriesLive \/ LiveFails \/ EnterLoop \/ Iterates
    \/ SettingsKept \/ ReopenFails \/ RegionKept \/ RegionFails
    \/ Frame \/ NextEntry \/ CaptureDies

LEMMA OnlyMovesKeeps ==
    ASSUME SourceInv, OnlyMoves
    PROVE  SourceInv'
<1> USE DEF SourceInv, choice, picture, shells, terminals, history
<1>1. ASSUME AsksTerminal PROVE Moves
  BY <1>1 DEF AsksTerminal, TypeOK, Moves, EarlyStages, Streaming
<1>2. ASSUME TriesLive PROVE Moves
  BY <1>2 DEF TriesLive, GivesUp, TypeOK, Moves, EarlyStages, Streaming
<1>3. ASSUME LiveFails PROVE Moves
  BY <1>3 DEF LiveFails, TypeOK, Moves, EarlyStages, Streaming
<1>4. ASSUME EnterLoop PROVE Moves
  BY <1>4 DEF EnterLoop, TypeOK, Moves, EarlyStages, Streaming
<1>5. ASSUME Iterates PROVE Moves
  BY <1>5 DEF Iterates, TypeOK, Moves, EarlyStages, Streaming
<1>6. ASSUME SettingsKept PROVE Moves
  BY <1>6 DEF SettingsKept, TypeOK, Moves, EarlyStages, Streaming
<1>7. ASSUME ReopenFails PROVE Moves
  BY <1>7 DEF ReopenFails, AfterFailedReopen, TypeOK, Moves, EarlyStages, Streaming
<1>8. ASSUME RegionKept PROVE Moves
  BY <1>8 DEF RegionKept, TypeOK, Moves, EarlyStages, Streaming
<1>9. ASSUME RegionFails PROVE Moves
  BY <1>9 DEF RegionFails, TypeOK, Moves, EarlyStages, Streaming
<1>10. ASSUME Frame PROVE Moves
  BY <1>10 DEF Frame, TypeOK, Moves, EarlyStages, Streaming
<1>11. ASSUME NextEntry PROVE Moves
  BY <1>11 DEF NextEntry, TypeOK, Moves, EarlyStages, Streaming
<1>12. ASSUME CaptureDies PROVE Moves
  BY <1>12 DEF CaptureDies, TypeOK, Moves, EarlyStages, Streaming
<1> QED BY <1>1, <1>2, <1>3, <1>4, <1>5, <1>6, <1>7, <1>8, <1>9, <1>10, <1>11, <1>12, MovesKeep DEF OnlyMoves

LEMMA RequestKeeps ==
    ASSUME SourceInv, NEW s \in Sources, Request(s)
    PROVE  SourceInv'
<1> USE DEF SourceInv
<1>1. TypeOK'
  BY RequestsAssumption
     DEF TypeOK, Request, choice, picture, shells, terminals, history
<1>2. Held'
  BY DEF Held, HeldUp, HeldEarly, HeldConfig, HeldCapture, Request, choice,
         picture, shells, terminals, history
<1> QED BY <1>1, <1>2 DEF Held

LEMMA StopKeeps ==
    ASSUME SourceInv, Stop
    PROVE  SourceInv'
<1> USE DEF SourceInv
<1>1. TypeOK'
  BY DEF TypeOK, Stop, choice, picture, shells, terminals, history
<1>2. Held'
  BY DEF Held, HeldUp, HeldEarly, HeldConfig, HeldCapture, Stop, choice,
         picture, shells, terminals, history
<1> QED BY <1>1, <1>2 DEF Held

LEMMA ShellExitsKeeps ==
    ASSUME SourceInv, NEW b \in Backends, ShellExits(b)
    PROVE  SourceInv'
<1> USE DEF SourceInv
<1>1. TypeOK'
  BY DEF TypeOK, ShellExits, choice, picture, shells, terminals, history
<1>2. Held'
  BY DEF Held, HeldUp, HeldEarly, HeldConfig, HeldCapture, ShellExits, choice,
         picture, shells, terminals, history
<1> QED BY <1>1, <1>2 DEF Held

LEMMA SpawnKeeps ==
    ASSUME SourceInv, Spawn
    PROVE  SourceInv'
<1> USE DEF SourceInv
<1>1. cfg' \in Configs /\ ncfg' \in Configs
  BY ConfigsOpen
     DEF TypeOK, Spawn
<1>2. TypeOK'
  BY <1>1, SourcesAssumption
     DEF TypeOK, Spawn, Plain, choice, picture, shells, terminals, history,
         Stages, Opening, Streaming, Sources, Clips
<1>3. HeldUp'
  BY BackendsAssumption
     DEF TypeOK, Held, HeldUp, Spawn, Plain, choice, picture, shells,
         terminals, history, HeldEarly, EarlyStages
<1>4. HeldEarly'
  BY DEF Held, HeldUp, HeldEarly, EarlyStages, Spawn, Plain, choice, picture,
         shells, terminals, history
<1>5. HeldConfig'
  BY BackendsAssumption
     DEF TypeOK, Held, HeldUp, HeldEarly, HeldConfig, EarlyStages, Spawn,
         Plain, choice, picture, shells, terminals, history, Configs
<1>6. HeldCapture'
  BY BackendsAssumption
     DEF TypeOK, Held, HeldUp, HeldEarly, HeldConfig, HeldCapture, EarlyStages,
         Spawn, Plain, choice, picture, shells, terminals, history
<1> QED BY <1>2, <1>3, <1>4, <1>5, <1>6 DEF Held

LEMMA OpenClipKeeps ==
    ASSUME SourceInv, OpenClip
    PROVE  SourceInv'
<1> USE DEF SourceInv
<1>1. cfg' \in Configs /\ cfg'.term = cfg.term
  BY DEF TypeOK, OpenClip, Configs
<1>2. CaptureOf(cfg') \in Captures /\ Renders(cfg')
  BY <1>1, CaptureOfConfig
<1>3. TypeOK'
  BY <1>1, <1>2, SourcesAssumption
     DEF TypeOK, OpenClip, choice, picture, shells, terminals, history, Stages,
         Opening, Streaming, Configs, Sources, Clips, Captures
<1>4. HeldUp'
  BY BackendsAssumption
     DEF TypeOK, Held, HeldUp, OpenClip, choice, picture, shells, terminals,
         history
<1>5. HeldEarly'
  BY <1>1, <1>2
     DEF Held, HeldUp, HeldEarly, EarlyStages, OpenClip, choice, picture,
         shells, terminals, history, Renders
<1>6. HeldConfig'
  BY <1>1, <1>2, BackendsAssumption
     DEF TypeOK, Held, HeldUp, HeldEarly, HeldConfig, EarlyStages, OpenClip,
         choice, picture, shells, terminals, history, Configs
<1>7. HeldCapture'
  BY <1>1, <1>2, BackendsAssumption
     DEF TypeOK, Held, HeldUp, HeldEarly, HeldConfig, HeldCapture, EarlyStages,
         OpenClip, choice, picture, shells, terminals, history,
         Renders
<1> QED BY <1>3, <1>4, <1>5, <1>6, <1>7 DEF Held

LEMMA ClipFailsKeeps ==
    ASSUME SourceInv, NEW readable \in BOOLEAN, ClipFails(readable)
    PROVE  SourceInv'
<1> USE DEF SourceInv
<1>1. cfg' \in Configs /\ ncfg' \in Configs
  BY DEF TypeOK, ClipFails, Configs
<1>2. TypeOK'
  BY <1>1, SourcesAssumption
     DEF TypeOK, ClipFails, FallBack, GenAfterFallBack, choice, picture,
         shells, terminals, history, Stages, Opening, Streaming,
         Sources, Clips
<1>3. HeldUp'
  BY DEF TypeOK, Held, HeldUp, ClipFails, FallBack, GenAfterFallBack, choice,
         picture, shells, terminals, history
<1>4. HeldEarly'
  BY DEF Held, HeldUp, HeldEarly, EarlyStages, ClipFails, FallBack,
         GenAfterFallBack, choice, picture, shells, terminals, history
<1>5. HeldConfig'
  BY DEF TypeOK, Held, HeldUp, HeldEarly, HeldConfig, EarlyStages, ClipFails,
         FallBack, GenAfterFallBack, choice, picture, shells,
         terminals, history, Configs
<1>6. HeldCapture'
  BY DEF TypeOK, Held, HeldUp, HeldEarly, HeldConfig, HeldCapture, EarlyStages,
         ClipFails, FallBack, GenAfterFallBack, choice, picture,
         shells, terminals, history
<1> QED BY <1>2, <1>3, <1>4, <1>5, <1>6 DEF Held

LEMMA StartsFirstKeeps ==
    ASSUME SourceInv, NEW b \in Backends, StartsFirst(b)
    PROVE  SourceInv'
<1> USE DEF SourceInv
<1>1. cfg' \in Configs /\ ncfg' \in Configs
  BY ConfigsOpen
     DEF TypeOK, StartsFirst, StartTerminal
<1>2. TypeOK'
  BY <1>1
     DEF TypeOK, StartsFirst, StartTerminal, choice, picture, shells,
         terminals, history, Stages, Opening, Streaming
<1>3. HeldUp'
  BY BackendsAssumption
     DEF TypeOK, Held, HeldUp, StartsFirst, StartTerminal, choice, picture,
         shells, terminals, history, HeldEarly, EarlyStages
<1>4. HeldEarly'
  BY DEF Held, HeldUp, HeldEarly, EarlyStages, StartsFirst, StartTerminal,
         choice, picture, shells, terminals, history
<1>5. HeldConfig'
  BY BackendsAssumption
     DEF TypeOK, Held, HeldUp, HeldEarly, HeldConfig, EarlyStages, StartsFirst,
         StartTerminal, choice, picture, shells, terminals, history,
         Configs
<1>6. HeldCapture'
  BY BackendsAssumption
     DEF TypeOK, Held, HeldUp, HeldEarly, HeldConfig, HeldCapture, EarlyStages,
         StartsFirst, StartTerminal, choice, picture, shells,
         terminals, history
<1> QED BY <1>2, <1>3, <1>4, <1>5, <1>6 DEF Held

LEMMA OpenTerminalKeeps ==
    ASSUME SourceInv, OpenTerminal
    PROVE  SourceInv'
<1> USE DEF SourceInv
<1>1. CaptureOf(cfg) \in Captures /\ Renders(cfg)
  BY CaptureOfConfig DEF TypeOK
<1>2. TypeOK'
  BY <1>1, SourcesAssumption
     DEF TypeOK, OpenTerminal, choice, picture, shells, terminals, history,
         Stages, Opening, Streaming, Captures
<1>3. HeldUp'
  BY BackendsAssumption
     DEF TypeOK, Held, HeldUp, OpenTerminal, choice, picture, shells,
         terminals, history, HeldEarly, EarlyStages
<1>4. HeldEarly'
  BY <1>1
     DEF Held, HeldUp, HeldEarly, EarlyStages, OpenTerminal, choice, picture,
         shells, terminals, history, Renders
<1>5. HeldConfig'
  BY <1>1, BackendsAssumption
     DEF TypeOK, Held, HeldUp, HeldEarly, HeldConfig, EarlyStages,
         OpenTerminal, choice, picture, shells, terminals, history
<1>6. HeldCapture'
  BY <1>1, BackendsAssumption
     DEF TypeOK, Held, HeldUp, HeldEarly, HeldConfig, HeldCapture, EarlyStages,
         OpenTerminal, choice, picture, shells, terminals, history,
         Renders
<1> QED BY <1>2, <1>3, <1>4, <1>5, <1>6 DEF Held

LEMMA TerminalFailsKeeps ==
    ASSUME SourceInv, TerminalFails
    PROVE  SourceInv'
<1> USE DEF SourceInv
<1>1. cfg' \in Configs /\ ncfg' \in Configs
  BY ConfigsOpen
     DEF TypeOK, TerminalFails
<1>2. source' \in Sources /\ source_new' \in BOOLEAN /\ requests' = requests
  BY DEF TypeOK, TerminalFails, FallBack, GenAfterFallBack, choice, Sources
<1>3. TypeOK'
  BY <1>2, <1>1, SourcesAssumption
     DEF TypeOK, TerminalFails, DropNewTerminal, Without, picture, shells,
         terminals, history, Stages, Opening, Streaming
<1>4. HeldUp'
  BY BackendsAssumption
     DEF TypeOK, Held, HeldUp, TerminalFails, DropNewTerminal, Without,
         picture, shells, terminals, history, HeldEarly, EarlyStages
<1>5. HeldEarly'
  BY DEF Held, HeldUp, HeldEarly, EarlyStages, TerminalFails, DropNewTerminal,
         Without, picture, shells, terminals, history
<1>6. HeldConfig'
  BY BackendsAssumption
     DEF TypeOK, Held, HeldUp, HeldEarly, HeldConfig, EarlyStages,
         TerminalFails, DropNewTerminal, Without, picture, shells,
         terminals, history, Configs
<1>7. HeldCapture'
  BY BackendsAssumption
     DEF TypeOK, Held, HeldUp, HeldEarly, HeldConfig, HeldCapture, EarlyStages,
         TerminalFails, DropNewTerminal, Without, picture, shells,
         terminals, history
<1> QED BY <1>3, <1>4, <1>5, <1>6, <1>7 DEF Held

LEMMA AsksCameraKeeps ==
    ASSUME SourceInv, AsksCamera
    PROVE  SourceInv'
<1> USE DEF SourceInv
<1>1. cfg' \in Configs /\ ncfg' \in Configs
  BY ConfigsOpen
     DEF TypeOK, AsksCamera
<1>2. TypeOK'
  BY <1>1
     DEF TypeOK, AsksCamera, WithCamera, choice, picture, shells, terminals,
         history, Stages, Opening, Streaming
<1>3. HeldUp'
  BY DEF TypeOK, Held, HeldUp, AsksCamera, WithCamera, choice, picture, shells,
         terminals, history
<1>4. HeldEarly'
  BY DEF Held, HeldUp, HeldEarly, EarlyStages, AsksCamera, WithCamera, choice,
         picture, shells, terminals, history
<1>5. HeldConfig'
  BY ConfigsOpen
     DEF TypeOK, Held, HeldUp, HeldEarly, HeldConfig, EarlyStages, AsksCamera,
         choice, picture, shells, terminals, history
<1>6. HeldCapture'
  BY DEF TypeOK, Held, HeldUp, HeldEarly, HeldConfig, HeldCapture, EarlyStages,
         AsksCamera, WithCamera, choice, picture, shells, terminals,
         history
<1> QED BY <1>2, <1>3, <1>4, <1>5, <1>6 DEF Held

LEMMA OpenLiveKeeps ==
    ASSUME SourceInv, OpenLive
    PROVE  SourceInv'
<1> USE DEF SourceInv
<1>1. CaptureOf(cfg) \in Captures /\ Renders(cfg)
  BY CaptureOfConfig DEF TypeOK
<1>2. TypeOK'
  BY <1>1, SourcesAssumption
     DEF TypeOK, OpenLive, choice, picture, shells, terminals, history, Stages,
         Opening, Streaming, Captures
<1>3. HeldUp'
  BY BackendsAssumption
     DEF TypeOK, Held, HeldUp, OpenLive, choice, picture, shells, terminals,
         history
<1>4. HeldEarly'
  BY <1>1
     DEF Held, HeldUp, HeldEarly, EarlyStages, OpenLive, choice, picture,
         shells, terminals, history, Renders
<1>5. HeldConfig'
  BY <1>1, BackendsAssumption
     DEF TypeOK, Held, HeldUp, HeldEarly, HeldConfig, EarlyStages, OpenLive,
         choice, picture, shells, terminals, history
<1>6. HeldCapture'
  BY <1>1, BackendsAssumption
     DEF TypeOK, Held, HeldUp, HeldEarly, HeldConfig, HeldCapture, EarlyStages,
         OpenLive, choice, picture, shells, terminals, history,
         Renders
<1> QED BY <1>2, <1>3, <1>4, <1>5, <1>6 DEF Held

LEMMA ReadsChoiceKeeps ==
    ASSUME SourceInv, ReadsChoice
    PROVE  SourceInv'
<1> USE DEF SourceInv
<1>1. UNCHANGED <<source, source_new, requests, stop, cfg, cap, playing, term,
                  nterm, up, dead, refused, missed>>
  BY DEF ReadsChoice, choice, shells, terminals, history
<1>2. video_file' \in Clips \union {Nothing}
  BY DEF TypeOK, ReadsChoice
<1>3. pc = "choice" /\ pc' \in {"new start", "new open", "new camera?"}
  BY DEF ReadsChoice
<1>4. ncfg' \in Configs /\ ncfg'.term = NoBackend
  BY DEF ReadsChoice, Cleared, Plain, Configs
<1>5. TypeOK'
  BY <1>1, <1>2, <1>3, <1>4 DEF TypeOK, Stages, Streaming
<1>6. Held'
  BY <1>1, <1>3, <1>4 DEF Held, HeldUp, HeldEarly, HeldConfig, HeldCapture, EarlyStages
<1> QED BY <1>5, <1>6

LEMMA AsksNewCameraKeeps ==
    ASSUME SourceInv, AsksNewCamera
    PROVE  SourceInv'
<1> USE DEF SourceInv
<1>1. cfg' \in Configs /\ ncfg' \in Configs
  BY ConfigsOpen
     DEF TypeOK, AsksNewCamera
<1>2. TypeOK'
  BY <1>1
     DEF TypeOK, AsksNewCamera, WithCamera, choice, picture, shells, terminals,
         history, Stages, Opening, Streaming
<1>3. HeldUp'
  BY DEF TypeOK, Held, HeldUp, AsksNewCamera, WithCamera, choice, picture,
         shells, terminals, history
<1>4. HeldEarly'
  BY DEF Held, HeldUp, HeldEarly, EarlyStages, AsksNewCamera, WithCamera,
         choice, picture, shells, terminals, history
<1>5. HeldConfig'
  BY ConfigsOpen
     DEF TypeOK, Held, HeldUp, HeldEarly, HeldConfig, EarlyStages,
         AsksNewCamera, choice, picture, shells, terminals, history
<1>6. HeldCapture'
  BY DEF TypeOK, Held, HeldUp, HeldEarly, HeldConfig, HeldCapture, EarlyStages,
         AsksNewCamera, WithCamera, choice, picture, shells,
         terminals, history
<1> QED BY <1>2, <1>3, <1>4, <1>5, <1>6 DEF Held

LEMMA StartsNewKeeps ==
    ASSUME SourceInv, NEW b \in Backends, StartsNew(b)
    PROVE  SourceInv'
<1> USE DEF SourceInv
<1>1. cfg' \in Configs /\ ncfg' \in Configs
  BY ConfigsOpen
     DEF TypeOK, StartsNew, StartTerminal
<1>2. TypeOK'
  BY <1>1
     DEF TypeOK, StartsNew, StartTerminal, choice, picture, shells, terminals,
         history, Stages, Opening, Streaming
<1>3. HeldUp'
  BY BackendsAssumption
     DEF TypeOK, Held, HeldUp, StartsNew, StartTerminal, choice, picture,
         shells, terminals, history, HeldEarly, EarlyStages
<1>4. HeldEarly'
  BY DEF Held, HeldUp, HeldEarly, EarlyStages, StartsNew, StartTerminal,
         choice, picture, shells, terminals, history
<1>5. HeldConfig'
  BY BackendsAssumption
     DEF TypeOK, Held, HeldUp, HeldEarly, HeldConfig, EarlyStages, StartsNew,
         StartTerminal, choice, picture, shells, terminals, history,
         Configs
<1>6. HeldCapture'
  BY BackendsAssumption
     DEF TypeOK, Held, HeldUp, HeldEarly, HeldConfig, HeldCapture, EarlyStages,
         StartsNew, StartTerminal, choice, picture, shells, terminals,
         history
<1> QED BY <1>2, <1>3, <1>4, <1>5, <1>6 DEF Held

LEMMA OpenNewKeeps ==
    ASSUME SourceInv, OpenNew
    PROVE  SourceInv'
<1> USE DEF SourceInv
<1>1. CaptureOf(ncfg) \in Captures /\ Renders(ncfg)
  BY CaptureOfConfig DEF TypeOK
<1>2. TypeOK'
  BY <1>1, SourcesAssumption
     DEF TypeOK, OpenNew, choice, picture, shells, terminals, history, Stages,
         Opening, Streaming, Captures
<1>3. HeldUp'
  BY BackendsAssumption
     DEF TypeOK, Held, HeldUp, OpenNew, choice, picture, shells, terminals,
         history
<1>4. HeldEarly'
  BY <1>1
     DEF Held, HeldUp, HeldEarly, EarlyStages, OpenNew, choice, picture,
         shells, terminals, history, Renders
<1>5. HeldConfig'
  BY <1>1, BackendsAssumption
     DEF TypeOK, Held, HeldUp, HeldEarly, HeldConfig, EarlyStages, OpenNew,
         choice, picture, shells, terminals, history
<1>6. HeldCapture'
  BY <1>1, BackendsAssumption
     DEF TypeOK, Held, HeldUp, HeldEarly, HeldConfig, HeldCapture, EarlyStages,
         OpenNew, choice, picture, shells, terminals, history, Renders
<1> QED BY <1>2, <1>3, <1>4, <1>5, <1>6 DEF Held

LEMMA AdoptKeeps ==
    ASSUME SourceInv, Adopt
    PROVE  SourceInv'
<1> USE DEF SourceInv
<1>1. playing' \in Clips \union {Nothing} /\ video_file' = playing'
  BY DEF TypeOK, Adopt, Configs
<1>2. up' \subseteq Backends /\ dead' \subseteq up'
  BY DEF TypeOK, Adopt, Without
<1>3. cfg' \in Configs /\ ncfg' \in Configs
  BY ConfigsOpen
     DEF TypeOK, Adopt
<1>4. TypeOK'
  BY <1>3, <1>2, <1>1
     DEF TypeOK, Adopt, Without, choice, picture, shells, terminals, history,
         Stages, Opening, Streaming
<1>5. HeldUp'
  BY BackendsAssumption
     DEF TypeOK, Held, HeldUp, Adopt, Without, choice, picture, shells,
         terminals, history, HeldEarly, EarlyStages
<1>6. HeldEarly'
  BY DEF Held, HeldUp, HeldEarly, EarlyStages, Adopt, Without, choice, picture,
         shells, terminals, history
<1>7. HeldConfig'
  BY BackendsAssumption
     DEF TypeOK, Held, HeldUp, HeldEarly, HeldConfig, EarlyStages, Adopt,
         Without, choice, picture, shells, terminals, history, Configs
<1>8. HeldCapture'
  BY BackendsAssumption
     DEF TypeOK, Held, HeldUp, HeldEarly, HeldConfig, HeldCapture, EarlyStages,
         Adopt, Without, choice, picture, shells, terminals, history
<1> QED BY <1>4, <1>5, <1>6, <1>7, <1>8 DEF Held

LEMMA SwitchFailsKeeps ==
    ASSUME SourceInv, SwitchFails
    PROVE  SourceInv'
<1> USE DEF SourceInv
<1>1. CaptureOf(ncfg) \in Captures /\ Renders(ncfg)
  BY CaptureOfConfig DEF TypeOK
<1>2. source' \in Sources /\ source_new' \in BOOLEAN /\ requests' = requests
  BY DEF TypeOK, SwitchFails, FallBack, GenAfterFallBack, choice, Sources
<1>3. TypeOK'
  BY <1>2, <1>1, SourcesAssumption
     DEF TypeOK, SwitchFails, DropNewTerminal, Without, picture, shells,
         terminals, history, Stages, Opening, Streaming, Captures,
         CaptureOf
<1>4. HeldUp'
  BY BackendsAssumption
     DEF TypeOK, Held, HeldUp, SwitchFails, DropNewTerminal, Without, picture,
         shells, terminals, history, HeldEarly, EarlyStages
<1>5. HeldEarly'
  BY <1>1
     DEF Held, HeldUp, HeldEarly, EarlyStages, SwitchFails, DropNewTerminal,
         Without, picture, shells, terminals, history, Renders
<1>6. HeldConfig'
  BY <1>1, BackendsAssumption
     DEF TypeOK, Held, HeldUp, HeldEarly, HeldConfig, EarlyStages, SwitchFails,
         DropNewTerminal, Without, picture, shells, terminals, history
<1>7. HeldCapture'
  BY <1>1, BackendsAssumption
     DEF TypeOK, Held, HeldUp, HeldEarly, HeldConfig, HeldCapture, EarlyStages,
         SwitchFails, DropNewTerminal, Without, picture, shells,
         terminals, history, Renders
<1> QED BY <1>3, <1>4, <1>5, <1>6, <1>7 DEF Held

LEMMA ChecksShellKeeps ==
    ASSUME SourceInv, ChecksShell
    PROVE  SourceInv'
<1> USE DEF SourceInv
<1>1. source' \in Sources /\ source_new' \in BOOLEAN /\ requests' = requests
  BY DEF TypeOK, ChecksShell, FallBack, GenAfterFallBack, choice, Sources
<1>2. TypeOK'
  BY <1>1, SourcesAssumption
     DEF TypeOK, ChecksShell, ShellGone, picture, shells, terminals, history,
         Stages, Opening, Streaming
<1>3. HeldUp'
  BY DEF TypeOK, Held, HeldUp, ChecksShell, ShellGone, picture, shells,
         terminals, history
<1>4. HeldEarly'
  BY DEF Held, HeldUp, HeldEarly, EarlyStages, ChecksShell, ShellGone, picture,
         shells, terminals, history
<1>5. HeldConfig'
  BY DEF TypeOK, Held, HeldUp, HeldEarly, HeldConfig, EarlyStages, ChecksShell,
         ShellGone, picture, shells, terminals, history
<1>6. HeldCapture'
  BY DEF TypeOK, Held, HeldUp, HeldEarly, HeldConfig, HeldCapture, EarlyStages,
         ChecksShell, ShellGone, picture, shells, terminals, history
<1> QED BY <1>2, <1>3, <1>4, <1>5, <1>6 DEF Held

LEMMA ReopensInPlaceKeeps ==
    ASSUME SourceInv, ReopensInPlace
    PROVE  SourceInv'
<1> USE DEF SourceInv
<1>1. cfg' \in Configs /\ ncfg' \in Configs
  BY ConfigsOpen
     DEF TypeOK, ReopensInPlace
<1>2. TypeOK'
  BY <1>1
     DEF TypeOK, ReopensInPlace, WithCamera, Closed, choice, picture, shells,
         terminals, history, Stages, Opening, Streaming
<1>3. HeldUp'
  BY BackendsAssumption
     DEF TypeOK, Held, HeldUp, ReopensInPlace, WithCamera, Closed, choice,
         picture, shells, terminals, history
<1>4. HeldEarly'
  BY DEF Held, HeldUp, HeldEarly, EarlyStages, ReopensInPlace, WithCamera,
         Closed, choice, picture, shells, terminals, history
<1>5. HeldConfig'
  BY BackendsAssumption, ConfigsOpen
     DEF TypeOK, Held, HeldUp, HeldEarly, HeldConfig, EarlyStages,
         ReopensInPlace, Closed, choice, picture, shells, terminals,
         history
<1>6. HeldCapture'
  BY BackendsAssumption
     DEF TypeOK, Held, HeldUp, HeldEarly, HeldConfig, HeldCapture, EarlyStages,
         ReopensInPlace, WithCamera, Closed, choice, picture, shells,
         terminals, history
<1> QED BY <1>2, <1>3, <1>4, <1>5, <1>6 DEF Held

LEMMA ReopenedKeeps ==
    ASSUME SourceInv, Reopened
    PROVE  SourceInv'
<1> USE DEF SourceInv
<1>1. CaptureOf(cfg) \in Captures /\ Renders(cfg)
  BY CaptureOfConfig DEF TypeOK
<1>2. TypeOK'
  BY <1>1, SourcesAssumption
     DEF TypeOK, Reopened, choice, picture, shells, terminals, history, Stages,
         Opening, Streaming, Captures
<1>3. HeldUp'
  BY BackendsAssumption
     DEF TypeOK, Held, HeldUp, Reopened, choice, picture, shells, terminals,
         history
<1>4. HeldEarly'
  BY <1>1
     DEF Held, HeldUp, HeldEarly, EarlyStages, Reopened, choice, picture,
         shells, terminals, history, Renders
<1>5. HeldConfig'
  BY <1>1, BackendsAssumption
     DEF TypeOK, Held, HeldUp, HeldEarly, HeldConfig, EarlyStages, Reopened,
         choice, picture, shells, terminals, history
<1>6. HeldCapture'
  BY <1>1, BackendsAssumption
     DEF TypeOK, Held, HeldUp, HeldEarly, HeldConfig, HeldCapture, EarlyStages,
         Reopened, choice, picture, shells, terminals, history,
         Renders
<1> QED BY <1>2, <1>3, <1>4, <1>5, <1>6 DEF Held

LEMMA RegionChangesKeeps ==
    ASSUME SourceInv, RegionChanges
    PROVE  SourceInv'
<1> USE DEF SourceInv
<1>1. cfg' \in Configs /\ ncfg' \in Configs
  BY ConfigsOpen
     DEF TypeOK, RegionChanges
<1>2. TypeOK'
  BY <1>1
     DEF TypeOK, RegionChanges, WithCamera, choice, picture, shells, terminals,
         history, Stages, Opening, Streaming
<1>3. HeldUp'
  BY DEF TypeOK, Held, HeldUp, RegionChanges, WithCamera, choice, picture,
         shells, terminals, history
<1>4. HeldEarly'
  BY DEF Held, HeldUp, HeldEarly, EarlyStages, RegionChanges, WithCamera,
         choice, picture, shells, terminals, history
<1>5. HeldConfig'
  BY ConfigsOpen
     DEF TypeOK, Held, HeldUp, HeldEarly, HeldConfig, EarlyStages,
         RegionChanges, choice, picture, shells, terminals, history
<1>6. HeldCapture'
  BY DEF TypeOK, Held, HeldUp, HeldEarly, HeldConfig, HeldCapture, EarlyStages,
         RegionChanges, WithCamera, choice, picture, shells,
         terminals, history
<1> QED BY <1>2, <1>3, <1>4, <1>5, <1>6 DEF Held

LEMMA OpenRegionKeeps ==
    ASSUME SourceInv, OpenRegion
    PROVE  SourceInv'
<1> USE DEF SourceInv
<1>1. CaptureOf(ncfg) \in Captures /\ Renders(ncfg)
  BY CaptureOfConfig DEF TypeOK
<1>2. cfg' \in Configs /\ ncfg' \in Configs
  BY ConfigsOpen
     DEF TypeOK, OpenRegion
<1>3. TypeOK'
  BY <1>2, <1>1, SourcesAssumption
     DEF TypeOK, OpenRegion, choice, picture, shells, terminals, history,
         Stages, Opening, Streaming, Captures
<1>4. HeldUp'
  BY BackendsAssumption
     DEF TypeOK, Held, HeldUp, OpenRegion, choice, picture, shells, terminals,
         history
<1>5. HeldEarly'
  BY <1>1
     DEF Held, HeldUp, HeldEarly, EarlyStages, OpenRegion, choice, picture,
         shells, terminals, history, Renders
<1>6. HeldConfig'
  BY <1>1, BackendsAssumption
     DEF TypeOK, Held, HeldUp, HeldEarly, HeldConfig, EarlyStages, OpenRegion,
         choice, picture, shells, terminals, history, Configs
<1>7. HeldCapture'
  BY <1>1, BackendsAssumption
     DEF TypeOK, Held, HeldUp, HeldEarly, HeldConfig, HeldCapture, EarlyStages,
         OpenRegion, choice, picture, shells, terminals, history,
         Renders
<1> QED BY <1>3, <1>4, <1>5, <1>6, <1>7 DEF Held

LEMMA FileEndsKeeps ==
    ASSUME SourceInv, FileEnds
    PROVE  SourceInv'
<1> USE DEF SourceInv
<1>1. TypeOK'
  BY SourcesAssumption
     DEF TypeOK, FileEnds, FallBack, GenAfterFallBack, choice, picture, shells,
         terminals, history, Stages, Opening, Streaming, Sources,
         Clips
<1>2. HeldUp'
  BY DEF TypeOK, Held, HeldUp, FileEnds, FallBack, GenAfterFallBack, choice,
         picture, shells, terminals, history
<1>3. HeldEarly'
  BY DEF Held, HeldUp, HeldEarly, EarlyStages, FileEnds, FallBack,
         GenAfterFallBack, choice, picture, shells, terminals, history
<1>4. HeldConfig'
  BY DEF TypeOK, Held, HeldUp, HeldEarly, HeldConfig, EarlyStages, FileEnds,
         FallBack, GenAfterFallBack, choice, picture, shells,
         terminals, history
<1>5. HeldCapture'
  BY DEF TypeOK, Held, HeldUp, HeldEarly, HeldConfig, HeldCapture, EarlyStages,
         FileEnds, FallBack, GenAfterFallBack, choice, picture,
         shells, terminals, history
<1> QED BY <1>1, <1>2, <1>3, <1>4, <1>5 DEF Held

LEMMA NoEntryKeeps ==
    ASSUME SourceInv, NoEntry
    PROVE  SourceInv'
<1> USE DEF SourceInv
<1>1. TypeOK'
  BY DEF TypeOK, NoEntry, Closed, choice, picture, shells, terminals, history,
         Stages, Opening, Streaming
<1>2. HeldUp'
  BY BackendsAssumption
     DEF TypeOK, Held, HeldUp, NoEntry, Closed, choice, picture, shells,
         terminals, history
<1>3. HeldEarly'
  BY DEF Held, HeldUp, HeldEarly, EarlyStages, NoEntry, Closed, choice,
         picture, shells, terminals, history
<1>4. HeldConfig'
  BY BackendsAssumption
     DEF TypeOK, Held, HeldUp, HeldEarly, HeldConfig, EarlyStages, NoEntry,
         Closed, choice, picture, shells, terminals, history
<1>5. HeldCapture'
  BY BackendsAssumption
     DEF TypeOK, Held, HeldUp, HeldEarly, HeldConfig, HeldCapture, EarlyStages,
         NoEntry, Closed, choice, picture, shells, terminals, history
<1> QED BY <1>1, <1>2, <1>3, <1>4, <1>5 DEF Held

LEMMA LeaveKeeps ==
    ASSUME SourceInv, Leave
    PROVE  SourceInv'
<1> USE DEF SourceInv
<1>1. TypeOK'
  BY DEF TypeOK, Leave, Without, Closed, choice, picture, shells, terminals,
         history, Stages, Opening, Streaming
<1>2. HeldUp'
  BY BackendsAssumption
     DEF TypeOK, Held, HeldUp, Leave, Without, Closed, choice, picture, shells,
         terminals, history, HeldEarly, EarlyStages
<1>3. HeldEarly'
  BY DEF Held, HeldUp, HeldEarly, EarlyStages, Leave, Without, Closed, choice,
         picture, shells, terminals, history
<1>4. HeldConfig'
  BY BackendsAssumption
     DEF TypeOK, Held, HeldUp, HeldEarly, HeldConfig, EarlyStages, Leave,
         Without, Closed, choice, picture, shells, terminals, history
<1>5. HeldCapture'
  BY BackendsAssumption
     DEF TypeOK, Held, HeldUp, HeldEarly, HeldConfig, HeldCapture, EarlyStages,
         Leave, Without, Closed, choice, picture, shells, terminals,
         history
<1> QED BY <1>1, <1>2, <1>3, <1>4, <1>5 DEF Held

-----------------------------------------------------------------------------
LEMMA NextSourceInv == SourceInv /\ [Next]_vars => SourceInv'
<1> SUFFICES ASSUME SourceInv, [Next]_vars PROVE SourceInv'
  OBVIOUS
<1>1. CASE \E s \in Sources : Request(s)
  BY <1>1, RequestKeeps
<1>2. CASE Stop \/ Spawn
  BY <1>2, StopKeeps, SpawnKeeps
<1>3. CASE \E b \in Backends : ShellExits(b)
  BY <1>3, ShellExitsKeeps
<1>4. CASE Opens
  BY <1>4, OpenClipKeeps, ClipFailsKeeps, StartsFirstKeeps, OnlyMovesKeeps,
     OpenTerminalKeeps, TerminalFailsKeeps, AsksCameraKeeps,
     OpenLiveKeeps
     DEF Opens, OnlyMoves
<1>5. CASE Switches
  BY <1>5, ReadsChoiceKeeps, OnlyMovesKeeps, AsksNewCameraKeeps, StartsNewKeeps,
     OpenNewKeeps, AdoptKeeps, SwitchFailsKeeps, ChecksShellKeeps
     DEF Switches, OnlyMoves
<1>6. CASE Streams
  BY <1>6, ReopensInPlaceKeeps, OnlyMovesKeeps, ReopenedKeeps,
     RegionChangesKeeps, OpenRegionKeeps,
     FileEndsKeeps, NoEntryKeeps,
     LeaveKeeps
     DEF Streams, OnlyMoves
<1>7. CASE UNCHANGED vars
  <2>1. TypeOK'
    BY <1>7 DEF SourceInv, TypeOK, vars, choice, picture, shells, terminals, history
  <2>2. Held'
    BY <1>7 DEF SourceInv, Held, HeldUp, HeldEarly, HeldConfig, HeldCapture, vars,
       choice, picture, shells, terminals, history
  <2> QED BY <2>1, <2>2 DEF SourceInv
<1> QED BY <1>1, <1>2, <1>3, <1>4, <1>5, <1>6, <1>7 DEF Next, Worker

\* Every session, whatever the choices and the failures, goes from one well
\* typed state to another, and uses its capture only while it has one.
THEOREM SourceTypeCorrect == Spec => []TypeOK
<1>1. Spec => []SourceInv
  BY InitSourceInv, NextSourceInv, PTL DEF Spec
<1>2. SourceInv => TypeOK
  BY DEF SourceInv
<1> QED BY <1>1, <1>2, PTL

LEMMA HeldOwned == SourceInv => TerminalsOwned
BY DEF SourceInv, TypeOK, Held, HeldUp, HeldCapture, TerminalsOwned

\* For any number of terminals: none is left behind, and the capture never
\* renders from one that has been stopped (bsdr_term_stop).
THEOREM TerminalsAreOwned == Spec => []TerminalsOwned
<1>1. Spec => []SourceInv
  BY InitSourceInv, NextSourceInv, PTL DEF Spec
<1> QED BY <1>1, HeldOwned, PTL

-----------------------------------------------------------------------------
(***************************************************************************)
(* What is shown is what was chosen.  The invariant follows a choice from  *)
(* the app's source through the settings to the capture, stage by stage.   *)
(***************************************************************************)
TerminalOnly(b) == [Plain EXCEPT !.term = b]

\* While the session opens: what is being opened is what was chosen, unless a
\* choice came meanwhile or a clip has failed.
OpeningChosen ==
    ~missed /\ ~StaleClip =>
        /\ pc = "clip" => source \in Clips /\ video_file = source
        /\ pc = "terminal?" => source \notin Clips /\ cfg = Plain
        /\ pc = "start" => source = Terminal /\ cfg = Plain
        /\ pc = "open terminal" =>
               source = Terminal /\ \E b \in Backends : cfg = TerminalOnly(b)
        /\ pc = "camera?" => source \in Cameras \union {Desktop} /\ cfg = Plain
        /\ pc \in {"try live", "open live"} => Target(cfg) = source
        /\ pc = "enter" => cap.source = source

\* While it switches, and no later choice waits: the new settings are those of
\* the choice.
SwitchChosen ==
    ~source_new =>
        /\ pc = "new camera?" =>
               source \in Cameras \union {Desktop} /\ ncfg = Plain
        /\ pc = "new start" => source = Terminal /\ ncfg = Plain
        /\ pc = "new open" => Target(ncfg) = source
        /\ pc = "adopt" => cap.source = source

Excused == source = refused \/ missed \/ StaleClip
Settled == {"top", "shell", "settings", "region", "open region", "frame"}

\* While it streams: the capture is what was chosen, and one that is opened
\* anew will be.
StreamChosen ==
    ~source_new =>
        /\ pc \in Settled => cap.source = source \/ Excused
        /\ pc = "reopen" => Target(cfg) = source \/ Excused
        /\ pc = "open region" => Target(ncfg) = source \/ Excused

\* The capture is the one its settings describe.
Described ==
    /\ pc \in (Streaming \union {"enter"}) \ {"adopt"} =>
           cap.source = Target(cfg)
    /\ pc = "adopt" => cap.source = Target(ncfg)
    /\ pc \in EarlyStages \ {"done"} => playing = Nothing
    /\ pc = "clip" => cfg = Plain
    /\ pc = "open region" => ncfg.file = cfg.file /\ playing = Nothing

ChosenInv == OpeningChosen /\ SwitchChosen /\ StreamChosen /\ Described

\* Settings that were cleared stay cleared.
LEMMA PlainAgain ==
    /\ [Plain EXCEPT !.file = Nothing] = Plain
    /\ [Plain EXCEPT !.term = NoBackend] = Plain
BY DEF Plain

\* What bsdr_capture_open opens for the settings the worker writes: one field
\* decides alone, and a camera that is looked up again changes nothing as long
\* as the choice is what the settings already show.
LEMMA TargetOfConfig ==
    /\ \A f \in Clips : Target([Plain EXCEPT !.file = f]) = f
    /\ \A b \in Backends : Target(TerminalOnly(b)) = Terminal
    /\ \A c \in Configs :
           WithCamera(c).file = c.file /\ WithCamera(c).term = c.term
    /\ source \in Cameras \union {Desktop} => Target(WithCamera(Plain)) = source
    /\ \A c \in Configs : c.file = Nothing /\ Target(c) = source
                              => Target(WithCamera(c)) = source
<1>0. Nothing \notin Sources /\ NoBackend \notin Backends
  BY SourcesAssumption, BackendsAssumption
<1>1. ASSUME NEW f \in Clips PROVE Target([Plain EXCEPT !.file = f]) = f
  BY <1>0 DEF Target, Plain, Sources
<1>2. ASSUME NEW b \in Backends
      PROVE  Target(TerminalOnly(b)) = Terminal
  BY <1>0 DEF Target, Plain, TerminalOnly
<1>3. ASSUME source \in Cameras \union {Desktop}
      PROVE  Target(WithCamera(Plain)) = source
  BY <1>0, <1>3, SourcesAssumption DEF Target, Plain, WithCamera, Sources
<1>4. ASSUME NEW c \in Configs, c.file = Nothing, Target(c) = source
      PROVE  Target(WithCamera(c)) = source
  BY <1>0, <1>4, SourcesAssumption DEF Target, WithCamera, Configs, Sources
<1>5. ASSUME NEW c \in Configs
      PROVE  WithCamera(c).file = c.file /\ WithCamera(c).term = c.term
  BY DEF WithCamera, Configs
<1> QED BY <1>1, <1>2, <1>3, <1>4, <1>5

\* A step that moves neither the worker nor the choice keeps ChosenInv.
LEMMA SameKeepsChosen ==
    ASSUME ChosenInv,
           UNCHANGED <<source, source_new, pc, cfg, ncfg, cap, playing,
                       video_file, refused, missed>>
    PROVE  ChosenInv'
<1>1. OpeningChosen'
  BY DEF ChosenInv, OpeningChosen, StaleClip
<1>2. SwitchChosen'
  BY DEF ChosenInv, SwitchChosen
<1>3. StreamChosen'
  BY DEF ChosenInv, StreamChosen, Excused, StaleClip
<1>4. Described'
  BY DEF ChosenInv, Described
<1> QED BY <1>1, <1>2, <1>3, <1>4 DEF ChosenInv

\* Every step of the operator, the shells and the worker keeps ChosenInv.
LEMMA StepChosenInv ==
    SourceInv /\ ChosenInv /\ [Next]_vars => ChosenInv'
<1> SUFFICES ASSUME SourceInv, ChosenInv, [Next]_vars PROVE ChosenInv'
  OBVIOUS
<1>0. /\ source \in Sources /\ cfg \in Configs /\ ncfg \in Configs
      /\ playing \in Clips \union {Nothing}
      /\ Nothing \notin Sources \union Cameras \union Clips
      /\ Desktop # Terminal /\ Desktop \notin Clips /\ Terminal \notin Clips
      /\ Terminal \notin Cameras
      /\ source \notin Clips /\ source # Terminal
             => source \in Cameras \union {Desktop}
  BY SourcesAssumption DEF SourceInv, TypeOK, Sources
<1> USE DEF ChosenInv, OpeningChosen, SwitchChosen, StreamChosen, Described,
            Excused, Settled, StaleClip, Streaming, Opening, EarlyStages,
            choice, picture, shells, terminals, history
<1>1. ASSUME NEW s \in Sources, Request(s) PROVE ChosenInv'
  BY <1>0, <1>1 DEF Request
<1>2. CASE Stop
  BY <1>2, SameKeepsChosen
     DEF Stop, choice, picture, shells, terminals, history
<1>3. CASE Spawn
  BY <1>0, <1>3 DEF Spawn, Plain
<1>4. ASSUME NEW b \in Backends, ShellExits(b) PROVE ChosenInv'
  BY <1>4, SameKeepsChosen
     DEF ShellExits, choice, picture, shells, terminals, history
<1>5. CASE OpenClip
  <2>1. OpeningChosen'
    <3>1. cfg = Plain => Target(cfg') = video_file \/ video_file = Nothing
      BY <1>0, <1>5, TargetOfConfig DEF OpenClip, SourceInv, TypeOK
    <3> QED BY <1>0, <1>5, <3>1 DEF OpenClip, CaptureOf, Plain
  <2>2. SwitchChosen'
    BY <1>0, <1>5, TargetOfConfig DEF OpenClip
  <2>3. StreamChosen'
    BY <1>0, <1>5, TargetOfConfig DEF OpenClip
  <2>4. Described'
    BY <1>5 DEF OpenClip, CaptureOf
  <2> QED BY <2>1, <2>2, <2>3, <2>4
<1>6. ASSUME NEW readable \in BOOLEAN, ClipFails(readable) PROVE ChosenInv'
  <2>1. OpeningChosen'
    <3>1. cfg = Plain /\ playing = Nothing /\ pc' = "terminal?"
          /\ source' = Desktop /\ UNCHANGED <<playing, missed>>
          /\ (cfg' = cfg \/ cfg' = [cfg EXCEPT !.file = video_file])
      BY <1>6 DEF ClipFails, FallBack
    <3>2. ~missed => video_file # Nothing
      BY <1>0, <1>6, <3>1 DEF ClipFails, Plain
    <3>3. cfg' = cfg \/ cfg'.file = video_file
      BY <3>1 DEF Plain
    <3> QED BY <1>0, <3>1, <3>2, <3>3
  <2>2. SwitchChosen' /\ StreamChosen' /\ Described'
    BY <1>0, <1>6 DEF ClipFails, FallBack, GenAfterFallBack
  <2> QED BY <2>1, <2>2
<1>7. CASE AsksTerminal
  <2>1. OpeningChosen'
    BY <1>0, <1>7 DEF AsksTerminal
  <2>2. SwitchChosen' /\ StreamChosen' /\ Described'
    BY <1>0, <1>7 DEF AsksTerminal
  <2> QED BY <2>1, <2>2
<1>8. ASSUME NEW b \in Backends, StartsFirst(b) PROVE ChosenInv'
  <2>1. OpeningChosen'
    <3>1. cfg' = [cfg EXCEPT !.term = b] /\ cfg'.file = cfg.file
          /\ pc = "start" /\ pc' = "open terminal"
          /\ UNCHANGED <<playing, missed, source>>
      BY <1>0, <1>8 DEF StartsFirst, Configs
    <3>2. cfg = Plain => cfg' = TerminalOnly(b)
      BY <3>1 DEF TerminalOnly
    <3> QED BY <3>1, <3>2
  <2>2. SwitchChosen' /\ StreamChosen' /\ Described'
    BY <1>0, <1>8, TargetOfConfig DEF StartsFirst, StartTerminal
  <2> QED BY <2>1, <2>2
<1>9. CASE OpenTerminal
  BY <1>0, <1>9, TargetOfConfig DEF OpenTerminal, CaptureOf
<1>10. CASE TerminalFails
  <2>1. OpeningChosen'
    <3>1. cfg' = [cfg EXCEPT !.term = NoBackend] /\ cfg'.file = cfg.file
          /\ pc \in {"start", "open terminal"} /\ pc' = "camera?"
          /\ source' = Desktop /\ UNCHANGED <<playing, missed>>
      BY <1>0, <1>10 DEF TerminalFails, FallBack, Configs
    <3>2. cfg = Plain => cfg' = Plain
      BY <3>1, PlainAgain
    <3>3. ASSUME NEW b \in Backends, cfg = TerminalOnly(b) PROVE cfg' = Plain
      BY <3>1, <3>3 DEF TerminalOnly, Plain
    <3> QED BY <3>1, <3>2, <3>3
  <2>2. SwitchChosen' /\ StreamChosen' /\ Described'
    BY <1>0, <1>10
       DEF TerminalFails, FallBack, GenAfterFallBack, DropNewTerminal
  <2> QED BY <2>1, <2>2
<1>11. CASE AsksCamera
  BY <1>0, <1>11, TargetOfConfig DEF AsksCamera
<1>12. CASE TriesLive
  BY <1>0, <1>12 DEF TriesLive, GivesUp
<1>13. CASE OpenLive
  BY <1>0, <1>13 DEF OpenLive, CaptureOf
<1>14. CASE LiveFails
  BY <1>0, <1>14 DEF LiveFails
<1>15. CASE EnterLoop
  BY <1>0, <1>15 DEF EnterLoop
<1>16. CASE Iterates
  BY <1>0, <1>16 DEF Iterates
<1>17. CASE ReadsChoice
  <2>1. OpeningChosen'
    BY <1>0, <1>17, TargetOfConfig DEF ReadsChoice, Cleared
  <2>2. SwitchChosen'
    <3>1. [Plain EXCEPT !.file = Nothing] = Plain
      BY PlainAgain
    <3>2. ncfg' = [Plain EXCEPT !.file = IF source \in Clips THEN source
                                                           ELSE Nothing]
          /\ UNCHANGED <<source, source_new>>
      BY <1>17 DEF ReadsChoice, Cleared
    <3>3. CASE source = Terminal
      BY <1>0, <1>17, <3>1, <3>2, <3>3 DEF ReadsChoice
    <3>4. CASE source \in Clips
      <4>1. Target(ncfg') = source
        BY <3>2, <3>4, TargetOfConfig
      <4>2. pc' = "new open"
        BY <1>0, <1>17, <3>4 DEF ReadsChoice
      <4> QED BY <3>2, <4>1, <4>2
    <3>5. CASE source \notin Clips /\ source # Terminal
      BY <1>0, <1>17, <3>1, <3>2, <3>5 DEF ReadsChoice
    <3> QED BY <3>3, <3>4, <3>5
  <2>3. StreamChosen'
    BY <1>0, <1>17, TargetOfConfig DEF ReadsChoice, Cleared
  <2>4. Described'
    BY <1>0, <1>17, TargetOfConfig DEF ReadsChoice, Cleared
  <2> QED BY <2>1, <2>2, <2>3, <2>4
<1>18. CASE AsksNewCamera
  BY <1>0, <1>18, TargetOfConfig DEF AsksNewCamera
<1>19. ASSUME NEW b \in Backends, StartsNew(b) PROVE ChosenInv'
  BY <1>0, <1>19, TargetOfConfig DEF StartsNew, StartTerminal, TerminalOnly
<1>20. CASE OpenNew
  BY <1>0, <1>20 DEF OpenNew, CaptureOf
<1>21. CASE Adopt
  BY <1>0, <1>21 DEF Adopt, Without
<1>22. CASE SwitchFails
  BY <1>0, <1>22 DEF SwitchFails, FallBack, GenAfterFallBack, DropNewTerminal
<1>23. CASE ChecksShell
  BY <1>0, <1>23 DEF ChecksShell, ShellGone, FallBack, GenAfterFallBack
<1>24. CASE ReopensInPlace
  BY <1>0, <1>24, TargetOfConfig DEF ReopensInPlace
<1>25. CASE SettingsKept
  BY <1>0, <1>25 DEF SettingsKept
<1>26. CASE Reopened
  BY <1>0, <1>26 DEF Reopened, CaptureOf
<1>27. CASE ReopenFails
  BY <1>0, <1>27 DEF ReopenFails, AfterFailedReopen
<1>28. CASE RegionChanges
  BY <1>0, <1>28, TargetOfConfig DEF RegionChanges
<1>29. CASE RegionKept
  BY <1>0, <1>29 DEF RegionKept
<1>30. CASE OpenRegion
  BY <1>0, <1>30 DEF OpenRegion, CaptureOf
<1>31. CASE RegionFails
  BY <1>0, <1>31 DEF RegionFails
<1>32. CASE Frame
  BY <1>0, <1>32 DEF Frame
<1>33. CASE FileEnds
  BY <1>0, <1>33 DEF FileEnds, FallBack, GenAfterFallBack
<1>34. CASE NextEntry
  BY <1>0, <1>34 DEF NextEntry
<1>35. CASE NoEntry
  BY <1>0, <1>35 DEF NoEntry
<1>36. CASE CaptureDies
  BY <1>0, <1>36 DEF CaptureDies
<1>37. CASE Leave
  BY <1>0, <1>37 DEF Leave, Without
<1>38. CASE UNCHANGED vars
  BY <1>38, SameKeepsChosen
     DEF vars, choice, picture, shells, terminals, history
<1> QED BY <1>1, <1>2, <1>3, <1>4, <1>5, <1>6, <1>7, <1>8, <1>9, <1>10,
           <1>11, <1>12, <1>13, <1>14, <1>15, <1>16, <1>17, <1>18, <1>19,
           <1>20, <1>21, <1>22, <1>23, <1>24, <1>25, <1>26, <1>27, <1>28,
           <1>29, <1>30, <1>31, <1>32, <1>33, <1>34, <1>35, <1>36, <1>37,
           <1>38
     DEF Next, Worker, Opens, Switches, Streams

\* While frames flow and no choice is pending the headset sees what the app
\* says it does, but for a source that failed to open, a choice made while the
\* session opened, and a clip that failed at the start.
THEOREM ChoiceIsShown == Spec => []ShowsChoice
<1>1. Init => ChosenInv
  BY SourcesAssumption
     DEF Init, ChosenInv, OpeningChosen, SwitchChosen, StreamChosen, Described,
         Settled, Streaming, Opening, EarlyStages
<1>2. ChosenInv => ShowsChoice
  BY DEF ChosenInv, StreamChosen, Settled, Excused, ShowsChoice
<1> QED BY <1>1, <1>2, InitSourceInv, NextSourceInv, StepChosenInv, PTL DEF Spec
==============================================================================
