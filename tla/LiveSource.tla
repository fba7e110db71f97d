----------------------------- MODULE LiveSource -----------------------------
(***************************************************************************)
(* What a session worker captures (lan_live_main, src/src/agent.c).  The   *)
(* operator, or the headset's EXIT button, chooses a source in the app;    *)
(* the worker opens it, and while it streams it follows later choices      *)
(* make-before-break, reopens its capture when a setting changes, goes on  *)
(* in a playlist, and falls back to the desktop when a file or a shell     *)
(* ends.                                                                   *)
(*                                                                         *)
(* Opening a capture or a terminal takes time and may fail: its end is an  *)
(* action of its own, and choices arrive in between.  Settings (3D, face   *)
(* swap, encoder, loop, region) are not kept as state: one may have        *)
(* changed in any iteration.  The entries of a playlist are not told       *)
(* apart.                                                                  *)
(***************************************************************************)
EXTENDS Naturals

CONSTANTS
    Desktop, Terminal,  \* the sources there is one of
    Cameras,            \* webcams, single or stereo
    Files, Playlists,   \* single videos, and .txt files that list videos
    Broken,             \* clips that cannot be decoded
    Nothing,            \* no source
    Backends, NoBackend,\* terminal objects (bsdr_term)
    MaxRequests         \* bound: choices of the operator

Clips == Files \union Playlists
Sources == {Desktop, Terminal} \union Cameras \union Clips

ASSUME SourcesAssumption ==
    /\ Desktop # Terminal
    /\ {Desktop, Terminal} \intersect (Cameras \union Clips) = {}
    /\ Cameras \intersect Clips = {} /\ Files \intersect Playlists = {}
    /\ Broken \subseteq Clips
    /\ Nothing \notin Sources
ASSUME BackendsAssumption == NoBackend \notin Backends
ASSUME RequestsAssumption == MaxRequests \in Nat

VARIABLES
    source,             \* app.source with its path
    source_new,         \* source_gen has moved since the worker read it
    requests,           \* counts the choices
    stop,
    pc,                 \* where the worker is
    cfg, ncfg,          \* its capture settings, and those it switches to
    cap,                \* its capture
    playing,            \* filemode and pl_is: the clip it takes cap for
    video_file,         \* a->video_file
    term, nterm,        \* its terminal, and the one it switches to
    up, dead,           \* terminals that exist; those whose shell has exited
    refused,            \* history: the source that has failed to open
    missed              \* history: a choice came while the session opened

choice == <<source, source_new, requests>>
picture == <<cap, playing, video_file>>
shells == <<up, dead>>
terminals == <<term, nterm, shells>>
history == <<refused, missed>>
vars == <<choice, stop, pc, cfg, ncfg, picture, terminals, history>>

(***************************************************************************)
(* A bsdr_capture_config, and the capture that bsdr_capture_open makes of  *)
(* one: a file goes before a camera, and that before a terminal.           *)
(***************************************************************************)
Plain == [file |-> Nothing, cam |-> Nothing, term |-> NoBackend]

Target(c) ==
    CASE c.file # Nothing -> c.file
      [] c.file = Nothing /\ c.cam # Nothing -> c.cam
      [] c.file = Nothing /\ c.cam = Nothing ->
             IF c.term # NoBackend THEN Terminal ELSE Desktop

Closed == [source |-> Nothing, term |-> NoBackend]
CaptureOf(c) ==
    [source |-> Target(c),
     term |-> IF Target(c) = Terminal THEN c.term ELSE NoBackend]
CanOpen(c) == Target(c) \notin Broken

\* webcam_cfg: the camera, if one is the app's source by now.
WithCamera(c) ==
    [c EXCEPT !.cam = IF source \in Cameras THEN source ELSE Nothing]

Opening == {"clip", "terminal?", "start", "open terminal", "camera?",
            "try live", "open live", "enter"}
\* The stages that use the capture without a test.
Streaming == {"top", "choice", "new camera?", "new start", "new open", "adopt",
              "shell", "settings", "region", "open region", "frame"}
Stages == Opening \union Streaming \union {"reopen", "leave", "done"}

Init ==
    /\ source \in Sources /\ source_new = FALSE /\ requests = 0
    /\ stop = FALSE /\ pc = "done"
    /\ cfg = Plain /\ ncfg = Plain
    /\ cap = Closed /\ playing = Nothing /\ video_file = Nothing
    /\ term = NoBackend /\ nterm = NoBackend /\ up = {} /\ dead = {}
    /\ refused = Nothing /\ missed = FALSE

-----------------------------------------------------------------------------
(***************************************************************************)
(* The others.                                                             *)
(***************************************************************************)
\* bsdr_app_set_source, from the web UI or the EXIT button.
Request(s) ==
    /\ requests < MaxRequests
    /\ requests' = requests + 1
    /\ source' = s /\ source_new' = TRUE
    /\ missed' = (missed \/ pc \in Opening)
    /\ UNCHANGED <<stop, pc, cfg, ncfg, picture, terminals, refused>>

\* teardown_session.
Stop ==
    /\ ~stop /\ pc # "done"
    /\ stop' = TRUE
    /\ UNCHANGED <<choice, pc, cfg, ncfg, picture, terminals, history>>

\* The user leaves the shell, or its X server dies.
ShellExits(b) ==
    /\ b \in up \ dead
    /\ dead' = dead \union {b}
    /\ UNCHANGED <<choice, stop, pc, cfg, ncfg, picture, term, nterm, up, history>>

-----------------------------------------------------------------------------
GenAfterFallBack_Kept == source_new
GenAfterFallBack == TRUE

\* bsdr_app_set_source(a->app, "desktop", NULL), whatever was chosen meanwhile.
FallBack ==
    /\ source' = Desktop /\ source_new' = GenAfterFallBack
    /\ UNCHANGED requests

StartTerminal(b) ==
    /\ b \in Backends \ up
    /\ up' = up \union {b} /\ nterm' = b
    /\ UNCHANGED <<term, dead>>

\* bsdr_term_stop, of the terminals in bs.
Without(bs) == up' = up \ bs /\ dead' = dead \ bs

DropNewTerminal ==
    /\ Without({nterm}) /\ nterm' = NoBackend
    /\ UNCHANGED term

(***************************************************************************)
(* A session starts: spawn_worker_locked, then lan_live_main up to its     *)
(* loop.                                                                   *)
(***************************************************************************)
Spawn ==
    /\ pc = "done"
    /\ stop' = FALSE
    /\ cfg' = Plain /\ playing' = Nothing
    /\ video_file' = IF source \in Clips THEN source ELSE Nothing
    /\ pc' = IF source \in Clips THEN "clip" ELSE "terminal?"
    /\ refused' = Nothing /\ missed' = FALSE
    /\ UNCHANGED <<choice, ncfg, cap, terminals>>

OpenClip ==
    /\ pc = "clip"
    /\ cfg' = [cfg EXCEPT !.file = video_file]
    /\ CanOpen(cfg')
    /\ cap' = CaptureOf(cfg') /\ playing' = video_file
    /\ pc' = "enter"
    /\ UNCHANGED <<choice, stop, ncfg, video_file, terminals, history>>

\* A clip that is missing never gets into cfg, one that cannot be decoded
\* stays there.
ClipFails(readable) ==
    /\ pc = "clip"
    /\ cfg' = IF readable THEN [cfg EXCEPT !.file = video_file] ELSE cfg
    /\ FallBack
    /\ video_file' = Nothing
    /\ pc' = "terminal?"
    /\ UNCHANGED <<stop, ncfg, cap, playing, terminals, history>>

AsksTerminal ==
    /\ pc = "terminal?"
    /\ pc' = IF source = Terminal THEN "start" ELSE "camera?"
    /\ UNCHANGED <<choice, stop, cfg, ncfg, picture, terminals, history>>

StartsFirst(b) ==
    /\ pc = "start"
    /\ StartTerminal(b)
    /\ cfg' = [cfg EXCEPT !.term = b]
    /\ pc' = "open terminal"
    /\ UNCHANGED <<choice, stop, ncfg, picture, history>>

OpenTerminal ==
    /\ pc = "open terminal" /\ CanOpen(cfg)
    /\ cap' = CaptureOf(cfg)
    /\ term' = nterm /\ nterm' = NoBackend
    /\ pc' = "enter"
    /\ UNCHANGED <<choice, stop, cfg, ncfg, playing, video_file, shells, history>>

\* The terminal does not start, or its capture does not open.
TerminalFails ==
    /\ pc \in {"start", "open terminal"}
    /\ DropNewTerminal
    /\ cfg' = [cfg EXCEPT !.term = NoBackend]
    /\ FallBack
    /\ pc' = "camera?"
    /\ UNCHANGED <<stop, ncfg, picture, history>>

AsksCamera ==
    /\ pc = "camera?"
    /\ cfg' = WithCamera(cfg)
    /\ pc' = "try live"
    /\ UNCHANGED <<choice, stop, ncfg, picture, terminals, history>>

GivesUp_Never == FALSE
GivesUp == stop

\* Opening is tried until the session is stopped.
TriesLive ==
    /\ pc = "try live"
    /\ pc' = IF GivesUp THEN "done" ELSE "open live"
    /\ UNCHANGED <<choice, stop, cfg, ncfg, picture, terminals, history>>

OpenLive ==
    /\ pc = "open live" /\ CanOpen(cfg)
    /\ cap' = CaptureOf(cfg)
    /\ pc' = "enter"
    /\ UNCHANGED <<choice, stop, cfg, ncfg, playing, video_file, terminals, history>>

LiveFails ==
    /\ pc = "open live"
    /\ pc' = "try live"
    /\ UNCHANGED <<choice, stop, cfg, ncfg, picture, terminals, history>>

\* The input thread starts, and the generations are read.
EnterLoop ==
    /\ pc = "enter"
    /\ source_new' = FALSE
    /\ pc' = "top"
    /\ UNCHANGED <<source, requests, stop, cfg, ncfg, picture, terminals, history>>

-----------------------------------------------------------------------------
(***************************************************************************)
(* The head of an iteration, and the switch to another source.             *)
(***************************************************************************)
Iterates ==
    /\ pc = "top"
    /\ source_new' = IF stop THEN source_new ELSE FALSE
    /\ pc' = IF stop THEN "leave" ELSE IF source_new THEN "choice" ELSE "shell"
    /\ UNCHANGED <<source, requests, stop, cfg, ncfg, picture, terminals, history>>

Cleared_TerminalKept == [Plain EXCEPT !.term = cfg.term]
Cleared == Plain

\* For a live source a->video_file is gone before the switch has succeeded.
ReadsChoice ==
    /\ pc = "choice"
    /\ ncfg' = [Cleared EXCEPT !.file = IF source \in Clips THEN source ELSE Nothing]
    /\ pc' = CASE source = Terminal -> "new start"
               [] source \in Clips -> "new open"
               [] OTHER -> "new camera?"
    /\ video_file' = IF pc' = "new camera?" THEN Nothing ELSE video_file
    /\ UNCHANGED <<choice, stop, cfg, cap, playing, terminals, history>>

AsksNewCamera ==
    /\ pc = "new camera?"
    /\ ncfg' = WithCamera(ncfg)
    /\ pc' = "new open"
    /\ UNCHANGED <<choice, stop, cfg, picture, terminals, history>>

StartsNew(b) ==
    /\ pc = "new start"
    /\ StartTerminal(b)
    /\ ncfg' = [ncfg EXCEPT !.term = b]
    /\ pc' = "new open"
    /\ UNCHANGED <<choice, stop, cfg, picture, history>>

\* The new capture is open: the old one is closed.
OpenNew ==
    /\ pc = "new open" /\ CanOpen(ncfg)
    /\ cap' = CaptureOf(ncfg)
    /\ pc' = "adopt"
    /\ UNCHANGED <<choice, stop, cfg, ncfg, playing, video_file, terminals, history>>

\* The old terminal is stopped, and the rest follows the new capture.
Adopt ==
    /\ pc = "adopt"
    /\ Without({term})
    /\ term' = nterm /\ nterm' = NoBackend
    /\ cfg' = ncfg /\ playing' = ncfg.file /\ video_file' = ncfg.file
    /\ refused' = Nothing
    /\ pc' = "shell"
    /\ UNCHANGED <<choice, stop, ncfg, cap, missed>>

\* A terminal or a clip falls back to the desktop, for another source the
\* current one is kept.
SwitchFails ==
    /\ pc \in {"new start", "new open"}
    /\ IF pc = "new start" \/ nterm # NoBackend \/ ncfg.file # Nothing
         THEN FallBack /\ UNCHANGED refused
         ELSE refused' = Target(ncfg) /\ UNCHANGED choice
    /\ DropNewTerminal
    /\ pc' = "shell"
    /\ UNCHANGED <<stop, cfg, ncfg, picture, missed>>

ShellGone_Never == FALSE
ShellGone == term \in dead

ChecksShell ==
    /\ pc = "shell"
    /\ IF ShellGone THEN FallBack ELSE UNCHANGED choice
    /\ pc' = "settings"
    /\ UNCHANGED <<stop, cfg, ncfg, picture, terminals, history>>

-----------------------------------------------------------------------------
(***************************************************************************)
(* Settings.  The loop, 3D, face-swap and encoder blocks follow each other *)
(* and each closes the capture before it opens it anew: reopenings in one  *)
(* iteration are taken as one.                                             *)
(***************************************************************************)
ReopensInPlace ==
    /\ pc = "settings"
    /\ cap' = Closed
    /\ cfg' = IF playing = Nothing THEN WithCamera(cfg) ELSE cfg
    /\ pc' = "reopen"
    /\ UNCHANGED <<choice, stop, ncfg, playing, video_file, terminals, history>>

SettingsKept ==
    /\ pc = "settings"
    /\ pc' = "region"
    /\ UNCHANGED <<choice, stop, cfg, ncfg, picture, terminals, history>>

Reopened ==
    /\ pc = "reopen" /\ CanOpen(cfg)
    /\ cap' = CaptureOf(cfg)
    /\ pc' = "region"
    /\ UNCHANGED <<choice, stop, cfg, ncfg, playing, video_file, terminals, history>>

AfterFailedReopen == "leave"

ReopenFails ==
    /\ pc = "reopen"
    /\ pc' = AfterFailedReopen
    /\ UNCHANGED <<choice, stop, cfg, ncfg, picture, terminals, history>>

\* Another window: the new capture is opened before the old one is closed.
RegionChanges ==
    /\ pc = "region" /\ playing = Nothing
    /\ ncfg' = WithCamera(cfg)
    /\ pc' = "open region"
    /\ UNCHANGED <<choice, stop, cfg, picture, terminals, history>>

RegionKept ==
    /\ pc = "region"
    /\ pc' = "frame"
    /\ UNCHANGED <<choice, stop, cfg, ncfg, picture, terminals, history>>

OpenRegion ==
    /\ pc = "open region" /\ CanOpen(ncfg)
    /\ cap' = CaptureOf(ncfg) /\ cfg' = ncfg
    /\ pc' = "frame"
    /\ UNCHANGED <<choice, stop, ncfg, playing, video_file, terminals, history>>

RegionFails ==
    /\ pc = "open region"
    /\ pc' = "frame"
    /\ UNCHANGED <<choice, stop, cfg, ncfg, picture, terminals, history>>

-----------------------------------------------------------------------------
(***************************************************************************)
(* A frame.                                                                *)
(***************************************************************************)
Frame ==
    /\ pc = "frame"
    /\ pc' = "top"
    /\ UNCHANGED <<choice, stop, cfg, ncfg, picture, terminals, history>>

FileEnds ==
    /\ pc = "frame" /\ playing \in Files
    /\ FallBack
    /\ pc' = "top"
    /\ UNCHANGED <<stop, cfg, ncfg, picture, terminals, history>>

\* The entry of a playlist ends and the next that can be played is opened.
NextEntry ==
    /\ pc = "frame" /\ playing \in Playlists /\ video_file # Nothing
    /\ pc' = "top"
    /\ UNCHANGED <<choice, stop, cfg, ncfg, picture, terminals, history>>

\* No entry can be played, or a->video_file is gone.
NoEntry ==
    /\ pc = "frame" /\ playing \in Playlists
    /\ cap' = Closed
    /\ pc' = "leave"
    /\ UNCHANGED <<choice, stop, cfg, ncfg, playing, video_file, terminals, history>>

CaptureDies ==
    /\ pc = "frame" /\ playing = Nothing
    /\ pc' = "leave"
    /\ UNCHANGED <<choice, stop, cfg, ncfg, picture, terminals, history>>

\* The capture is closed, then the terminal it renders from stopped.
Leave ==
    /\ pc = "leave"
    /\ cap' = Closed
    /\ Without({term}) /\ term' = NoBackend
    /\ pc' = "done"
    /\ UNCHANGED <<choice, stop, cfg, ncfg, playing, video_file, nterm, history>>

-----------------------------------------------------------------------------
Opens ==
    \/ OpenClip \/ \E readable \in BOOLEAN : ClipFails(readable)
    \/ AsksTerminal \/ (\E b \in Backends : StartsFirst(b))
    \/ OpenTerminal \/ TerminalFails
    \/ AsksCamera \/ TriesLive \/ OpenLive \/ LiveFails \/ EnterLoop

Switches ==
    \/ Iterates \/ ReadsChoice \/ AsksNewCamera
    \/ (\E b \in Backends : StartsNew(b))
    \/ OpenNew \/ Adopt \/ SwitchFails \/ ChecksShell

Streams ==
    \/ ReopensInPlace \/ SettingsKept \/ Reopened \/ ReopenFails
    \/ RegionChanges \/ RegionKept \/ OpenRegion \/ RegionFails
    \/ Frame \/ FileEnds \/ NextEntry \/ NoEntry \/ CaptureDies \/ Leave

Worker == Opens \/ Switches \/ Streams

Next ==
    \/ \E s \in Sources : Request(s)
    \/ Stop \/ Spawn
    \/ \E b \in Backends : ShellExits(b)
    \/ Worker

Spec == Init /\ [][Next]_vars

\* The worker goes on, and openings end.  A source that can be opened does not
\* fail for ever.  Nothing is assumed of the operator, the shells and the clips.
FairSpec == Spec /\ WF_vars(Worker) /\ SF_vars(OpenLive) /\ SF_vars(OpenNew)

-----------------------------------------------------------------------------
(***************************************************************************)
(* Properties.                                                             *)
(***************************************************************************)
Configs == [file : Clips \union {Nothing}, cam : Cameras \union {Nothing},
            term : Backends \union {NoBackend}]

\* Types, and: wherever the loop uses the capture there is one, since the
\* code passes cap on without a test.
TypeOK ==
    /\ source \in Sources /\ source_new \in BOOLEAN /\ requests \in 0..MaxRequests
    /\ stop \in BOOLEAN /\ pc \in Stages
    /\ cfg \in Configs /\ ncfg \in Configs
    /\ cap \in [source : Sources \union {Nothing}, term : Backends \union {NoBackend}]
    /\ playing \in Clips \union {Nothing} /\ video_file \in Clips \union {Nothing}
    /\ term \in Backends \union {NoBackend} /\ nterm \in Backends \union {NoBackend}
    /\ up \subseteq Backends /\ dead \subseteq up
    /\ refused \in Sources \union {Nothing} /\ missed \in BOOLEAN
    /\ pc \in Streaming \union {"enter"} => cap.source # Nothing

\* A terminal that exists is the worker's, or the one it is switching to: no
\* shell is left behind, whatever fails or however the session ends.  And the
\* capture renders only from a terminal that has not been stopped: on a switch
\* the old capture is dropped before its terminal, and a new one never takes
\* the old terminal over.
TerminalsOwned ==
    /\ up = {term, nterm} \ {NoBackend}
    /\ cap.term \in up \union {NoBackend}

\* cfg still names a clip that could not be opened when the session started.
StaleClip == cfg.file # playing

\* While frames flow and no choice is pending, the headset sees the source the
\* app says it does, or the one that was kept because that source failed to
\* open.  Two cases are known in which it does not: a choice came while the
\* session was opening, which EnterLoop passes over, and a clip that failed to
\* open at the start.
ShowsChoice ==
    pc = "frame" /\ ~source_new =>
        cap.source = source \/ source = refused \/ missed \/ StaleClip

\* A teardown can join the worker: it ends when it is told to, wherever it is.
StopEnds == stop ~> pc = "done"

\* A shell that has exited does not stay on the screen: the worker leaves it,
\* however often the source it goes to fails to open.
DeadShellLeaves == \A b \in Backends : b \in dead ~> b \notin up

\* src/src/agent.c says of the source of a new session: "A file that can't be
\* opened/decoded falls back to the desktop rather than black-screening the
\* headset".  So a session that starts with a clip shows something in the end,
\* unless it is stopped.
ClipFallsBack == pc = "clip" ~> (cap.source # Nothing \/ stop)
=============================================================================
