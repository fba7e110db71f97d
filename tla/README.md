# A formal model of bsdrX

bsdrX is the host side of a remote desktop for the Bigscreen headset app: it
answers the headset's discovery, pairs with it over a small HTTP control
server, captures and encodes the desktop, streams it over the LAN, injects the
headset's input, and can send the same encoded video to a Bigscreen relay in
the cloud ("Internet share"). This directory holds TLA+ models of the parts
where threads, timers and requests meet, TLC runs over small instances, and
TLAPS proofs for every value of the constants.

Paths below are relative to the repository root; `agent.c` stands for
`src/agent.c`, and so on. `PROJECT.json` lists, definition by definition, the
lines each module translates, the runs, the hazards with the properties aimed at
them, and the theorems.

## 1. The system

### Threads

| Thread | Started by | What it does |
|---|---|---|
| main loop | `bsdr_agent_run` | every 200 ms or so: apply the operator's selection and disconnect, reap a finished worker, let timers lapse, expire a silent headset, run `bsdr_app_cloud_tick` |
| control connections | `control.c` accept loop, one detached thread each | parse one request, change the pairing record under the control lock, release it, then run a callback (`cb_start`, `cb_stop`, `cb_unpair`, `cb_settings`) |
| session worker | `spawn_worker_locked` | one LAN session: `lan_live_main` captures, encodes, sends, feeds the relay |
| relay threads | `bsdr_cloud_stream_start` | video, audio and data sender of the Internet share |
| web and app window | `webui.c` | one thread: set wishes and flags in `bsdr_app`, which the main loop acts on; log in and out, join and stop the bot, change its mode, load plugins |
| input thread of a session | `lan_input_main` | decode the headset's input; clicks on the assistant's balloon |
| assistant's cycle | `voice.c`, one thread per click | listen, wait for Send, transcribe, let the model call tools |
| room audio | `botaudio.c` | receive the room, set per-speaker gains, tap audible speakers |
| hearing worker, room router | `botsense.c`, `roomcmd.c` | one worker each, fed by a bounded queue; the router's 20 s timers are detached threads |
| plugin loads | `plugin.c`, `plugstore.c` | on the web thread, or on the detached thread of a download |

They share `control.c`'s lock (pairing record), `agent_t.lock` (worker, stop
flag, input context, timers), `bsdr_app.lock` (wishes, share, selection,
accounts, bot), the relay's `flock` (ring of frames), and the locks of the tool
registry, of the plugin host, of the media effects, of the hearing and of the
room router. Of these only the plugin host's is held across a wait for another
thread, and none across a network request, which is what makes the handovers
interesting.

### Components

| Component | State | Operations | Talks to | Hard behaviour | What makes it correct |
|---|---|---|---|---|---|
| Control server (`control.c`) | device, `have_device`, `revoked_pairing_id`, failure counter and deadline of `/pair` | `/pair`, `/heartbeat`, `/start`, `/stop`, `/settings`, `/unpair`, forced unpair, expiry | session supervisor by callbacks after its lock is released | many connections; old ids; clock | guesses are rate-limited; only the newest id works; a forgotten headset gets 410; one headset at a time |
| LAN session supervisor (`agent.c`) | `worker`, `stop`, `worker_done`, `remote_ip`, warm timer, input context | start, stop, unpair, selection, disconnect, reap, warm resume, expiry | app, control server, worker | three kinds of threads join and spawn the same worker | one worker; joined once; teardown ends; no pointer into a dead stack |
| Live source switching (`lan_live_main`) | capture and its settings, terminal, clip being played | follow the operator's choice, reopen for a setting, advance a playlist, fall back to the desktop | app, capture, terminals, audio | a choice arrives while a source opens; opening fails; a shell exits; old and new source exist together | the last choice is shown; no terminal is left behind or rendered from after it was stopped; a stop ends the worker |
| Coupled relay queue (`cloud_stream.c`) | ring of `VQ` slots, `active`, `stop`, the sender's scratch block | feed, take, send, pause, resume, stop | LAN loop feeds, app tick toggles | buffer swap outside the lock; lost signals; overflow | a FIFO that drops only as its rule says; a block has one owner; a pause is quiet; stop ends |
| Internet share reconcile (`app.c`) | wish, login, pairing, grace timer, stream pointer, starting slot | the tick; toggle; grace; disconnect; dead capture | relay, cloud, supervisor | a stream pointer borrowed over a blocking request; a stream that starts after it is no longer wanted | a stream has one owner; share goes quiet when off, comes up when wanted |
| Decoupled relay, sticky ports (`cloud_stream.c`) | own capture and encoder, source-port tuple on disk | start threads, bind, save the tuple | relay | three threads create one lock lazily | one tuple, saved whole |
| Presence, login, tokens (`app.c`, `cloud.c`) | account, tokens, presence socket, session file | login, restore, logout, renew, reopen | Bigscreen, share, bot | logout against a renewal, a reopening or a save on another thread; a restart from the file | a logout lasts; no socket is lost; a dropped one comes back while sharing is wanted |
| Bot account, follow-me (`app.c`, `botroom.c`) | second account, joined room, what it runs there | login, stop, start, join, leave, loopback, follow tick | Bigscreen, room audio | three kinds of threads join and leave; a tick that decides on a room it read before a poll | a stopped bot is quiet; nothing it started is lost; it ends up where the operator stays |
| Room router (`roomcmd.c`), access lists, roster (`acl.c`, `roster.c`) | the armed check, the armed translation, queue, who is kept audible | arm, tap, worker, timer | assistant's tools, room audio, model | a timer against an answer; a check replaced by another | one verdict per check; every check ends; strangers are silenced again |
| Tool registry, plugins (`toolregistry.c`, `plugin.c`, `mediafx.c`) | tables of tools, services, effects, modes; loaded plugins | load, unload, reload, register, invoke, change of mode | assistant, hearing, media threads | a tool is called after the lock was dropped; an unload under way | no table and no thread in unmapped code; dependencies first; the selected mode hears |
| Bot senses (`botsense.c`) | queue of utterances, callback | tap, worker, set callback | room audio, plugin | clearing the callback waits for the call in flight | no call after clearing returned, and the wait ends |
| Assistant (`voice.c`, `llm.c`, `tts.c`) | state of the cycle, flags of the clicks, rounds and tool calls | trigger, confirm, stop, listen, work, free | speech and model services, tools | clicks on one thread against phases on another, flags without a lock | only what was sent runs; a stop stops; a cycle ends |
| Microphone (`micsniff.c`, `micsub.c`, micrelay) | subscription, decoder | subscribe, renew, drop | headset or router | lost renewals | subscription is renewed or ends |
| Discovery, transports, media, input, desktop helpers, stores, web UI, Android | mostly none or a device | I/O | everything | platform I/O | out of a model's reach, see section 7 |

## 2. The modules

```
  FrameFifo <--implements-- CloudQueue      MCCloudQueue      CloudQueue_proofs
  Pairing   <--implements-- ControlServer   MCControlServer   ControlServer_proofs
     ^---------uses-------- LanSession      MCLanSession      LanSession_proofs
                            CloudShare                        CloudShare_proofs
                            LiveSource                        LiveSource_proofs
                            HostAccount                       HostAccount_proofs
                            BotRoom         MCBotRoom         Bot_proofs
                            PluginHost      MCPluginHost      PluginHost_proofs
                            RoomCheck                         Bot_proofs
                            Assistant                         Bot_proofs
```

One action is what a thread does under one hold of a lock, or in one call that
takes the lock itself; everything between two holds is an interleaving point.

**`CloudQueue`** - the relay ring. `FeedCheck` and `FeedLocked` are
`bsdr_cloud_stream_feed_video` before and under `flock`; `SenderTop` ..
`SenderSend` are the loop of `cloud_video_main`; `SetActive` and `Stop` come from
the app's tick. Memory is explicit: `buf` maps slots to heap blocks, `mem` gives
the bytes of a block, so a swap that forgets one side shows. `realloc` may fail
(`TargetBlock`). `active` is read without the lock where the code does so.
A frame is its number and its keyframe flag.

**`FrameFifo`** - what the relay promises: a bounded FIFO of access units that may
refuse a unit, drop the oldest for a newer one, be flushed while paused, and
otherwise delivers in order, each unit at most once (`InOrder`).

**`ControlServer`** - `handle_request`, one action per outcome of a request, plus
`ForceUnpair` and `ExpireStale` of the main loop, with ids numbered in the order
they are minted (the code draws them at random; a number stands for its
freshness) and a clock in seconds. `wrong`, `since`, `lockouts` are history.

**`Pairing`** - the registry `ControlServer` implements and the session is driven
by: pair, share, change settings, stop, forget.

**`LanSession`** - `cb_start`, `cb_stop`, `cb_unpair`, `cb_settings`, the stages of
the main loop and the life of a session worker, with the fields of `bsdr_app` they
are coupled to. A thread's record holds its stage and its locals: the worker it
took out to join, the input context it copied, the choice it
has read. An operator's choice goes from `MainSelects` (its generation) over
`MainReadsChoice` (`bsdr_app.lock`) to `MainCompares` (`agent_t.lock`), and a headset that
discovery uses by itself from `QuestSeen` to `QuestUsed`. The stop flag is one flag for all
workers, as in `agent_t`. `wpc` is the stage of each worker: opening, live,
stopped or died, ending, gone.

**`CloudShare`** - `cloud_try_start` in its stages (decide, pause, give up, borrow,
`GET /rooms`, resume, claim, start, adopt or discard) against the setters of the
wish, login and logout, pairing, the grace timer, the disconnect and the report
of a dead capture. Streams are heap objects with a relay tuple; `up` are those
that exist. `RoomChanges` stands for Bigscreen's server and is external.

**`LiveSource`** - one session worker, `lan_live_main` from the moment it is
spawned. `pc` is where it stands; opening a capture or a terminal is a stage of
its own, since it takes time and may fail, and `Request` (a choice of the operator),
`Stop` and `ShellExits` come in between. `cfg` and `ncfg` are the two
`bsdr_capture_config` of the code, reduced to what decides the source: a file, a
camera, a terminal, in the order in which `bsdr_capture_open` looks at them
(`Target`). `FallBack` is the worker's own `bsdr_app_set_source("desktop")`, which
overwrites whatever was chosen meanwhile. Reopenings for several settings in one
iteration follow the same pattern one after the other and are taken as one, and
the entries of a playlist are not told apart. `missed` and `refused` are history.

**`HostAccount`** - the operator's account. `Login` .. `LogoutCloses` are the web
thread, `Renew` .. `ReopenDiscards` are `app_renew_token` and `presence_reopen` on
any thread. `Ticks` .. `RoomsAnswer` are the main loop's `cloud_try_start`, as far as the
account sees it: it returns at once unless sharing is wanted (`internet_sharing`, which
`WishesShare` sets at any time and a logout clears) and the account is logged in; only
then does it look after the presence (`Ensure`, `EnsureReturns`) and ask for the rooms.
A token stands for the account it was issued to. The session file is explicit: `SaveOpens` empties it,
`SavePrints` reads the token without the lock, `SaveCloses` writes it, and a file
that was removed in between has lost its name (`linked`). `Restart` may
happen at any point and leaves only the file, from which `RestoreReads` ..
`Restored` log in; the web UI is served before that. A socket is a heap object
with a keepalive thread, which may end at any time (`Drop`); `presence_ensure`
looks at one it does not hold, and one that is freed by then may answer
anything (`Freed`).

**`BotRoom`** - the second account and its room. The stages of a join, of a leave
and of a stop are those between two holds of `a->lock`; `media` is what the app
holds of them, `lost` what runs with nobody to stop it. The producer and the
avatar are replaced together and are one thing here. Requests come from the
web thread and from the assistant's tools; `FollowReads` .. `FollowJoins` are the
follow tick, whose decision mixes a room read before its poll with a flag read
after it (`Settled`). A failed `GET /rooms` and an operator who is nowhere are the
same. `overlaps` is history: whether calls that the properties exempt ran together.

**`PluginHost`** - `plugins_unload_locked`, step by step, and
`plugins_load_locked` with its passes over the candidates, under `g_lock`, against
the threads that call into plugins without it: the hearing worker and the tools it
invokes, the gain policy, the media effects, and `bsdr_app_bot_set_mode`, which
takes plugin callbacks out under the lock and calls them afterwards. A reference
in a table is a plugin with the number of its load, so a stale one is seen. A
plugin itself is what `include/bsdr/plugin.h` says of one. `late` is history: an
unload began while a mode change was under way.

**`RoomCheck`** - the room router: the two tools that arm it (`Boosts`, then
`Arms...`, as the app's lock and the router's are taken one after the other), the
audio thread, which every 0.3 s takes over who is audible and taps those, the
worker and the timers. A check is numbered, so that verdicts can be counted. The
owner is always in the room, slots of the voice detection and the bans that
follow a verdict are left out.

**`Assistant`** - one cycle behind the balloon and the input thread that clicks:
`Looks` is the test of the state, the action named after the button is what
follows it. The model's answers are a number of tool calls; text, screenshots and
the compaction of the conversation are left out. That a call is tested for abort and
begun is one step, so that a call begins where its test is (`llm.c:441`): a stop between the
test and the call (446) is too late for that call, and taken as coming after it. Dictation
has no caller in the program.

`LanSession` keeps the share as one bit (a stream exists), with the wish to share
set by anybody at any time (`WishesShare`: the web UI's switch, and the option to
share on pairing, whose effect `bsdr_app_set_paired` adds after it released the lock), because its questions
are about who ends it; `CloudShare` keeps the worker as one step (its capture
died) because its questions are about the stream. In the same way the worker that `LanSession` follows from
spawn to join is opened up in `LiveSource`, which in turn knows of the session
only that it is started and stopped. `CloudShare` has login and logout as far as
the tick asks for them, `HostAccount` opens them up, and `BotRoom` knows of the host
account only whether it is logged in. `PluginHost` and `RoomCheck` share the tap:
a plugin that hears replaces the router altogether.

## 3. The runs

| Run | Module | What it asks | Bounds |
|---|---|---|---|
| `cloud_queue` | `MCCloudQueue` | memory ownership, the frame on the wire is intact, quiet after a pause, refinement of `FrameFifo`, a stop is joined, no frame stays in the ring | `VQ = 3`: two frames fill it, a third overflows; four frames wrap both indices; four blocks are one per slot and one for the sender, the most that can be in use; two toggles are a pause and a resume, in either phase of the sender |
| `control` | `MCControlServer` | rate of guesses, revocation, 410, refinement of `Pairing` | two headsets, three ids: a previous, a current and an older one; two codes to a cooldown of two seconds and six seconds, so that the guard locks three times |
| `lan_session` | `MCLanSession` | joined once, one worker, input context alive, grace only while unpaired | one connection thread and the main loop interleave; two workers, as a third needs two overlaps; one click of the operator; warm resume on |
| `lan_live` | `MCLanSession` | a teardown ends | as above without warm resume and clicks |
| `cloud_share` | `CloudShare` | one owner per stream; share goes quiet; share comes up | two relays, so that it moves; two streams: an old one being stopped and its successor; one worker besides the main loop |
| `live_source` | `LiveSource` | terminals are owned; the headset sees what was chosen; a stop ends the worker; a dead shell is left | one camera, a good and a broken file, a playlist: one source of each kind that the code treats differently; two choices, so that one can arrive while the other is carried out, after any initial source; two terminals: the old and the new one, the most that exist at once |
| `live_source_clip` | `LiveSource` | the disagreement of section 4 | as `live_source` |
| `plugin_host` | `MCPluginHost` | tables and calls point at mapped code; dependencies first; a load loads all it can; the selected mode hears; a reload ends | two bots that register one tool name, so that the second is refused and has its turn after an unload, and one plugin with effects; a chain of dependencies, a cycle and two dependents of one; `PlgMax = 2` of three plugins, so that the table fills; a queue of one; two loads, the second of which is a reload |
| `host_account` | `HostAccount` | a logout lasts; no socket is lost; a dropped socket comes back while the account stays logged in and sharing stays wanted | one account, since a token of it can already be older than a logout; three sockets: the app's, one being opened and one being closed; the web thread and the main loop, as the web thread joins the bot too; a restart at any point |
| `bot_room` | `MCBotRoom` | a stopped bot is quiet; what it started is owned; it follows the operator | starts from a restored session with both settings on; two rooms and one move; two agreeing polls; two requests, so that a join can meet a leave, a stop or another join |
| `room_check` | `RoomCheck` | one verdict per check; a check ends; strangers are silenced again | two checks, so that the second replaces the first; two strangers, one checked and one tapped beside; a queue of one; one dropped utterance is overload |
| `assistant` | `Assistant` | only what was sent runs; a stop stops; a cycle ends | three rounds of the model, up to two tool calls in each: a stop can come before, between and after calls |

Type invariants are proved (section 5), not run. Symmetry is used in `control` and
`lan_session`, over headsets and workers, none of which the code orders.

`CHECK_DEADLOCK FALSE`: in the `lan_*` runs two workers are a bound on how many
exist at once, and where sessions overlap both may be in use while every thread
wants another; with `MaxClicks` spent and no headset the system idles. In
`bot_room` requests and moves are bounded, and a bot that is stopped idles once they are
spent. In `assistant` a freed assistant stops. In the
other runs deadlock is checked.

**Bounds in guards.** `MaxFrames`, `MaxToggles`, `MaxTime`, `MaxIds`, `MaxClicks`,
`MaxRequests`, `MaxMoves`, `MaxLoads`, `MaxChecks`, `MaxTools`
limit counters that the program does not limit. `Workers`, `Streams`, `Sockets` and
`Backends` are the objects that may exist together; they are reused once they
are gone. `VQ`, `PlgMax`, `QueueMax`, `Threshold`, `FollowConfirm`, `MaxRounds`
are sizes of the program, taken small enough to be reached.

**Fairness.** Of operators, headsets, shells, clips and Bigscreen nothing is assumed
but what is said here.

* `CloudQueue`: weak fairness of the sender thread, which
  waits at most 100 ms (`WaitTimeout` is the end of that wait), and of the feeder
  once it is at the lock; nothing otherwise of the feeder or of the
  toggles. Frames are numbered and bounded, so "the ring gets empty" says that
  each frame leaves it.
* `LanSession`: a join returns once its worker has ended; a worker leaves its loop once
  `stop` is set, as `lan_live_main` tests it in every iteration, and goes on to its end; a
  worker that nobody stopped may run for ever. Nothing else is needed.
* `CloudShare`: the main loop goes through its tick;
  joins end; and, strongly, a `GET /rooms` and a start that are tried again and
  again do not fail for ever (the code retries them in each tick; with a server
  that always fails no share can come up).
* `LiveSource`: the worker
  goes on, and opening a desktop or a camera, which the code retries, does not
  fail for ever (`SF` of `OpenLive`, `OpenNew`; a source that can never be opened, a
  member of `Broken`, never makes these actions possible).
* `PluginHost`: strongly, a thread that wants `g_lock` gets it in the end (unload and
  load), and a call of the hearing worker returns, although other calls interrupt it;
  weakly, a tool call and a frame of media end, which is asked of plugin code.
* `HostAccount`: the main loop goes on and time passes; strongly, it comes back to its tick,
  and an opening of the socket that is retried for ever succeeds. What the tick then does is up
  to its own tests: without the wish to share it returns before it looks at the socket
  (`app.c:2514`), so `PresenceReturns` is claimed only while sharing stays wanted.
* `BotRoom`: a call that has begun goes on; the follow tick polls; strongly, the main
  loop's `GET /rooms` finds the room and the join it retries is granted.
* `RoomCheck`: a tool that has begun to arm goes on; the audio thread polls; the worker
  works; each timer fires.
* `Assistant`: the input thread finishes a click, the cycle goes on (a request ends, with or
  without an answer), and the thread that frees the assistant waits it out. Nobody has to click.

**What a property's failure looks like.** Every property of a passing run has a
mutant in `PROJECT.json`: an operator of the model changed the way a slip in the
code would change it (a flag not reset, a worker not detached before it is
joined, a paused stream kept although its relay moved), defined next to the original and named
`<Original>_<Slip>`. TLC finds the property violated in each.

## 4. Where code and comments disagree

For each there is a configuration that checks what a comment says and for which TLC
finds an execution. `live_source_clip` is one of the runs; the others are reproduced with
`tlc -config <name>.cfg <module>`.

* **`live_source_clip` (`LiveSource`) - a broken clip keeps the screen black.** `agent.c:689-690`
  says that a file that cannot be opened or decoded falls back to the desktop
  rather than black-screening the headset. When a session starts with such a clip,
  the source in the app becomes the desktop, but `cfg.input_file` keeps the clip (702), and
  the desktop is opened from the same `cfg` (797-798), in which a file goes
  before the screen (`capture.c:821`): the worker tries the clip again and again
  until it is stopped. The switch during a session does clear the field (865).
* **`lan_encoder` (`MCLanSession`) - two encoders.** `cloud_stream.c:84-86` says that the LAN path
  owns the single encoder and that a second one crashed the headset. `cb_start`
  and the main loop's selection each do: tear down, release `a->lock`, call the
  app, take the lock again and spawn. When they overlap (a newly discovered
  headset is selected at once, and its `/start` arrives) both spawn, and the
  first worker is no longer reachable from `a->worker`, so nothing joins it.
* **`lan_grace` (`MCLanSession`) - no grace on a heartbeat gap.** `include/bsdr/app.h:482-485` and
  `agent.c:1945-1946` say that a gap in the heartbeats holds the relay on the grace
  timer. The expiry tears the worker down, and a worker that ends calls
  `bsdr_app_lan_capture_dead` (`agent.c:1191`), which finalizes the unpairing at
  once if the timer is armed.
* **`lan_reaccept` (`MCLanSession`) - a write to a stack frame that is gone.** `agent.c:1184`
  withdraws the input context because it is about to go out of scope; `cb_start`
  reads the pointer under the lock (1253) and writes through it afterwards (1261).
* **`cloud_share_borrow` (`CloudShare`) - a borrowed stream that is freed.** `app.c:2504` borrows
  the stream pointer in the tick on the ground that it is stopped only after
  claiming it, and `app.c:2497` calls the tick the only place that stops
  streams. A LAN worker with a dead capture stops and frees it too, while the
  tick is in `GET /rooms` with the pointer in a local.
* **`bot_leave` (`BotRoom`) - a leave that does not last.** `webui.c:1055-1059` switches
  auto-follow off before it leaves, so that the tick does not re-join the bot at once. A tick
  that has read the flag and is past its poll joins all the same.
* **`room_check_boost` (`RoomCheck`) - a check that cannot hear.** `include/bsdr/app.h` keeps the
  speaker under check audible by `mic_check_ssrc`. The timer of a check clears that field (`roomcmd.c:183`)
  after it released the router's lock: if a second check has been set up in between, it
  clears the speaker of that one, who is then silenced while being checked.
* **`plugin_policy` (`MCPluginHost`) - a call into an unloaded plugin.** `plugin.c:621-623` clears
  the modes before `dlclose` so that nothing calls into an unloaded plugin. The audio thread
  reads the gain policy under the lock (`app.c:2227`) and calls it afterwards; clearing it
  does not wait for that call.

The safety properties of the passing runs hold beside these. `LanSession` keeps
a history flag, `overlapped`, that is set when two threads were changing the
session at once; `OneWorkerUnlessOverlap` and `TeardownEnds` are claimed
only while it is false, and `lan_encoder` shows why that is needed. `LiveSource`'s
`ShowsChoice` has two exemptions, which are the executions TLC finds
without them: a choice that arrives while the session opens is passed over, since
the generation is read only before the loop (`missed`, `agent.c:849`), and a clip left in `cfg`
as above (`StaleClip`). `BotRoom`'s `ProducersKept` and `QuietWhenStopped` exempt calls that ran together
(`overlaps`): two joins at once leave a producer nobody stops, and a join that is under way when
the bot is stopped leaves its media running. `PluginHost` exempts an unload and
a change of mode that overlap (`late`): the change may register the plugin's hearing again after the
unload has withdrawn it.

Other things met while modelling, which no property is about:

* `refresh_roster` (`app.c:1066`) and with it the automatic checks of newcomers have no
  caller, although `README.md:592-596` and `include/bsdr/app.h:540` describe them.
* A second login while logged in overwrites `cloud_ws` (`app.c:1558`); the former socket
  keeps its thread until the program ends. `HostAccount!LoginConnects` leaves such a socket out
  from there on, and `SocketsKept` is about the others.
* `bsdr_app_restore_session` reads the session file before a logout that the web thread may carry
  out meanwhile, and logs in afterwards; `LogoutLasts` exempts a logout during the restore.
* A renewal that is in flight across a logout and a login as somebody else compares only
  whether there is a token, and writes the old account's (`app.c:2406`).
* A join that fails clears `bot_joined` while the media of the room before it run on; a second
  login of the bot that fails keeps its media too.
* The session file is truncated in place (`app.c:1512`): a restart in the middle leaves
  none, and the operator has to log in again.
* The deadline of a warm resume outlives the worker it was set for (`agent.c:1929`), and
  `a->video_file` is cleared before the switch has succeeded (`agent.c:904`).
* When a playlist moves on, `cfg.input_file` points at a local of the loop that tries the
  entries (`agent.c:1115-1117`), and is read after its scope when a setting
  reopens the capture; the switch takes care to use stable storage (929).
* `bsdr_control_stop` frees the server (`control.c:434`) while detached connection threads may
  still be in a request; the 20 s timers of checks (`roomcmd.c:178`) outlive a shutdown too.
* The ninth speaker of a room takes over slot 0 of the voice detection (`roomcmd.c:104`).

## 5. The proofs

All proofs are for every value of the constants that satisfies the named
assumptions of the module; those only say that null values are not members,
that numbers are naturals, that a ring has at least two slots.

**`CloudQueue_proofs`.** `RingCorrect`: blocks have one owner, slots describe what
they hold, the frame on the wire is intact. The inductive invariant joins the
type invariant with these three, as each needs the others: that an overwritten
slot does not hit the frame being sent needs exclusivity; that exclusivity
survives the swap in `SenderTake` needs that the slot taken is occupied and has a
block. Wrap-around of `head` and `tail` is isolated in lemmas about `Succ` and
`Occupied`. `PauseIsQuiet`: at most one frame goes out after a pause; the
strengthening says at which stages of the sender a frame may still be on its way.

`ImplementsFifo` is the refinement. The mapping reads the ring as the sequence of the slots from
`tail` to `head`; `Count` and `Place` say how many there are and where the i-th lies, and
the lemmas from `CountValue` to `PlaceOccupied` give the arithmetic of the wrap-around. On
them rest one lemma per kind of change (`TakeQueue`, `StoreQueue`, `DropQueue`, and those named
`Kept...`): what it does to the sequence. Each action is then a step of `FrameFifo` or
a stutter. Two invariants are needed: a unit that is being fed is newer than all
those in the ring and all those delivered (`OfferInv`), and the abstract history agrees with the
stage of the sender (`DeliveredInv`). `DeliversInOrder` draws the conclusion for a
viewer: what was delivered followed by what waits is a line of rising
numbers (`Line`), so that no unit is sent twice or after a later one. It is proved of
`FrameFifo` alone and carried over by the refinement; the proof showed that `FrameFifo` used
to allow a delivered unit to be stored once more, which `Accept` now excludes.
`SleepsWhenEmpty`: the sender waits for its signal on an empty ring only, which is the safety half of `FramesLeave`.

**`ControlServer_proofs`.** `PairIsThrottled`: more than `k * MaxFails` wrong codes
take `k` cooldowns. The invariant (`ThrottleInv`) ties the counter to the history: `wrong =
MaxFails * lockouts + pair_fails`, the deadline of the last lockout is no
earlier than `since + lockouts * Cooldown`, and it has passed once a further code was compared. `ForgottenStaysForgotten` (`IdsInv`): the device's id is the
last one minted, and the revoked one is that same id once the device is forgotten
and the id before it while it is not; `PreviousGets410` follows from the same. `ImplementsPairing`:
initial states and every step map to `Pairing`.

**`LanSession_proofs`.** `SessionInvariant` proves `SessionInv`: type correctness, `JoinedOnce`,
`InputCtxLive` and `GraceOnlyUnpaired`, with two conjuncts that make them inductive.
`TakenInv`: only a thread that is joining holds a worker. `HandoverInv`: unless
threads overlapped, at most one thread is between its teardown and its spawn,
meanwhile there is no current worker, no worker is alive once it has
joined, and a live worker is the current one or is being joined. From the
invariant follow `SessionTypeCorrect`, `WorkersJoinedOnce`,
`OneWorkerHandedOver`, `InputContextIsLive` and `GraceEndsWithPairing`. The proof
goes action by action, with one lemma per action.

**`CloudShare_proofs`.** `StreamsOwned`: a stream that exists belongs to the
app, to the tick that started it, or to one thread that is stopping it.
`ShareInv` adds to `TypeOK`, which ties the start slot (`cloud_starting`) to the
stages between claim and adoption, and to `OneOwner` that the main loop begins a
tick only after it has stopped what it took out, and that the tick holds
no borrowed stream when it claims the slot; without these the stream it starts
could be confused with one that is being stopped. `ShareTypeCorrect` is its first part.

**`LiveSource_proofs`.** `TerminalsAreOwned`: the terminals that exist are the
worker's and the one it switches to, and the capture renders from none that was
stopped. `SourceInv` adds to `TypeOK` and the ownership (`HeldUp`) which
terminal `cfg`, `ncfg` and the capture may name at each stage (`HeldConfig`,
`HeldCapture`), because every reopening copies the settings, and that before the loop
there is none (`HeldEarly`). The steps that only move the worker
on are proved together (`MovesKeep`). `SourceTypeCorrect` says that the loop
never uses a capture that is closed. `ChoiceIsShown`: once the worker has followed every change, the
headset sees what the app says. `ChosenInv` follows the choice through the stages in which it
is carried: the settings the session opens with (`OpeningChosen`), those of a switch
(`SwitchChosen`), those of the capture in use (`StreamChosen`), and what the capture was
opened from (`Described`). At each, either the app's source is the one carried, or a newer choice is
pending, or the property's exemption already holds.

**`PluginHost_proofs`.** One invariant per question, each step lemma citing the ones before.
`OrderInv`: the table holds each mapped plugin once, after what it depends on
(`DependenciesUp`). `TableInv`: each table is empty of plugins from the step of the unload
that clears it on, and nothing names the plugin that goes next, so that `TablesAreLive` survives
`dlclose`. `CallInv`: past the wait for the callback nobody is in a plugin's hearing, and a tool is
only invoked from there (`CallsAreMapped`). `ModeInv`: outside an unload the
hearing belongs to the registered plugin of the selected mode (`HearingFollowsMode`). `LoadInv`: a
plugin that was skipped lacks a dependency, failed, or found the table full, and that stays so as long
as the load lasts; with it what is loaded is the least set closed under
dependencies (`LoadIsComplete`).

**`HostAccount_proofs`.** `LogoutIsFinal`. `LogoutInv`: after a logout nobody is logging in, and what a
thread that saves the session has read, and will leave in a file that still has its name, is no
token. `SocketsHaveOwners`. `SocketInv`: the app's socket is open, a thread that closes
one holds it alone, and every other open socket is held by such a thread.

**`Bot_proofs`**, in three parts, for the bot's account, the router and the assistant. It
extends all three modules, which is why the last two name their specifications
`RouterSpec` and `VoiceSpec`.

* `BotRoom`. `StoppedIsQuiet`. `QuietInv`: a bot that a stop has reached without overlap is
  logged out, and no thread is past the test of that. `ProducersOwned`. `KeptInv`: until two
  joins overlap at most one thread is entering, and when it stores its producer the app holds none.
* `RoomCheck`. `ChecksDecidedOnce`: a check gets one verdict. `VerdictInv`: a check that is armed
  has none, its number is used once, and what the worker decides on is no longer armed.
  `NobodyForgotten`: an armed check has a timer that has yet to fire (`CheckHasTimeout`), and
  whoever is boosted is under check or to be translated, about to be, or about to be
  silenced (`BoostHasOwner`).
  This is what `CheckEnds` and `StrangersSilenced` rest on; that the timers and threads
  then act is fairness and left to TLC. `RouterTypesHold`.
* `Assistant`. `RunsSentOnly`: nothing is transcribed and no tool runs for a
  capture that was not sent (`SentInv`, by the stages of the cycle and of a click under way).
  `StopIsFinal`: no tool call passes the test of the abort flag after a stop (`StopInv`). `FreedUnused`: a click never has to
  join a cycle that runs, and once the assistant is freed there is neither a cycle nor a click (`FreeInv`).

Only model-checked: the liveness properties (`StopJoins`, `FramesLeave`,
`TeardownEnds`, `ShareGoesQuiet`, `ShareComesUp`, `StopEnds`, `DeadShellLeaves`, `ReloadEnds`,
`PresenceReturns`, `FollowCatchesUp`, `CheckEnds`, `StrangersSilenced`, `CycleEnds`), since fairness and `ENABLED`
are outside the prover, and the executions of section 4. Every safety property, action property and
refinement that a passing run checks is stated by a theorem.

## 6. Plan

In this order; later modules reuse the conventions above.

1. `LiveInput`: the input thread, which forwards to `a->term` while a switch stops
   that terminal (`agent.c:558`), and the audio thread that follows the source; and, in
   `LanSession`, that the warm deadline ends only the worker it was armed for.
2. `StickyPorts` and `RelaySender`: the decoupled relay, its lazily created lock and the tuple
   on disk.
3. `Shutdown`: the order in which `bsdr_agent_run` stops its servers against
   detached connections.
4. `Assistant` with `RoomCheck`: two users of the one static answer buffer of `llm.c:425`.
5. `RoomAccess`: grants, expiry, roster diff, as functions checked against a
   reference definition.
6. `MicRelay`: subscription leases under loss; the queue of spoken answers.

Proofs to add: what the other liveness properties rest on, as `NobodyForgotten` and
`SleepsWhenEmpty` do for three of them: that a torn-down worker is always held by a thread
that will join it (`TeardownEnds`), and that a stage a thread waits in always has somebody
who ends it (`ReloadEnds`, `CycleEnds`).

## 7. Not modelled

Formats (HTTP, JSON, RTP, the SCTP and DTLS handshakes of the vendored
libraries), pixels and samples, the platform back ends of capture, audio, input
and windows, drawing and terminal emulation, downloads into the stores, the Android
shell. They are I/O or data without control that other threads depend on;
`PROJECT.json` gives the reason for each. Of the components above, those in
section 6 are left for the modules named there. In the modelled ones:

* `ControlServer` leaves out the reading of requests and the stop of the server;
  `LanSession` the shutdown; `LiveSource` the input and audio threads; `CloudQueue` the decoupled
  threads; `CloudShare` presence and tokens, which are in `HostAccount`.
* `HostAccount` leaves out the formats of requests and of the WebSocket, and the fields that are only
  displayed.
* `BotRoom` leaves out the data channel (`botroom.c`), the change of avatar, the policy of the room,
  and the renewal of the bot's token, which has the shape of the host's.
* `PluginHost` leaves out the functions the host offers to plugins, their settings, HTTP
  routes and stores.
* `RoomCheck` leaves out the slots of the voice detection, bans and failures to allocate.
* `Assistant` leaves out texts, compaction, dictation and the speech queue.

Times are abstract: an armed timer may lapse at any later step, which includes
all real schedules.
