------------------------------ MODULE RoomCheck ------------------------------
(***************************************************************************)
(* The in-room router of utterances (roomcmd.c): the owner's balloon arms  *)
(* an age check of a speaker or the translation of what one says next; the *)
(* speaker is made audible for it (app->mic_check_ssrc), the receiver taps *)
(* audible speakers, a queue hands their utterances to one worker, and a   *)
(* detached thread per check ends it after 20 s of silence.  Anybody may   *)
(* speak and be named at any time.                                         *)
(***************************************************************************)
EXTENDS Naturals, Sequences

CONSTANTS
    Owner,        \* the speaker who is always audible
    Strangers,    \* speakers who are silenced unless boosted
    Nobody,
    QueueMax,     \* RC_QUEUE_MAX
    Threshold,    \* overload_threshold
    MaxChecks     \* bound: age checks armed

People == {Owner} \union Strangers
Checks == 1 .. MaxChecks

ASSUME RouterAssumption ==
    /\ QueueMax \in Nat /\ Threshold \in Nat /\ MaxChecks \in Nat
    /\ Owner \notin Strangers /\ Nobody \notin People

VARIABLES
    \* bsdr_roomcmd, under rc->lock
    enabled,    \* the assistant is on: the tap listens
    mic,        \* mic_ssrc while mic_active: who is being checked
    xlate,      \* xlate_ssrc while xlate_active: whose words get translated
    queue,      \* the speakers of the utterances that wait
    \* bsdr_app and the audio receiver
    boost,      \* mic_check_ssrc: who is kept audible
    heard,      \* who the receiver mixes and taps: gain above zero
    \* threads
    tool,       \* the balloon's tool call: [at, who]
    worker,     \* the router's worker: [at, who, check]
    timer,      \* the timeout thread of each check: [at, who]
    \* history
    armed,      \* number of checks armed so far: the newest is this one
    running,    \* the check that mic stands for, 0 when there is none
    verdicts    \* how often each check was decided: welcomed or banned

router == <<enabled, mic, xlate, queue>>
tally == <<armed, running, verdicts>>
routerVars == <<router, boost, heard, tool, worker, timer, tally>>

RouterInit ==
    /\ enabled = FALSE /\ mic = Nobody /\ xlate = Nobody /\ queue = <<>>
    /\ boost = Nobody
    /\ heard = {Owner}
    /\ tool = [at |-> "idle", who |-> Nobody]
    /\ worker = [at |-> "idle", who |-> Nobody, check |-> 0]
    /\ timer = [k \in Checks |-> [at |-> "unborn", who |-> Nobody]]
    /\ armed = 0 /\ running = 0
    /\ verdicts = [k \in Checks |-> 0]

\* The main loop follows the computer-control switch.
SetEnabled(on) ==
    /\ enabled # on
    /\ enabled' = on
    /\ UNCHANGED <<mic, xlate, queue, boost, heard, tool, worker, timer,
                   tally>>

-----------------------------------------------------------------------------
(***************************************************************************)
(* The tools mic_check and translate_next: boost under the app's lock, arm *)
(* under the router's.                                                     *)
(***************************************************************************)
Boosts(kind, p) ==
    /\ tool.at = "idle"
    /\ kind = "mic" => armed < MaxChecks
    /\ boost' = p
    /\ tool' = [at |-> kind, who |-> p]
    /\ UNCHANGED <<router, heard, worker, timer, tally>>

\* A check that was armed before is replaced; its timeout thread stays.
ArmsMicCheck ==
    /\ tool.at = "mic"
    /\ mic' = tool.who
    /\ armed' = armed + 1
    /\ running' = armed + 1
    /\ timer' = [timer EXCEPT ![armed + 1] =
                     [at |-> "waits", who |-> tool.who]]
    /\ tool' = [at |-> "idle", who |-> Nobody]
    /\ UNCHANGED <<enabled, xlate, queue, boost, heard, worker, verdicts>>

ArmsTranslation ==
    /\ tool.at = "translate"
    /\ xlate' = tool.who
    /\ tool' = [at |-> "idle", who |-> Nobody]
    /\ UNCHANGED <<enabled, mic, queue, boost, heard, worker, timer,
                   tally>>

-----------------------------------------------------------------------------
(***************************************************************************)
(* The audio thread.                                                       *)
(***************************************************************************)
\* Three times a second the receiver takes over the volume policy.
Audible == {Owner} \union ({boost} \ {Nobody})

Polls ==
    /\ heard # Audible
    /\ heard' = Audible
    /\ UNCHANGED <<router, boost, tool, worker, timer, tally>>

\* While the queue is long only the owner is served.
Admits(p) ==
    /\ Len(queue) < QueueMax
    /\ p = Owner \/ Len(queue) < Threshold

\* An utterance ends; one that is too short or not admitted is dropped.
Speaks(p) ==
    /\ enabled /\ p \in heard
    /\ Admits(p)
    /\ queue' = Append(queue, p)
    /\ UNCHANGED <<enabled, mic, xlate, boost, heard, tool, worker, timer,
                   tally>>

-----------------------------------------------------------------------------
(***************************************************************************)
(* The worker: match the arms, transcribe, release the boost, act.         *)
(***************************************************************************)
WorkerTakes ==
    /\ worker.at = "idle" /\ queue # <<>>
    /\ worker' = [at |-> "taken", who |-> Head(queue), check |-> 0]
    /\ queue' = Tail(queue)
    /\ UNCHANGED <<enabled, mic, xlate, boost, heard, tool, timer, tally>>

Free == [at |-> "idle", who |-> Nobody, check |-> 0]

\* No endpoint is configured, or nobody armed this speaker.
WorkerDrops ==
    /\ worker.at = "taken"
    /\ worker' = Free
    /\ UNCHANGED <<router, boost, heard, tool, timer, tally>>

MatchesTranslation ==
    /\ worker.at = "taken" /\ xlate = worker.who
    /\ xlate' = Nobody
    /\ worker' = [worker EXCEPT !.at = "translate"]
    /\ UNCHANGED <<enabled, mic, queue, boost, heard, tool, timer, tally>>

\* The check is one-shot: it is no longer there when its timeout comes.
MicAfterAnswer_Kept == mic
MicAfterAnswer == Nobody

MatchesMicCheck ==
    /\ worker.at = "taken" /\ xlate # worker.who /\ mic = worker.who
    /\ mic' = MicAfterAnswer
    /\ running' = IF mic' = Nobody THEN 0 ELSE running
    /\ worker' = [worker EXCEPT !.at = "mic", !.check = running]
    /\ UNCHANGED <<enabled, xlate, queue, boost, heard, tool, timer, armed,
                   verdicts>>

\* The transcription is back.  Whether or not it succeeded the speaker is no
\* longer kept audible.  A translation is spoken then, which changes nothing.
BoostAfterFailure_Kept == boost
BoostAfterFailure == Nobody

TranscriptionSucceeds ==
    /\ worker.at \in {"translate", "mic"}
    /\ boost' = Nobody
    /\ worker' = IF worker.at = "mic"
                   THEN [worker EXCEPT !.at = "judge"] ELSE Free
    /\ UNCHANGED <<router, heard, tool, timer, tally>>

TranscriptionFails ==
    /\ worker.at \in {"translate", "mic"}
    /\ boost' = BoostAfterFailure
    /\ worker' = Free
    /\ UNCHANGED <<router, heard, tool, timer, tally>>

Decided(k) == [verdicts EXCEPT ![k] = @ + 1]

\* The model's verdict: welcomed, or banned and kicked.
Judged ==
    /\ worker.at = "judge"
    /\ verdicts' = Decided(worker.check)
    /\ worker' = Free
    /\ UNCHANGED <<router, boost, heard, tool, timer, armed, running>>

-----------------------------------------------------------------------------
(***************************************************************************)
(* The timeout thread of a check.                                          *)
(***************************************************************************)
\* It ends whatever check of its speaker is armed by then.
Unanswered_WhileEnabled(k) == enabled /\ mic = timer[k].who
Unanswered(k) == mic = timer[k].who

TimesOut(k) ==
    /\ timer[k].at = "waits"
    /\ IF Unanswered(k)
       THEN mic' = Nobody /\ running' = 0 /\ verdicts' = Decided(running)
       ELSE UNCHANGED <<mic, running, verdicts>>
    /\ timer' = [timer EXCEPT ![k].at = "clears"]
    /\ UNCHANGED <<enabled, xlate, queue, boost, heard, tool, worker, armed>>

TimeoutClears(k) ==
    /\ timer[k].at = "clears"
    /\ boost' = Nobody
    /\ timer' = [timer EXCEPT ![k].at = "gone"]
    /\ UNCHANGED <<router, heard, tool, worker, tally>>

-----------------------------------------------------------------------------
Tool ==
    \/ \E kind \in {"mic", "translate"}, p \in Strangers : Boosts(kind, p)
    \/ ArmsMicCheck \/ ArmsTranslation

Worker ==
    \/ WorkerTakes \/ WorkerDrops
    \/ MatchesTranslation \/ MatchesMicCheck
    \/ TranscriptionSucceeds \/ TranscriptionFails
    \/ Judged

Timeout(k) == TimesOut(k) \/ TimeoutClears(k)

RouterNext ==
    \/ \E on \in BOOLEAN : SetEnabled(on)
    \/ Tool
    \/ Polls
    \/ \E p \in People : Speaks(p)
    \/ Worker
    \/ \E k \in Checks : Timeout(k)

RouterSpec == RouterInit /\ [][RouterNext]_routerVars

\* Threads go on, and 20 s pass.  Nothing is assumed of who speaks, or of
\* what the owner asks for.
RouterFairSpec ==
    /\ RouterSpec
    /\ WF_routerVars(ArmsMicCheck \/ ArmsTranslation)
    /\ WF_routerVars(Polls)
    /\ WF_routerVars(Worker)
    /\ \A k \in Checks : WF_routerVars(Timeout(k))

-----------------------------------------------------------------------------
(***************************************************************************)
(* Properties.                                                             *)
(***************************************************************************)
RouterTypeOK ==
    /\ enabled \in BOOLEAN
    /\ mic \in People \union {Nobody} /\ xlate \in People \union {Nobody}
    /\ mic = Nobody <=> running = 0
    /\ queue \in Seq(People) /\ Len(queue) <= QueueMax
    /\ boost \in People \union {Nobody}
    /\ heard \subseteq People /\ Owner \in heard
    /\ tool \in [at : {"idle", "mic", "translate"},
                 who : People \union {Nobody}]
    /\ worker \in [at : {"idle", "taken", "translate", "mic", "judge"},
                   who : People \union {Nobody}, check : 0 .. MaxChecks]
    /\ timer \in [Checks -> [at : {"unborn", "waits", "clears", "gone"},
                             who : People \union {Nobody}]]
    /\ armed \in 0 .. MaxChecks /\ running \in 0 .. armed
    /\ verdicts \in [Checks -> Nat]

\* However answers, timeouts and new checks of the same speaker race, one
\* check is decided once: nobody is welcomed for it and then banned for it.
OneVerdict == \A k \in Checks : verdicts[k] <= 1

\* An armed check ends, also when the assistant is switched off meanwhile and
\* no longer hears the answer: mic_active does not block later work.
CheckEnds == mic # Nobody ~> mic = Nobody

\* Once nothing is armed, nobody but the owner stays audible: whoever was let
\* through for a check or a translation is silenced again on every path out
\* of it.
StrangersSilenced ==
    LET Quiet == mic = Nobody /\ xlate = Nobody /\ tool.at = "idle"
    IN  Quiet ~> (~Quiet \/ heard = {Owner})

\* src/include/bsdr/app.h says of mic_check_ssrc: "while a mic check runs: the
\* target's SSRC is kept audible (gain 1) even though strangers are otherwise
\* silenced": a boost is not taken away from a check that goes on, unless by a
\* later request of the owner.
CheckedIsHeard ==
    [][mic # Nobody /\ mic' = mic /\ boost = mic /\ tool'.at = "idle"
           => boost' = mic]_routerVars
=============================================================================
