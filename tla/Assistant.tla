------------------------------ MODULE Assistant ------------------------------
(***************************************************************************)
(* The voice assistant behind the balloon: one cycle of listening,         *)
(* confirmation and work (voice.c), whose work is a loop of model rounds   *)
(* and tool calls (llm.c, bsdr_llm_run_ex).  The input thread clicks       *)
(* (agent.c): it looks at the state of the cycle without a lock and sets a *)
(* flag afterwards, while the cycle's own thread goes on.  The main thread *)
(* frees the assistant at the end.                                         *)
(***************************************************************************)
EXTENDS Naturals

CONSTANTS
    MaxRounds,   \* llm.max_rounds
    MaxTools     \* bound: tool calls in one answer of the model

ASSUME RoundsAssumption == MaxRounds \in Nat /\ MaxTools \in Nat \ {0}

VARIABLES
    \* bsdr_voice; nothing below is under its lock
    state, recording, send_req, cancel_req, abort_req, shutdown,
    cycle,      \* where the cycle's thread is
    round, left, \* rounds asked, and the calls of this answer not yet handled
    click,       \* the input thread: the button it is acting on, "none" else
    main,        \* bsdr_agent_run: "runs", "frees", "freed"
    \* history
    sent,        \* Send was clicked for the capture of this cycle
    halted       \* a stop click took effect since the cycle began

wishes == <<send_req, cancel_req, abort_req>>
loop == <<round, left>>
history == <<sent, halted>>
voiceVars == <<state, recording, wishes, shutdown, cycle, loop, click, main,
          history>>

States == {"idle", "listening", "confirm", "working"}
Buttons == {"trigger", "stop capture", "send", "cancel", "abort"}

\* What the balloon's click does depends on the state; Send, Cancel and Stop
\* are buttons of their own.
Shown(button) ==
    CASE button = "trigger" -> "idle"
      [] button = "stop capture" -> "listening"
      [] button \in {"send", "cancel"} -> "confirm"
      [] button = "abort" -> "working"

VoiceInit ==
    /\ state = "idle" /\ recording = FALSE /\ shutdown = FALSE
    /\ send_req = FALSE /\ cancel_req = FALSE /\ abort_req = FALSE
    /\ cycle = "none" /\ round = 0 /\ left = 0
    /\ click = "none" /\ main = "runs"
    /\ sent = FALSE /\ halted = FALSE

-----------------------------------------------------------------------------
(***************************************************************************)
(* The input thread.                                                       *)
(***************************************************************************)
\* The handlers' own test of the state.
Looks(button) ==
    /\ click = "none" /\ main = "runs"
    /\ state = Shown(button)
    /\ click' = button
    /\ sent' = (sent \/ button = "send")
    /\ UNCHANGED <<state, recording, wishes, shutdown, cycle, loop, main,
                   halted>>

\* bsdr_voice_trigger joins the thread of the last cycle, claims the state and
\* starts the next thread.
Trigger ==
    /\ click = "trigger"
    /\ cycle \in {"none", "gone"}
    /\ state' = "listening"
    /\ cycle' = "begin"
    /\ click' = "none"
    /\ sent' = FALSE /\ halted' = FALSE
    /\ UNCHANGED <<recording, wishes, shutdown, loop, main>>

\* The state may be another one by now.
StopCapture ==
    /\ click = "stop capture"
    /\ recording' = FALSE
    /\ click' = "none"
    /\ UNCHANGED <<state, wishes, shutdown, cycle, loop, main, history>>

Confirm ==
    /\ click \in {"send", "cancel"}
    /\ send_req' = (send_req \/ click = "send")
    /\ cancel_req' = (cancel_req \/ click = "cancel")
    /\ click' = "none"
    /\ UNCHANGED <<state, recording, abort_req, shutdown, cycle, loop, main,
                   history>>

Abort ==
    /\ click = "abort"
    /\ abort_req' = TRUE
    /\ halted' = TRUE
    /\ click' = "none"
    /\ UNCHANGED <<state, recording, send_req, cancel_req, shutdown, cycle,
                   loop, main, sent>>

-----------------------------------------------------------------------------
(***************************************************************************)
(* The cycle: voice_cycle and its phases.                                  *)
(***************************************************************************)
Moves(from, to) == cycle = from /\ cycle' = to

Begin ==
    /\ Moves("begin", "listen")
    /\ recording' = TRUE
    /\ UNCHANGED <<state, wishes, shutdown, loop, click, main, history>>

\* The capture ends by a click, by silence, at its ceiling or by shutdown,
\* with speech worth sending or without.
Listened(speech) ==
    /\ Moves("listen", IF speech THEN "ask" ELSE "end")
    /\ recording' = FALSE
    /\ UNCHANGED <<state, wishes, shutdown, loop, click, main, history>>

StaleRequest_Kept(request) == request
StaleRequest(request) == FALSE

\* phase_confirm forgets the clicks of earlier cycles, then shows the prompt.
Asks ==
    /\ Moves("ask", "prompt")
    /\ send_req' = StaleRequest(send_req)
    /\ cancel_req' = StaleRequest(cancel_req)
    /\ UNCHANGED <<state, recording, abort_req, shutdown, loop, click, main,
                   history>>

Prompts ==
    /\ Moves("prompt", "confirm")
    /\ state' = "confirm"
    /\ UNCHANGED <<recording, wishes, shutdown, loop, click, main, history>>

Sent ==
    /\ ~shutdown /\ send_req
    /\ Moves("confirm", "prepare")
    /\ UNCHANGED <<state, recording, wishes, shutdown, loop, click, main,
                   history>>

\* Shutdown, the Cancel button, or nobody answered in time.
Discarded ==
    /\ shutdown \/ ~send_req
    /\ Moves("confirm", "end")
    /\ UNCHANGED <<state, recording, wishes, shutdown, loop, click, main,
                   history>>

\* phase_work forgets an old stop, then offers the stop button.
Prepares ==
    /\ Moves("prepare", "show")
    /\ abort_req' = FALSE
    /\ UNCHANGED <<state, recording, send_req, cancel_req, shutdown, loop,
                   click, main, history>>

Works ==
    /\ Moves("show", "transcribe")
    /\ state' = "working"
    /\ UNCHANGED <<recording, wishes, shutdown, loop, click, main, history>>

StopHeard_Cleared == FALSE
StopHeard == abort_req

Transcribed(ok) ==
    /\ Moves("transcribe", IF ok THEN "round" ELSE "end")
    /\ round' = 0 /\ left' = 0
    /\ abort_req' = StopHeard
    /\ UNCHANGED <<state, recording, send_req, cancel_req, shutdown, click,
                   main, history>>

\* A round is asked unless the operator stopped the loop or it ran too long.
RoundEnds ==
    /\ Moves("round", "end")
    /\ round >= MaxRounds \/ abort_req
    /\ UNCHANGED <<state, recording, wishes, shutdown, loop, click, main,
                   history>>

NextRound_Uncounted == round
NextRound == round + 1

RoundAsks ==
    /\ Moves("round", "answer")
    /\ round < MaxRounds /\ ~abort_req
    /\ round' = NextRound
    /\ UNCHANGED <<state, recording, wishes, shutdown, left, click, main,
                   history>>

\* The final answer, or none: the request failed.
Answered ==
    /\ Moves("answer", "end")
    /\ UNCHANGED <<state, recording, wishes, shutdown, loop, click, main,
                   history>>

AnsweredWithCalls(n) ==
    /\ Moves("answer", "calls")
    /\ left' = n
    /\ UNCHANGED <<state, recording, wishes, shutdown, round, click, main,
                   history>>

ToolBegins ==
    /\ left > 0 /\ ~abort_req
    /\ Moves("calls", "tool")
    /\ UNCHANGED <<state, recording, wishes, shutdown, loop, click, main,
                   history>>

\* The tool stop_talking sets the stop flag of its own loop.
ToolReturns(stops) ==
    /\ Moves("tool", "calls")
    /\ left' = left - 1
    /\ abort_req' = (abort_req \/ stops)
    /\ UNCHANGED <<state, recording, send_req, cancel_req, shutdown, round,
                   click, main, history>>

\* "aborted by user" is the result of every call that is left.
ToolsAborted ==
    /\ left > 0 /\ abort_req
    /\ cycle = "calls"
    /\ left' = left - 1
    /\ UNCHANGED <<state, recording, wishes, shutdown, cycle, round, click,
                   main, history>>

CallsHandled ==
    /\ left = 0
    /\ Moves("calls", "round")
    /\ UNCHANGED <<state, recording, wishes, shutdown, loop, click, main,
                   history>>

Ends ==
    /\ Moves("end", "gone")
    /\ state' = "idle"
    /\ UNCHANGED <<recording, wishes, shutdown, loop, click, main, history>>

-----------------------------------------------------------------------------
(***************************************************************************)
(* bsdr_voice_free, after teardown_session has ended the input thread.     *)
(***************************************************************************)
Frees ==
    /\ main = "runs" /\ click = "none"
    /\ main' = "frees"
    /\ shutdown' = TRUE /\ recording' = FALSE
    /\ UNCHANGED <<state, wishes, cycle, loop, click, history>>

Freed ==
    /\ main = "frees"
    /\ cycle \in {"none", "gone"}
    /\ main' = "freed"
    /\ UNCHANGED <<state, recording, wishes, shutdown, cycle, loop, click,
                   history>>

-----------------------------------------------------------------------------
Input == Trigger \/ StopCapture \/ Confirm \/ Abort

Cycle ==
    \/ Begin \/ \E speech \in BOOLEAN : Listened(speech)
    \/ Asks \/ Prompts \/ Sent \/ Discarded
    \/ Prepares \/ Works \/ \E ok \in BOOLEAN : Transcribed(ok)
    \/ RoundEnds \/ RoundAsks \/ Answered
    \/ \E n \in 1 .. MaxTools : AnsweredWithCalls(n)
    \/ ToolBegins \/ \E stops \in BOOLEAN : ToolReturns(stops)
    \/ ToolsAborted \/ CallsHandled \/ Ends

VoiceNext ==
    \/ \E button \in Buttons : Looks(button)
    \/ Input \/ Cycle \/ Frees \/ Freed

VoiceSpec == VoiceInit /\ [][VoiceNext]_voiceVars

\* A thread goes on: every phase of the cycle has a deadline, and requests
\* and tools return.  Nothing is assumed of the operator.
VoiceFairSpec ==
    /\ VoiceSpec
    /\ WF_voiceVars(Input)
    /\ WF_voiceVars(Cycle)
    /\ WF_voiceVars(Freed)

-----------------------------------------------------------------------------
(***************************************************************************)
(* Properties.                                                             *)
(***************************************************************************)
\* Nothing is transcribed and no tool runs for a capture the operator did not
\* send: a Send that was clicked too late, when its prompt had just timed out,
\* does not count for the next capture.
RunsOnlySent ==
    cycle \in {"transcribe", "round", "answer", "calls", "tool"} => sent

\* Once the operator's stop click has returned, no further tool call of that
\* cycle passes the test of the abort flag, whatever the loop was doing
\* meanwhile (llm.c:441; the call itself is in the step of its test).
StopStopsTools == [][halted /\ cycle # "tool" => cycle' # "tool"]_voiceVars

\* A cycle ends, whatever the operator clicks and the model answers, so that
\* the balloon can be used again; and shutdown does not wait for ever for it.
CycleEnds ==
    /\ (state # "idle") ~> (state = "idle")
    /\ shutdown ~> (main = "freed")
=============================================================================
