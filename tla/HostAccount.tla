---------------------------- MODULE HostAccount ----------------------------
(***************************************************************************)
(* The operator's Bigscreen account (src/src/app.c): logging in and out on *)
(* the web thread, the renewal of the short-lived access token and the     *)
(* presence socket that shows the host online, which the main loop and     *)
(* every thread that joins the bot to a room may reopen, the session file  *)
(* that a restart logs in from, and the restart itself.                    *)
(*                                                                         *)
(* What is done under one hold of a->lock is one action; HTTPS, opening    *)
(* and closing a socket and writing the file happen without it.  A token   *)
(* stands for the account it was issued to.                                *)
(***************************************************************************)
EXTENDS FiniteSets

CONSTANTS
    Web,                \* the one thread of the web UI
    Main,               \* the main loop
    Joiners,            \* other threads that join the bot: the assistant's
    Accounts, NoToken,
    Sockets, NoSocket,  \* heap objects of a presence socket
    NoFile              \* there is no session file

ASSUME NullAssumption ==
    /\ NoToken \notin Accounts /\ NoFile \notin Accounts \union {NoToken}
    /\ NoSocket \notin Sockets
ASSUME ThreadAssumption == Web # Main /\ {Web, Main} \intersect Joiners = {}

VARIABLES
    cloud_logged_in,
    internet_sharing,   \* the wish to share, without which the tick does not
                        \* look after the presence
    token,              \* access_token and refresh_token, which go together
    cloud_ws,           \* the presence socket of the app
    recent,             \* presence_reopen_ms is less than 15 s ago
    open,               \* the sockets, each with its keepalive thread, but for
                        \* those that a login overwrote
    alive,              \* those whose keepalive thread still runs
    file,               \* the session file: none, or the token it begins with
    linked,             \* threads whose open session file still has its name
    at,                 \* for each thread, the stage of the call it is in
    next,               \* where it goes on once the session is saved
    got,                \* the token it works with
    ws,                 \* the socket it took out to close, or looks at
    forgotten           \* history: logged out, and no login or restore since

account == <<cloud_logged_in, internet_sharing, token>>
sockets == <<cloud_ws, recent, open, alive>>
stored == <<file, linked>>
call == <<at, next, got, ws>>
vars == <<account, sockets, stored, call, forgotten>>

Threads == {Web, Main} \union Joiners
Stages == {"idle", "save", "print", "flush", "connect",
           "login", "clear", "close", "boot", "check",
           "renew", "reopen", "swap", "opening", "tick", "presence",
           "ensure", "rooms", "fetch"}
Some(s) == {s} \ {NoSocket}

Goto(t, stage) == at' = [at EXCEPT ![t] = stage]

Idle(t) == at[t] = "idle"

\* The web UI is served before the main loop restores the session.
Restoring ==
    \/ at[Main] = "check"
    \/ /\ at[Main] \in {"save", "print", "flush", "connect"}
       /\ next[Main] = "connect"

Init ==
    /\ cloud_logged_in = FALSE /\ internet_sharing = FALSE /\ token = NoToken
    /\ cloud_ws = NoSocket /\ recent = FALSE /\ open = {} /\ alive = {}
    /\ file = NoFile /\ linked = {}
    /\ at = [t \in Threads |-> IF t = Main THEN "boot" ELSE "idle"]
    /\ next = [t \in Threads |-> "idle"]
    /\ got = [t \in Threads |-> NoToken]
    /\ ws = [t \in Threads |-> NoSocket]
    /\ forgotten = TRUE

-----------------------------------------------------------------------------
(***************************************************************************)
(* session_save, at the end of a login, a restore and a renewal: the file  *)
(* is created or emptied, the token is read from the app without the lock, *)
(* and reaches the file when that is closed.  A file removed meanwhile has *)
(* lost its name, and nobody will read what is written to it.              *)
(***************************************************************************)
Save(t, then) == Goto(t, "save") /\ next' = [next EXCEPT ![t] = then]

SaveOpens(t) ==
    /\ at[t] = "save"
    /\ file' = NoToken
    /\ linked' = linked \union {t}
    /\ Goto(t, "print")
    /\ UNCHANGED <<account, sockets, next, got, ws, forgotten>>

SavePrints(t) ==
    /\ at[t] = "print"
    /\ got' = [got EXCEPT ![t] = token]
    /\ Goto(t, "flush")
    /\ UNCHANGED <<account, sockets, stored, next, ws, forgotten>>

SaveCloses(t) ==
    /\ at[t] = "flush"
    /\ file' = IF t \in linked THEN got[t] ELSE file
    /\ linked' = linked \ {t}
    /\ Goto(t, next[t])
    /\ UNCHANGED <<account, sockets, next, got, ws, forgotten>>

-----------------------------------------------------------------------------
(***************************************************************************)
(* Opening and closing a presence socket; s is NoSocket when the connect   *)
(* failed.                                                                 *)
(***************************************************************************)
Opens(s) ==
    /\ s \notin open
    /\ open' = open \union Some(s)
    /\ alive' = alive \union Some(s)

\* bsdr_cloud_ws_close: the keepalive thread is joined, the socket freed.
Closes(t) ==
    /\ open' = open \ {ws[t]}
    /\ alive' = alive \ {ws[t]}
    /\ ws' = [ws EXCEPT ![t] = NoSocket]

\* The keepalive thread ends when the server or the network drops the socket.
Drop(s) ==
    /\ s \in alive
    /\ alive' = alive \ {s}
    /\ UNCHANGED <<account, cloud_ws, recent, open, stored, call, forgotten>>

\* The end of a login and of a restore: the socket is stored whatever the app
\* holds.  One that a reopening or an earlier login opened is lost: nobody will
\* close it, and it is left out from here on.
LoginConnects(t, s) ==
    /\ at[t] = "connect"
    /\ s \notin open
    /\ cloud_ws' = s
    /\ open' = (open \ {cloud_ws}) \union Some(s)
    /\ alive' = (alive \ {cloud_ws}) \union Some(s)
    /\ Goto(t, "idle")
    /\ UNCHANGED <<account, recent, stored, next, got, ws, forgotten>>

-----------------------------------------------------------------------------
(***************************************************************************)
(* bsdr_app_login and bsdr_app_logout, on the web thread.                  *)
(***************************************************************************)
Login(acc) ==
    /\ Idle(Web)
    /\ Goto(Web, "login")
    /\ got' = [got EXCEPT ![Web] = acc]
    /\ forgotten' = FALSE
    /\ UNCHANGED <<account, sockets, stored, next, ws>>

\* A refused login leaves the tokens, the file and the socket of the one
\* before it.
LoginRefused ==
    /\ at[Web] = "login"
    /\ cloud_logged_in' = FALSE
    /\ Goto(Web, "idle")
    /\ UNCHANGED <<internet_sharing, token, sockets, stored, next, got, ws,
                   forgotten>>

LoginGranted ==
    /\ at[Web] = "login"
    /\ cloud_logged_in' = TRUE
    /\ token' = got[Web]
    /\ Save(Web, "connect")
    /\ UNCHANGED <<internet_sharing, sockets, stored, got, ws, forgotten>>

\* Everything is cleared under the lock, then the file is removed, and the
\* socket closed.
Logout ==
    /\ Idle(Web)
    /\ ws' = [ws EXCEPT ![Web] = cloud_ws]
    /\ cloud_ws' = NoSocket
    /\ cloud_logged_in' = FALSE /\ internet_sharing' = FALSE
    /\ token' = NoToken
    /\ Goto(Web, "clear")
    /\ forgotten' = ~Restoring
    /\ UNCHANGED <<recent, open, alive, stored, next, got>>

SessionClear ==
    /\ at[Web] = "clear"
    /\ file' = NoFile
    /\ linked' = {}
    /\ Goto(Web, "close")
    /\ UNCHANGED <<account, sockets, next, got, ws, forgotten>>

LogoutCloses ==
    /\ at[Web] = "close"
    /\ Closes(Web)
    /\ Goto(Web, "idle")
    /\ UNCHANGED <<account, cloud_ws, recent, stored, next, got, forgotten>>

-----------------------------------------------------------------------------
(***************************************************************************)
(* app_renew_token by thread t, when the token is old or was refused, and  *)
(* presence_reopen, which follows it.                                      *)
(***************************************************************************)
Renew(t) ==
    /\ (Idle(t) /\ cloud_logged_in) \/ at[t] = "fetch"
    /\ token # NoToken
    /\ got' = [got EXCEPT ![t] = token]
    /\ Goto(t, "renew")
    /\ UNCHANGED <<account, sockets, stored, next, ws, forgotten>>

\* Logged out while HTTPS ran: the new token is dropped.
MayRenew_Always == TRUE
MayRenew == cloud_logged_in

RenewFails(t) ==
    /\ at[t] = "renew"
    /\ Goto(t, "idle")
    /\ UNCHANGED <<account, sockets, stored, next, got, ws, forgotten>>

Renewed(t) ==
    /\ at[t] = "renew" /\ MayRenew
    /\ token' = got[t]
    /\ Save(t, "reopen")
    /\ UNCHANGED <<cloud_logged_in, internet_sharing, sockets, stored, got, ws,
                   forgotten>>

ReopenTakes(t) ==
    /\ at[t] = "reopen"
    /\ ws' = [ws EXCEPT ![t] = cloud_ws]
    /\ cloud_ws' = NoSocket
    /\ recent' = TRUE
    /\ got' = [got EXCEPT ![t] = IF cloud_logged_in THEN token ELSE NoToken]
    /\ Goto(t, "swap")
    /\ UNCHANGED <<account, open, alive, stored, next, forgotten>>

ReopenCloses(t) ==
    /\ at[t] = "swap"
    /\ Closes(t)
    /\ Goto(t, IF got[t] = NoToken THEN "idle" ELSE "opening")
    /\ UNCHANGED <<account, cloud_ws, recent, stored, next, got, forgotten>>

\* The socket is kept only when the account is still logged in and nobody has
\* stored another; else the thread closes its own.
MayAdopt_LoggedIn == cloud_logged_in
MayAdopt == cloud_logged_in /\ cloud_ws = NoSocket

ReopenAdopts(t, s) ==
    /\ at[t] = "opening" /\ MayAdopt
    /\ Opens(s)
    /\ cloud_ws' = s
    /\ Goto(t, "idle")
    /\ UNCHANGED <<account, recent, stored, next, got, ws, forgotten>>

ReopenDiscards(t) ==
    /\ at[t] = "opening" /\ ~MayAdopt
    /\ Goto(t, "idle")
    /\ UNCHANGED <<account, sockets, stored, next, got, ws, forgotten>>

-----------------------------------------------------------------------------
(***************************************************************************)
(* The switch of the web UI, the headset's callbacks, sharing on pairing   *)
(* and the end of a grace period set the wish at any time, also while the  *)
(* account is logged out.                                                  *)
(***************************************************************************)
WishesShare(on) ==
    /\ internet_sharing # on
    /\ internet_sharing' = on
    /\ UNCHANGED <<cloud_logged_in, token, sockets, stored, call, forgotten>>

(***************************************************************************)
(* The main loop's tick, cloud_try_start.  It returns at once unless       *)
(* sharing is wanted and the account is logged in; then it looks after the *)
(* presence (presence_ensure) and may ask for the rooms (rooms_fetch).  A  *)
(* reopening ends the tick here; the rooms are asked for in a later one.   *)
(***************************************************************************)
Ticks ==
    /\ Idle(Main)
    /\ Goto(Main, "tick")
    /\ UNCHANGED <<account, sockets, stored, next, got, ws, forgotten>>

Wanted == internet_sharing /\ cloud_logged_in

TickDecides ==
    /\ at[Main] = "tick"
    /\ Goto(Main, IF Wanted THEN "presence" ELSE "idle")
    /\ UNCHANGED <<account, sockets, stored, next, got, ws, forgotten>>

\* presence_ensure takes the pointer under the lock and asks the socket without
\* it: one freed meanwhile may answer anything.  Shortly after a reopening it
\* returns whatever the answer.
Ensure ==
    /\ at[Main] = "presence" /\ cloud_logged_in /\ ~recent
    /\ ws' = [ws EXCEPT ![Main] = cloud_ws]
    /\ Goto(Main, "ensure")
    /\ UNCHANGED <<account, sockets, stored, next, got, forgotten>>

EnsureReturns ==
    /\ at[Main] = "presence" /\ (~cloud_logged_in \/ recent)
    /\ Goto(Main, "rooms")
    /\ UNCHANGED <<account, sockets, stored, next, got, ws, forgotten>>

Down_Missing(s) == s = NoSocket
Down(s) == s \notin alive
Freed(s) == s \in Sockets \ open

EnsureDone(stage) ==
    /\ at[Main] = "ensure"
    /\ ws' = [ws EXCEPT ![Main] = NoSocket]
    /\ Goto(Main, stage)
    /\ UNCHANGED <<account, sockets, stored, next, got, forgotten>>

SeesAlive == (~Down(ws[Main]) \/ Freed(ws[Main])) /\ EnsureDone("rooms")
SeesDown == Down(ws[Main]) /\ EnsureDone("reopen")

\* GET /rooms is asked unless the stream runs, or the wish is gone by now.
RoomsFetch(stage) ==
    /\ at[Main] = "rooms"
    /\ stage \in {"fetch", "idle"}
    /\ Goto(Main, stage)
    /\ UNCHANGED <<account, sockets, stored, next, got, ws, forgotten>>

\* Its answer: fine or no screen, or refused (then Renew), or failed by the
\* server, at most once in 15 s.
RoomsAnswer(stage) ==
    /\ at[Main] = "fetch"
    /\ stage = "reopen" => ~recent
    /\ Goto(Main, stage)
    /\ UNCHANGED <<account, sockets, stored, next, got, ws, forgotten>>

TimePasses ==
    /\ recent /\ recent' = FALSE
    /\ UNCHANGED <<account, cloud_ws, open, alive, stored, call, forgotten>>

-----------------------------------------------------------------------------
(***************************************************************************)
(* The program stops at any point and is started again: only the file is   *)
(* left, as it was; bsdr_app_restore_session logs in from it.              *)
(***************************************************************************)
Restart ==
    /\ at[Main] # "boot"
    /\ cloud_logged_in' = FALSE /\ internet_sharing' = FALSE
    /\ token' = NoToken
    /\ cloud_ws' = NoSocket /\ recent' = FALSE /\ open' = {} /\ alive' = {}
    /\ linked' = {}
    /\ at' = [t \in Threads |-> IF t = Main THEN "boot" ELSE "idle"]
    /\ next' = [t \in Threads |-> "idle"]
    /\ got' = [t \in Threads |-> NoToken]
    /\ ws' = [t \in Threads |-> NoSocket]
    /\ forgotten' = (forgotten /\ at[Web] # "clear")
    /\ UNCHANGED file

RestoreReads ==
    /\ at[Main] = "boot"
    /\ IF file \in Accounts
       THEN got' = [got EXCEPT ![Main] = file] /\ Goto(Main, "check")
       ELSE UNCHANGED got /\ Goto(Main, "idle")
    /\ UNCHANGED <<account, sockets, stored, next, ws, forgotten>>

\* Bigscreen rejected the token and its renewal; the file stays.
RestoreRejected ==
    /\ at[Main] = "check"
    /\ Goto(Main, "idle")
    /\ UNCHANGED <<account, sockets, stored, next, got, ws, forgotten>>

\* It is valid, or renewed, or Bigscreen could not be reached.
Restored ==
    /\ at[Main] = "check"
    /\ cloud_logged_in' = TRUE
    /\ token' = got[Main]
    /\ forgotten' = FALSE
    /\ Save(Main, "connect")
    /\ UNCHANGED <<internet_sharing, sockets, stored, got, ws>>

-----------------------------------------------------------------------------
Thread(t) ==
    \/ SaveOpens(t) \/ SavePrints(t) \/ SaveCloses(t)
    \/ \E s \in Sockets \union {NoSocket} :
           LoginConnects(t, s) \/ ReopenAdopts(t, s)
    \/ Renew(t) \/ RenewFails(t) \/ Renewed(t)
    \/ ReopenTakes(t) \/ ReopenCloses(t) \/ ReopenDiscards(t)

Operator ==
    \/ \E acc \in Accounts : Login(acc)
    \/ LoginRefused \/ LoginGranted
    \/ Logout \/ SessionClear \/ LogoutCloses

Tick ==
    \/ Ticks \/ TickDecides
    \/ Ensure \/ EnsureReturns \/ SeesAlive \/ SeesDown
    \/ \E stage \in {"idle", "fetch"} : RoomsFetch(stage)
    \/ \E stage \in {"idle", "reopen"} : RoomsAnswer(stage)

Boot == Restart \/ RestoreReads \/ RestoreRejected \/ Restored

Next ==
    \/ \E t \in Threads : Thread(t)
    \/ Operator \/ Tick \/ Boot
    \/ \E on \in BOOLEAN : WishesShare(on)
    \/ \E s \in Sockets : Drop(s)
    \/ TimePasses

Spec == Init /\ [][Next]_vars

(***************************************************************************)
(* The main loop goes on and comes back to the tick, whatever else it does *)
(* in between; time passes, and Bigscreen does not refuse every connect    *)
(* for ever.  What the tick then does is up to its own tests.              *)
(***************************************************************************)
MainSteps ==
    \/ SaveOpens(Main) \/ SavePrints(Main) \/ SaveCloses(Main)
    \/ \E s \in Sockets \union {NoSocket} :
           LoginConnects(Main, s) \/ ReopenAdopts(Main, s)
    \/ RenewFails(Main) \/ Renewed(Main)
    \/ ReopenTakes(Main) \/ ReopenCloses(Main) \/ ReopenDiscards(Main)
    \/ TickDecides \/ Ensure \/ EnsureReturns \/ SeesAlive \/ SeesDown
    \/ RoomsFetch("idle") \/ RoomsFetch("fetch") \/ RoomsAnswer("idle")
    \/ RestoreReads \/ RestoreRejected \/ Restored

FairSpec ==
    /\ Spec
    /\ WF_vars(MainSteps) /\ WF_vars(TimePasses)
    /\ SF_vars(Ticks)
    /\ SF_vars(\E t \in Threads, s \in Sockets : ReopenAdopts(t, s))

-----------------------------------------------------------------------------
\* Type invariant.
TypeOK ==
    /\ cloud_logged_in \in BOOLEAN /\ internet_sharing \in BOOLEAN
    /\ token \in Accounts \union {NoToken}
    /\ cloud_ws \in Sockets \union {NoSocket} /\ recent \in BOOLEAN
    /\ alive \subseteq open /\ open \subseteq Sockets
    /\ file \in Accounts \union {NoToken, NoFile} /\ linked \subseteq Threads
    /\ at \in [Threads -> Stages]
    /\ next \in [Threads -> {"idle", "connect", "reopen"}]
    /\ got \in [Threads -> Accounts \union {NoToken}]
    /\ ws \in [Threads -> Sockets \union {NoSocket}]
    /\ forgotten \in BOOLEAN

\* A logout lasts: whatever renewal, reopening or saving it overlapped, and
\* across restarts, the account stays logged out, no token is in the app or in
\* the file that a restart would log in from, and no presence socket shows the
\* host online (bsdr_app_logout, the tests after HTTPS in app_renew_token and
\* presence_reopen, the order of clearing and removing).  Only the restore at
\* startup, when still under way, undoes it.
LogoutLasts ==
    forgotten /\ at[Web] # "clear" =>
        /\ ~cloud_logged_in /\ token = NoToken /\ cloud_ws = NoSocket
        /\ file \notin Accounts

\* Thread t has taken ws[t] out to close it.
Closing(t) == at[t] \in {"swap", "clear", "close"}

\* No presence socket is lost with its keepalive thread by a reopening, with
\* several of them and a logout in flight: each is the app's, or will be
\* closed by the one thread that took it, unless a login stored its own over
\* it (presence_reopen, bsdr_app_logout).
SocketsKept ==
    \A s \in open \ {cloud_ws} :
        Cardinality({t \in Threads : Closing(t) /\ ws[t] = s}) = 1

\* While sharing stays wanted, an account that stays logged in is shown online
\* again after every drop (presence_ensure, presence_reopen).  Without the wish
\* the tick returns before it looks, and only a renewal brings it back.
PresenceReturns ==
    <>[](cloud_logged_in /\ internet_sharing) => []<>(cloud_ws \in alive)
=============================================================================
