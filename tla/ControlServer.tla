---------------------------- MODULE ControlServer ----------------------------
(***************************************************************************)
(* The HTTP control server and its pairing record (src/src/control.c).     *)
(* Every connection has a thread of its own; what a request does under     *)
(* c->lock is one action.  The callbacks it then makes outside the lock    *)
(* are the subject of LanSession.                                          *)
(*                                                                         *)
(* Pairing ids are 48 random bytes: the model numbers them in the order    *)
(* they are minted.  A request carries any id minted so far, or none.      *)
(* allow_pair, which the app answers, may say either.                      *)
(***************************************************************************)
EXTENDS Integers

CONSTANTS
    Headsets, Nobody,
    MaxFails,       \* BSDR_PAIR_MAX_FAILS = 5
    Cooldown,       \* BSDR_PAIR_COOLDOWN_S = 30
    Window,         \* BSDR_FORGET_UNRESPONSIVE_DEVICE_MS / 1000 = 15
    MaxTime,        \* bound: seconds the model runs
    MaxIds          \* bound: successful pairings

ASSUME HeadsetsAssumption == Nobody \notin Headsets /\ Headsets # {}
ASSUME LimitsAssumption ==
    /\ MaxFails \in Nat \ {0}
    /\ Cooldown \in Nat /\ Window \in Nat
    /\ MaxTime \in Nat /\ MaxIds \in Nat

VARIABLES
    have_device,
    device,             \* the last device paired; stale once forgotten
    revoked_pairing_id, \* 0 when none was revoked yet
    pair_fails, pair_lock_until,
    now,                \* time(NULL)
    minted,             \* pairing ids minted so far
    wrong, since,       \* wrong codes compared since the last right one, and
                        \* the time of the first of them (history)
    lockouts            \* cooldowns they have earned (history)

guard == <<pair_fails, pair_lock_until>>
history == <<wrong, since, lockouts>>
vars == <<have_device, device, revoked_pairing_id, guard, now, minted, history>>

NoId == 0
Devices == [id : 0 .. MaxIds, headset : Headsets \union {Nobody},
            is_sharing : BOOLEAN, last_keepalive : 0 .. MaxTime]

Init ==
    /\ have_device = FALSE
    /\ device = [id |-> NoId, headset |-> Nobody, is_sharing |-> FALSE,
                 last_keepalive |-> 0]
    /\ revoked_pairing_id = NoId
    /\ pair_fails = 0 /\ pair_lock_until = 0
    /\ now = 0 /\ minted = 0
    /\ wrong = 0 /\ since = 0 /\ lockouts = 0

-----------------------------------------------------------------------------
AuthStatus_IgnoreHave(id) ==
    IF device.id = id /\ id # NoId THEN 0
    ELSE IF revoked_pairing_id = id /\ id # NoId THEN 410
    ELSE IF ~have_device THEN 404 ELSE 403

\* bsdr_control_auth_status: 0 accepts the request.
AuthStatus(id) ==
    IF have_device /\ device.id = id THEN 0
    ELSE IF revoked_pairing_id = id /\ id # NoId THEN 410
    ELSE IF ~have_device THEN 404 ELSE 403

ForgetLocked_NoRevoke ==
    /\ have_device' = FALSE
    /\ UNCHANGED revoked_pairing_id

ForgetLocked ==
    /\ have_device' = FALSE
    /\ revoked_pairing_id' = IF have_device THEN device.id ELSE revoked_pairing_id

-----------------------------------------------------------------------------
(***************************************************************************)
(* POST /pair.  A throttled request is refused before its code is looked   *)
(* at and changes nothing.                                                 *)
(***************************************************************************)
Throttled_Never == FALSE
Throttled == pair_lock_until > now

LimitReached == pair_fails + 1 >= MaxFails

PairWrongCode ==
    /\ ~Throttled
    /\ IF LimitReached
         THEN /\ pair_lock_until' = now + Cooldown
              /\ pair_fails' = 0
              /\ lockouts' = lockouts + 1
         ELSE /\ pair_fails' = pair_fails + 1
              /\ UNCHANGED <<pair_lock_until, lockouts>>
    /\ wrong' = wrong + 1
    /\ since' = IF wrong = 0 THEN now ELSE since
    /\ UNCHANGED <<have_device, device, revoked_pairing_id, now, minted>>

PairThrottled ==
    /\ Throttled
    /\ UNCHANGED vars

RightCode ==
    /\ ~Throttled
    /\ pair_fails' = 0
    /\ wrong' = 0 /\ lockouts' = 0
    /\ UNCHANGED <<pair_lock_until, since, now>>

\* Already paired, or not the headset the operator selected.
PairRefused ==
    /\ RightCode
    /\ UNCHANGED <<have_device, device, revoked_pairing_id, minted>>

MayPair_Anyone == TRUE
MayPair == ~have_device

PairAccepted(h) ==
    /\ MayPair /\ minted < MaxIds
    /\ RightCode
    /\ minted' = minted + 1
    /\ device' = [id |-> minted + 1, headset |-> h, is_sharing |-> FALSE,
                  last_keepalive |-> now]
    /\ have_device' = TRUE
    /\ UNCHANGED revoked_pairing_id

-----------------------------------------------------------------------------
(***************************************************************************)
(* The routes behind a pairing id.                                         *)
(***************************************************************************)
Heartbeat(id) ==
    /\ AuthStatus(id) = 0
    /\ device' = [device EXCEPT !.last_keepalive = now]
    /\ UNCHANGED <<have_device, revoked_pairing_id, guard, now, minted, history>>

Start(id) ==
    /\ AuthStatus(id) = 0
    /\ device' = [device EXCEPT !.is_sharing = TRUE]
    /\ UNCHANGED <<have_device, revoked_pairing_id, guard, now, minted, history>>

\* PUT /device: the tunables go to the callback, the registry is unchanged.
Settings(id) ==
    /\ AuthStatus(id) = 0 /\ device.is_sharing
    /\ UNCHANGED vars

Stop(id) ==
    /\ AuthStatus(id) = 0
    /\ device' = [device EXCEPT !.is_sharing = FALSE]
    /\ UNCHANGED <<have_device, revoked_pairing_id, guard, now, minted, history>>

Unpair(id) ==
    /\ AuthStatus(id) = 0
    /\ ForgetLocked
    /\ UNCHANGED <<device, guard, now, minted, history>>

-----------------------------------------------------------------------------
(***************************************************************************)
(* The agent's main loop.                                                  *)
(***************************************************************************)
ForceUnpair ==
    /\ have_device
    /\ ForgetLocked
    /\ UNCHANGED <<device, guard, now, minted, history>>

ExpireStale ==
    /\ have_device
    /\ now - device.last_keepalive > Window
    /\ ForgetLocked
    /\ UNCHANGED <<device, guard, now, minted, history>>

Second ==
    /\ now < MaxTime
    /\ now' = now + 1
    /\ UNCHANGED <<have_device, device, revoked_pairing_id, guard, minted, history>>

Next ==
    \/ PairThrottled
    \/ PairWrongCode
    \/ PairRefused
    \/ \E h \in Headsets : PairAccepted(h)
    \/ \E id \in 0 .. minted :
          Heartbeat(id) \/ Start(id) \/ Settings(id) \/ Stop(id) \/ Unpair(id)
    \/ ForceUnpair
    \/ ExpireStale
    \/ Second

Spec == Init /\ [][Next]_vars

-----------------------------------------------------------------------------
(***************************************************************************)
(* Properties.                                                             *)
(***************************************************************************)
TypeOK ==
    /\ have_device \in BOOLEAN
    /\ device \in Devices
    /\ revoked_pairing_id \in 0 .. MaxIds
    /\ pair_fails \in 0 .. MaxFails - 1
    /\ pair_lock_until \in Nat
    /\ now \in 0 .. MaxTime
    /\ minted \in 0 .. MaxIds
    /\ wrong \in Nat /\ since \in 0 .. MaxTime /\ lockouts \in Nat

\* The guard of /pair bounds the RATE of guesses over any stretch without a
\* right code: more than k * MaxFails codes take k whole cooldowns, however
\* the attempts are spread over connections.
ThrottleRate ==
    \A k \in 0 .. MaxTime : wrong > MaxFails * k => now >= since + k * Cooldown

\* The id of a device that unpaired, expired or was dropped never comes back
\* to life, whoever pairs afterwards: the only id that is accepted is the one
\* minted last, and only while its device has not been forgotten.
OnlyNewestAccepted ==
    \A id \in 0 .. MaxIds : AuthStatus(id) = 0 => have_device /\ id = minted /\ id > 0

\* The device that was forgotten last is told that its pairing is gone (410),
\* also after another one has paired; so a Quest that the host dropped learns
\* it from its next heartbeat.
PreviousGets410 ==
    /\ ~have_device /\ minted > 0 => AuthStatus(minted) = 410
    /\ have_device /\ minted > 1 => AuthStatus(minted - 1) = 410

\* The server is the pairing registry of Pairing.
Registry == INSTANCE Pairing WITH
    paired <- IF have_device THEN device.headset ELSE Nobody,
    sharing <- have_device /\ device.is_sharing

PairsOneHeadset == Registry!PairingSpec
=============================================================================
