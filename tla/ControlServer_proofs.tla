------------------------- MODULE ControlServer_proofs -------------------------
(***************************************************************************)
(* The pairing registry for any number of headsets, ids and seconds and    *)
(* any limits of the guard.                                                *)
(***************************************************************************)
EXTENDS ControlServer, TLAPS

USE HeadsetsAssumption, LimitsAssumption

\* Which ids are out: the last device's is the last one minted, and the
\* revoked one is that same id, or the one before it while a newer device is
\* paired.
IdsInv ==
    /\ device.id = minted
    /\ have_device => minted > 0 /\ device.headset \in Headsets
    /\ ~have_device => revoked_pairing_id = minted
    /\ have_device => revoked_pairing_id = minted - 1

\* How the guard's counters add up over a stretch without a right code.
\* lockouts cooldowns have been earned; each of them but the last has elapsed, and
\* the last one too once a further code was compared.
ThrottleInv ==
    /\ wrong = MaxFails * lockouts + pair_fails
    /\ wrong > 0 => since <= now
    /\ lockouts > 0 => /\ pair_lock_until >= since + lockouts * Cooldown
                       /\ now >= since + (lockouts - 1) * Cooldown
    /\ pair_fails > 0 => now >= since + lockouts * Cooldown

ControlInv == TypeOK /\ IdsInv /\ ThrottleInv

LEMMA InitControl == Init => ControlInv
<1> SUFFICES ASSUME Init PROVE ControlInv
  OBVIOUS
<1>1. TypeOK
  <2>1. device \in Devices
    BY DEF Init, Devices, NoId
  <2>2. /\ 0 \in 0 .. MaxIds /\ 0 \in 0 .. MaxFails - 1 /\ 0 \in 0 .. MaxTime
    OBVIOUS
  <2>3. now \in 0 .. MaxTime /\ since \in 0 .. MaxTime
        /\ pair_fails \in 0 .. MaxFails - 1
    BY <2>2 DEF Init
  <2>4. revoked_pairing_id \in 0 .. MaxIds /\ minted \in 0 .. MaxIds
    BY <2>2 DEF Init, NoId
  <2> QED BY <2>1, <2>3, <2>4 DEF Init, TypeOK
<1>2. IdsInv
  BY DEF Init, IdsInv, NoId
<1>3. ThrottleInv
  <2>1. MaxFails * 0 + 0 = 0 /\ 0 * Cooldown = 0
    OBVIOUS
  <2> QED BY <2>1 DEF Init, ThrottleInv
<1> QED BY <1>1, <1>2, <1>3 DEF ControlInv

\* Forgetting the device revokes its id.
LEMMA ForgetKeeps ==
    ASSUME ControlInv, have_device, ForgetLocked,
           UNCHANGED <<device, guard, now, minted, history>>
    PROVE  ControlInv'
<1>1. TypeOK'
  BY DEF ControlInv, TypeOK, ForgetLocked, guard, history, Devices
<1>2. IdsInv'
  BY DEF ControlInv, IdsInv, ForgetLocked
<1>3. ThrottleInv'
  BY DEF ControlInv, ThrottleInv, guard, history
<1> QED BY <1>1, <1>2, <1>3 DEF ControlInv

\* The next code is compared no earlier than a whole cooldown later.
LEMMA CooldownPasses ==
    ASSUME NEW n \in Nat, NEW s \in Nat, NEW p \in Nat, n >= s + p
    PROVE  n + Cooldown >= s + (p + Cooldown)
OBVIOUS

LEMMA WrongCodeKeeps == ControlInv /\ PairWrongCode => ControlInv'
<1> SUFFICES ASSUME ControlInv, PairWrongCode PROVE ControlInv'
  OBVIOUS
<1>0. /\ TypeOK /\ IdsInv /\ ThrottleInv
      /\ pair_lock_until <= now
      /\ pair_fails \in Nat /\ pair_lock_until \in Nat /\ now \in Nat
      /\ wrong \in Nat /\ since \in Nat /\ lockouts \in Nat
  BY DEF ControlInv, PairWrongCode, LimitReached, Throttled, TypeOK
<1>1. TypeOK'
  BY <1>0 DEF PairWrongCode, LimitReached, TypeOK
<1>2. IdsInv'
  BY <1>0 DEF PairWrongCode, LimitReached, IdsInv
\* Every cooldown earned so far has elapsed when a code is compared at all.
<1>3. wrong > 0 => now >= since + lockouts * Cooldown
  <2>1. CASE lockouts > 0
    BY <1>0, <2>1 DEF ThrottleInv
  <2>2. CASE lockouts = 0
    <3>1. lockouts * Cooldown = 0
      BY <2>2
    <3> QED BY <1>0, <3>1 DEF ThrottleInv
  <2> QED BY <1>0, <2>1, <2>2
<1>4. wrong = 0 => lockouts = 0 /\ pair_fails = 0
  <2>1. MaxFails * lockouts \in Nat /\ MaxFails * lockouts >= lockouts
    BY <1>0
  <2> QED BY <1>0, <2>1 DEF ThrottleInv
<1>5. since' <= now /\ now' = now /\ now >= since' + lockouts * Cooldown
  <2>1. CASE wrong = 0
    <3>1. lockouts * Cooldown = 0
      BY <1>4, <2>1
    <3> QED BY <1>0, <2>1, <3>1 DEF PairWrongCode, LimitReached
  <2>2. CASE wrong > 0
    BY <1>0, <1>3, <2>2 DEF PairWrongCode, LimitReached, ThrottleInv
  <2> QED BY <1>0, <2>1, <2>2
<1>6. ThrottleInv'
  <2>1. CASE pair_fails + 1 >= MaxFails
    <3>1. /\ pair_fails + 1 = MaxFails
          /\ pair_lock_until' = now + Cooldown /\ pair_fails' = 0
          /\ lockouts' = lockouts + 1 /\ wrong' = wrong + 1
      BY <1>0, <2>1 DEF PairWrongCode, LimitReached, TypeOK
    <3>2. /\ MaxFails * (lockouts + 1) = MaxFails * lockouts + MaxFails
          /\ (lockouts + 1) * Cooldown = lockouts * Cooldown + Cooldown
      BY <1>0
    <3>3. wrong' = MaxFails * lockouts' + pair_fails'
      BY <1>0, <3>1, <3>2 DEF ThrottleInv
    <3>4. since' \in Nat /\ lockouts * Cooldown \in Nat
      BY <1>0, <1>1 DEF TypeOK
    <3>5. /\ pair_lock_until' >= since' + lockouts' * Cooldown
          /\ now' >= since' + (lockouts' - 1) * Cooldown
      <4>1. now + Cooldown >= since' + (lockouts * Cooldown + Cooldown)
        BY <1>0, <1>5, <3>4, CooldownPasses
      <4>2. lockouts' * Cooldown = lockouts * Cooldown + Cooldown
        BY <3>1, <3>2
      <4>3. lockouts' - 1 = lockouts
        BY <1>0, <3>1
      <4>4. (lockouts' - 1) * Cooldown = lockouts * Cooldown
        BY <4>3
      <4>5. pair_lock_until' >= since' + lockouts' * Cooldown
        BY <3>1, <4>1, <4>2
      <4>6. now' >= since' + (lockouts' - 1) * Cooldown
        BY <1>5, <4>4
      <4> QED BY <4>5, <4>6
    <3> QED BY <1>5, <3>1, <3>3, <3>5 DEF ThrottleInv
  <2>2. CASE ~(pair_fails + 1 >= MaxFails)
    <3>1. /\ pair_fails' = pair_fails + 1 /\ wrong' = wrong + 1
          /\ UNCHANGED <<pair_lock_until, lockouts>>
      BY <2>2 DEF PairWrongCode, LimitReached
    <3>2. wrong' = MaxFails * lockouts' + pair_fails'
      <4>1. MaxFails * lockouts \in Nat
        BY <1>0
      <4> QED BY <1>0, <3>1, <4>1 DEF ThrottleInv
    <3>3. lockouts > 0 => since' = since
      BY <1>0, <1>4 DEF PairWrongCode, LimitReached
    <3> QED BY <1>0, <1>5, <3>1, <3>2, <3>3 DEF ThrottleInv
  <2> QED BY <2>1, <2>2
<1> QED BY <1>1, <1>2, <1>6 DEF ControlInv

\* A right code clears the count.
LEMMA RightCodeClears ==
    ASSUME RightCode, TypeOK PROVE ThrottleInv'
<1>1. MaxFails * 0 + 0 = 0 /\ 0 * Cooldown = 0
  OBVIOUS
<1> QED BY <1>1 DEF RightCode, ThrottleInv, TypeOK

LEMMA StepControl == ControlInv /\ [Next]_vars => ControlInv'
<1> SUFFICES ASSUME ControlInv, [Next]_vars PROVE ControlInv'
  OBVIOUS
<1>0. TypeOK /\ IdsInv /\ ThrottleInv
  BY DEF ControlInv
<1>1. CASE UNCHANGED vars
  <2>1. TypeOK'
    BY <1>0, <1>1 DEF vars, guard, history, TypeOK
  <2>2. IdsInv'
    BY <1>0, <1>1 DEF vars, IdsInv
  <2>3. ThrottleInv'
    BY <1>0, <1>1 DEF vars, guard, history, ThrottleInv
  <2> QED BY <2>1, <2>2, <2>3 DEF ControlInv
<1>2. CASE PairWrongCode
  BY <1>2, WrongCodeKeeps
<1>3. CASE PairRefused
  <2>1. TypeOK'
    BY <1>0, <1>3 DEF PairRefused, RightCode, TypeOK
  <2>2. IdsInv'
    BY <1>0, <1>3 DEF PairRefused, IdsInv
  <2> QED BY <1>0, <1>3, <2>1, <2>2, RightCodeClears DEF PairRefused, ControlInv
<1>4. ASSUME NEW h \in Headsets, PairAccepted(h) PROVE ControlInv'
  <2>1. minted' \in 1 .. MaxIds /\ minted' = minted + 1 /\ ~have_device
    BY <1>0, <1>4 DEF PairAccepted, MayPair, TypeOK
  <2>2. device' = [id |-> minted', headset |-> h, is_sharing |-> FALSE,
                   last_keepalive |-> now]
    BY <1>4 DEF PairAccepted
  <2>3. device' \in Devices
    BY <1>0, <2>1, <2>2 DEF Devices, TypeOK
  <2>4. TypeOK'
    BY <1>0, <1>4, <2>1, <2>3 DEF PairAccepted, RightCode, TypeOK
  <2>5. IdsInv'
    BY <1>0, <1>4, <2>1, <2>2 DEF PairAccepted, IdsInv, TypeOK
  <2> QED BY <1>0, <1>4, <2>4, <2>5, RightCodeClears DEF PairAccepted, ControlInv
<1>5. ASSUME NEW id \in 0 .. minted, Heartbeat(id) \/ Start(id) \/ Stop(id)
      PROVE ControlInv'
  <2>1. /\ device' \in Devices
        /\ device'.id = device.id /\ device'.headset = device.headset
        /\ UNCHANGED <<have_device, revoked_pairing_id, guard, now, minted, history>>
    BY <1>0, <1>5 DEF Heartbeat, Start, Stop, TypeOK, Devices
  <2>2. TypeOK'
    BY <1>0, <2>1 DEF TypeOK, guard, history
  <2>3. IdsInv'
    BY <1>0, <2>1 DEF IdsInv
  <2>4. ThrottleInv'
    BY <1>0, <2>1 DEF ThrottleInv, guard, history
  <2> QED BY <2>2, <2>3, <2>4 DEF ControlInv
<1>6. ASSUME NEW id \in 0 .. minted, Settings(id) PROVE ControlInv'
  BY <1>1, <1>6 DEF Settings
<1>7. ASSUME NEW id \in 0 .. minted, Unpair(id) PROVE ControlInv'
  <2>1. have_device
    BY <1>7 DEF Unpair, AuthStatus
  <2> QED BY <1>7, <2>1, ForgetKeeps DEF Unpair
<1>8. CASE ForceUnpair
  BY <1>8, ForgetKeeps DEF ForceUnpair
<1>9. CASE ExpireStale
  BY <1>9, ForgetKeeps DEF ExpireStale
<1>10. CASE Second
  <2>1. now' = now + 1 /\ now' \in 0 .. MaxTime
    BY <1>0, <1>10 DEF Second, TypeOK
  <2>2. TypeOK'
    BY <1>0, <1>10, <2>1 DEF Second, TypeOK, guard, history
  <2>3. IdsInv'
    BY <1>0, <1>10 DEF Second, IdsInv
  <2>4. ThrottleInv'
    <3>1. /\ lockouts * Cooldown \in Int /\ (lockouts - 1) * Cooldown \in Int
          /\ now \in Int /\ since \in Int
      BY <1>0 DEF TypeOK
    <3> QED BY <1>0, <1>10, <2>1, <3>1 DEF Second, ThrottleInv, guard, history
  <2> QED BY <2>2, <2>3, <2>4 DEF ControlInv
<1> QED BY <1>1, <1>2, <1>3, <1>4, <1>5, <1>6, <1>7, <1>8, <1>9, <1>10
     DEF Next, PairThrottled

\* The registry's counters and ids add up in every reachable state.
THEOREM ControlInvariant == Spec => []ControlInv
BY InitControl, StepControl, PTL DEF Spec

-----------------------------------------------------------------------------
\* Multiplication is monotonic: fewer cooldowns take less time.
LEMMA FewerCooldowns ==
    ASSUME NEW a \in Nat, NEW b \in Nat, a <= b
    PROVE  /\ a * Cooldown <= b * Cooldown /\ MaxFails * a <= MaxFails * b
           /\ a * Cooldown \in Nat /\ b * Cooldown \in Nat
           /\ MaxFails * a \in Nat /\ MaxFails * b \in Nat
<1>1. PICK c \in Nat : b = a + c
  <2>1. b - a \in Nat /\ b = a + (b - a)
    OBVIOUS
  <2> QED BY <2>1
<1>2. /\ b * Cooldown = a * Cooldown + c * Cooldown
      /\ MaxFails * b = MaxFails * a + MaxFails * c
  BY <1>1
<1>3. /\ a * Cooldown \in Nat /\ c * Cooldown \in Nat
      /\ MaxFails * a \in Nat /\ MaxFails * c \in Nat
  OBVIOUS
<1> QED BY <1>2, <1>3

\* More than k * MaxFails wrong codes in a row take k whole cooldowns, for
\* every limit and every cooldown of the guard of POST /pair.
THEOREM PairIsThrottled == Spec => []ThrottleRate
<1>1. ControlInv => ThrottleRate
  <2> SUFFICES ASSUME ControlInv, NEW k \in 0 .. MaxTime, wrong > MaxFails * k
               PROVE  now >= since + k * Cooldown
    BY DEF ThrottleRate
  <2>1. /\ k \in Nat /\ lockouts \in Nat /\ since \in Nat /\ now \in Nat
        /\ pair_fails \in Nat /\ pair_fails < MaxFails
        /\ ThrottleInv
    BY DEF ControlInv, TypeOK
  <2>2. k <= lockouts
    <3> SUFFICES ASSUME lockouts + 1 <= k PROVE FALSE
      BY <2>1
    <3>1. MaxFails * (lockouts + 1) <= MaxFails * k
      BY <2>1, FewerCooldowns
    <3>2. MaxFails * (lockouts + 1) = MaxFails * lockouts + MaxFails
      BY <2>1
    <3>3. MaxFails * lockouts \in Nat /\ MaxFails * k \in Nat
      BY <2>1
    <3> QED BY <2>1, <3>1, <3>2, <3>3 DEF ThrottleInv
  <2>3. CASE pair_fails > 0
    <3>1. now >= since + lockouts * Cooldown
      BY <2>1, <2>3 DEF ThrottleInv
    <3>2. /\ k * Cooldown <= lockouts * Cooldown
          /\ k * Cooldown \in Nat /\ lockouts * Cooldown \in Nat
      BY <2>1, <2>2, FewerCooldowns
    <3> QED BY <2>1, <3>1, <3>2
  <2>4. CASE pair_fails = 0
    <3>1. k # lockouts
      <4>1. wrong = MaxFails * lockouts /\ MaxFails * lockouts \in Nat
        BY <2>1, <2>4 DEF ThrottleInv
      <4> QED BY <2>1, <4>1
    <3>2. k <= lockouts - 1 /\ lockouts - 1 \in Nat /\ lockouts > 0
      BY <2>1, <2>2, <3>1
    <3>3. now >= since + (lockouts - 1) * Cooldown
      BY <2>1, <3>2 DEF ThrottleInv
    <3>4. /\ k * Cooldown <= (lockouts - 1) * Cooldown
          /\ k * Cooldown \in Nat /\ (lockouts - 1) * Cooldown \in Nat
      BY <2>1, <3>2, FewerCooldowns
    <3> QED BY <2>1, <3>3, <3>4
  <2> QED BY <2>1, <2>3, <2>4
<1> QED BY <1>1, ControlInvariant, PTL

\* A forgotten device's id is never accepted again by
\* bsdr_control_auth_status, and it is told so as long as it is the previous
\* one.
THEOREM ForgottenStaysForgotten == Spec => [](OnlyNewestAccepted /\ PreviousGets410)
<1>1. ControlInv => OnlyNewestAccepted /\ PreviousGets410
  <2> SUFFICES ASSUME ControlInv PROVE OnlyNewestAccepted /\ PreviousGets410
    OBVIOUS
  <2>1. minted \in Nat /\ IdsInv /\ revoked_pairing_id \in Nat
    BY DEF ControlInv, TypeOK
  <2>2. OnlyNewestAccepted
    BY <2>1 DEF OnlyNewestAccepted, AuthStatus, IdsInv
  <2>3. PreviousGets410
    BY <2>1 DEF PreviousGets410, AuthStatus, IdsInv, NoId
  <2> QED BY <2>2, <2>3
<1> QED BY <1>1, ControlInvariant, PTL

-----------------------------------------------------------------------------
\* The control server implements the pairing registry: at most one headset at
\* a time, and only its requests count.
THEOREM ImplementsPairing == Spec => PairsOneHeadset
<1> USE DEF Registry!Pair, Registry!StartSharing, Registry!ChangeSettings,
            Registry!StopSharing, Registry!Forget, Registry!pairingVars
<1>1. Init => Registry!PairingInit
  BY DEF Init, Registry!PairingInit
<1>2. ControlInv /\ [Next]_vars => [Registry!PairingNext]_(Registry!pairingVars)
  <2> SUFFICES ASSUME ControlInv, [Next]_vars
               PROVE  Registry!PairingNext \/ UNCHANGED Registry!pairingVars
    OBVIOUS
  <2>0. have_device => device.headset \in Headsets
    BY DEF ControlInv, IdsInv
  <2>1. CASE UNCHANGED vars \/ PairThrottled \/ PairWrongCode \/ PairRefused \/ Second
    BY <2>1 DEF vars, PairThrottled, PairWrongCode, LimitReached, PairRefused, Second
  <2>2. ASSUME NEW h \in Headsets, PairAccepted(h) PROVE Registry!PairingNext
    <3>1. Registry!Pair(h)
      BY <2>2 DEF PairAccepted, MayPair
    <3> QED BY <3>1 DEF Registry!PairingNext
  <2>3. ASSUME NEW id \in 0 .. minted, Heartbeat(id)
        PROVE  UNCHANGED Registry!pairingVars
    BY <2>3 DEF Heartbeat, ControlInv, TypeOK, Devices
  <2>4. ASSUME NEW id \in 0 .. minted, Start(id) PROVE Registry!PairingNext
    <3>1. have_device
      BY <2>4 DEF Start, AuthStatus
    <3>2. Registry!StartSharing(device.headset)
      BY <2>0, <2>4, <3>1, HeadsetsAssumption DEF Start, ControlInv, TypeOK, Devices
    <3> QED BY <2>0, <3>1, <3>2 DEF Registry!PairingNext
  <2>5. ASSUME NEW id \in 0 .. minted, Settings(id)
        PROVE  UNCHANGED Registry!pairingVars
    BY <2>5 DEF Settings, vars
  <2>6. ASSUME NEW id \in 0 .. minted, Stop(id) PROVE Registry!PairingNext
    <3>1. have_device
      BY <2>6 DEF Stop, AuthStatus
    <3>2. Registry!StopSharing(device.headset)
      BY <2>0, <2>6, <3>1, HeadsetsAssumption DEF Stop, ControlInv, TypeOK, Devices
    <3> QED BY <2>0, <3>1, <3>2 DEF Registry!PairingNext
  <2>7. ASSUME have_device, ForgetLocked, UNCHANGED device
        PROVE  Registry!PairingNext
    <3>1. Registry!Forget
      BY <2>0, <2>7, HeadsetsAssumption DEF ForgetLocked
    <3> QED BY <3>1 DEF Registry!PairingNext
  <2>8. ASSUME NEW id \in 0 .. minted, Unpair(id) PROVE Registry!PairingNext
    BY <2>7, <2>8 DEF Unpair, AuthStatus
  <2> QED BY <2>1, <2>2, <2>3, <2>4, <2>5, <2>6, <2>7, <2>8
       DEF Next, ForceUnpair, ExpireStale
<1> QED BY <1>1, <1>2, ControlInvariant, PTL
     DEF Spec, PairsOneHeadset, Registry!PairingSpec
===============================================================================
