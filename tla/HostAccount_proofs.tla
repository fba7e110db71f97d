------------------------ MODULE HostAccount_proofs ------------------------
(***************************************************************************)
(* Proofs about HostAccount: for any number of accounts, sockets and       *)
(* threads that join the bot, a logout lasts across whatever it overlaps,  *)
(* and every presence socket that no login overwrote has one owner.        *)
(***************************************************************************)
EXTENDS HostAccount, FiniteSetTheorems, TLAPS

\* Thread t is on its way to store the socket of a login or a restore.
Connecting(t) ==
    \/ at[t] = "connect"
    \/ at[t] \in {"save", "print", "flush"} /\ next[t] = "connect"

\* After a logout nobody is logging in, and what a thread that saves the
\* session has read, and will leave in a file that still has its name, is not
\* a token.  Threads that join the bot never log in.
LogoutInv ==
    /\ \A t \in Threads : at[t] = "connect" => next[t] = "connect"
    /\ \A t \in Joiners : next[t] # "connect"
    /\ forgotten =>
           /\ at[Web] # "login" /\ \A t \in Threads : ~Connecting(t)
           /\ ~cloud_logged_in /\ token = NoToken /\ cloud_ws = NoSocket
    /\ forgotten /\ at[Web] # "clear" =>
           /\ file \notin Accounts
           /\ \A t \in linked : at[t] = "flush" => got[t] \notin Accounts

\* The app's socket is open, a thread that closes one holds it alone, and
\* every other socket is held by such a thread.
SocketInv ==
    /\ cloud_ws \in open \union {NoSocket}
    /\ \A t \in Threads : Closing(t) /\ ws[t] # NoSocket =>
           /\ ws[t] \in open /\ ws[t] # cloud_ws
           /\ \A u \in Threads : Closing(u) /\ ws[u] = ws[t] => u = t
    /\ \A s \in open \ {cloud_ws} : \E t \in Threads : Closing(t) /\ ws[t] = s

LEMMA InitTypeOK == Init => TypeOK
  BY NullAssumption DEF Init, TypeOK, Threads, Stages

\* Every step keeps the types.
LEMMA StepTypeOK == TypeOK /\ [Next]_vars => TypeOK'
<1> SUFFICES ASSUME TypeOK, [Next]_vars PROVE TypeOK'
  OBVIOUS
<1> USE DEF TypeOK, Stages, account, sockets, stored, call, Threads, Some
<1>1. ASSUME NEW t \in Threads, SaveOpens(t) PROVE TypeOK'
  BY <1>1 DEF SaveOpens, Goto
<1>2. ASSUME NEW t \in Threads, SavePrints(t) PROVE TypeOK'
  BY <1>2 DEF SavePrints, Goto
<1>3. ASSUME NEW t \in Threads, SaveCloses(t) PROVE TypeOK'
  BY <1>3 DEF SaveCloses, Goto
<1>4. ASSUME NEW t \in Threads, NEW s \in Sockets \union {NoSocket},
             LoginConnects(t, s)
      PROVE  TypeOK'
  BY <1>4 DEF LoginConnects, Goto
<1>5. ASSUME NEW t \in Threads, NEW s \in Sockets \union {NoSocket},
             ReopenAdopts(t, s)
      PROVE  TypeOK'
  BY <1>5 DEF ReopenAdopts, Goto, Opens, MayAdopt
<1>6. ASSUME NEW t \in Threads, Renew(t) PROVE TypeOK'
  BY <1>6 DEF Renew, Goto, Idle
<1>7. ASSUME NEW t \in Threads, RenewFails(t) PROVE TypeOK'
  BY <1>7 DEF RenewFails, Goto
<1>8. ASSUME NEW t \in Threads, Renewed(t) PROVE TypeOK'
  BY <1>8 DEF Renewed, Goto, MayRenew, Save
<1>9. ASSUME NEW t \in Threads, ReopenTakes(t) PROVE TypeOK'
  BY <1>9 DEF ReopenTakes, Goto
<1>10. ASSUME NEW t \in Threads, ReopenCloses(t) PROVE TypeOK'
  BY <1>10 DEF ReopenCloses, Goto, Closes
<1>11. ASSUME NEW t \in Threads, ReopenDiscards(t) PROVE TypeOK'
  BY <1>11 DEF ReopenDiscards, Goto, MayAdopt
<1>12. ASSUME NEW acc \in Accounts, Login(acc) PROVE TypeOK'
  BY <1>12 DEF Login, Goto, Idle
<1>13. ASSUME LoginRefused PROVE TypeOK'
  BY <1>13 DEF LoginRefused, Goto
<1>14. ASSUME LoginGranted PROVE TypeOK'
  BY <1>14 DEF LoginGranted, Goto, Save
<1>15. ASSUME Logout PROVE TypeOK'
  BY <1>15 DEF Logout, Goto, Idle, Restoring
<1>16. ASSUME SessionClear PROVE TypeOK'
  BY <1>16 DEF SessionClear, Goto
<1>17. ASSUME LogoutCloses PROVE TypeOK'
  BY <1>17 DEF LogoutCloses, Goto, Closes
<1>18. ASSUME Ensure PROVE TypeOK'
  BY <1>18 DEF Ensure, Goto
<1>19. ASSUME SeesAlive PROVE TypeOK'
  BY <1>19 DEF SeesAlive, Goto, EnsureDone
<1>20. ASSUME SeesDown PROVE TypeOK'
  BY <1>20 DEF SeesDown, Goto, EnsureDone
<1>21. ASSUME NEW stage \in {"idle", "fetch"}, RoomsFetch(stage)
       PROVE  TypeOK'
  BY <1>21 DEF RoomsFetch, Goto
<1>22. ASSUME NEW stage \in {"idle", "reopen"}, RoomsAnswer(stage)
       PROVE  TypeOK'
  BY <1>22 DEF RoomsAnswer, Goto
<1>23. ASSUME Restart PROVE TypeOK'
  BY <1>23 DEF Restart
<1>24. ASSUME RestoreReads PROVE TypeOK'
  BY <1>24 DEF RestoreReads, Goto
<1>25. ASSUME RestoreRejected PROVE TypeOK'
  BY <1>25 DEF RestoreRejected, Goto
<1>26. ASSUME Restored PROVE TypeOK'
  BY <1>26 DEF Restored, Goto, Save
<1>27. ASSUME NEW s \in Sockets, Drop(s) PROVE TypeOK'
  BY <1>27 DEF Drop
<1>28. ASSUME TimePasses PROVE TypeOK'
  BY <1>28 DEF TimePasses
<1>29. ASSUME NEW on \in BOOLEAN, WishesShare(on) PROVE TypeOK'
  BY <1>29 DEF WishesShare
<1>30. ASSUME Ticks PROVE TypeOK'
  BY <1>30 DEF Ticks, Goto, Idle
<1>31. ASSUME TickDecides PROVE TypeOK'
  BY <1>31 DEF TickDecides, Goto
<1>32. ASSUME EnsureReturns PROVE TypeOK'
  BY <1>32 DEF EnsureReturns, Goto
<1>33. CASE UNCHANGED vars
  BY <1>33 DEF vars
<1> QED BY <1>1, <1>2, <1>3, <1>4, <1>5, <1>6, <1>7, <1>8, <1>9, <1>10, <1>11,
    <1>12, <1>13, <1>14, <1>15, <1>16, <1>17, <1>18, <1>19, <1>20, <1>21,
    <1>22, <1>23, <1>24, <1>25, <1>26, <1>27, <1>28, <1>29, <1>30,
    <1>31, <1>32, <1>33 DEF Next, Thread, Operator, Tick, Boot

\* Type correctness of the host account, whatever overlaps.
THEOREM TypeCorrect == Spec => []TypeOK
<1>1. Init => TypeOK
  BY InitTypeOK
<1>2. TypeOK /\ [Next]_vars => TypeOK'
  BY StepTypeOK
<1> QED BY <1>1, <1>2, PTL DEF Spec

-----------------------------------------------------------------------------
LEMMA InitLogoutInv == Init => LogoutInv
  BY NullAssumption, ThreadAssumption DEF Init, LogoutInv, Connecting, Threads

\* Every step keeps what a logout has cleared.
LEMMA StepLogoutInv == TypeOK /\ LogoutInv /\ [Next]_vars => LogoutInv'
<1> SUFFICES ASSUME TypeOK, LogoutInv, [Next]_vars PROVE LogoutInv'
  OBVIOUS
<1> USE NullAssumption, ThreadAssumption
    DEF TypeOK, LogoutInv, Connecting, account, sockets, stored, call, Threads
<1>1. ASSUME NEW t \in Threads, SaveOpens(t) PROVE LogoutInv'
  BY <1>1 DEF SaveOpens, Goto
\* After a logout there is no token to read.
<1>2. ASSUME NEW t \in Threads, SavePrints(t) PROVE LogoutInv'
  BY <1>2 DEF SavePrints, Goto
\* The file gets what the thread has read, if it still has its name.
<1>3. ASSUME NEW t \in Threads, SaveCloses(t) PROVE LogoutInv'
  BY <1>3 DEF SaveCloses, Goto
\* Nobody is connecting after a logout.
<1>4. ASSUME NEW t \in Threads, NEW s \in Sockets \union {NoSocket},
             LoginConnects(t, s)
      PROVE  LogoutInv'
  BY <1>4 DEF LoginConnects, Goto
<1>5. ASSUME NEW t \in Threads, NEW s \in Sockets \union {NoSocket},
             ReopenAdopts(t, s)
      PROVE  LogoutInv'
  BY <1>5 DEF ReopenAdopts, Goto, Opens, MayAdopt
<1>6. ASSUME NEW t \in Threads, Renew(t) PROVE LogoutInv'
  BY <1>6 DEF Renew, Goto, Idle
<1>7. ASSUME NEW t \in Threads, RenewFails(t) PROVE LogoutInv'
  BY <1>7 DEF RenewFails, Goto
\* The renewal is adopted only while logged in: not after a logout.
<1>8. ASSUME NEW t \in Threads, Renewed(t) PROVE LogoutInv'
  BY <1>8 DEF Renewed, Goto, MayRenew, Save
<1>9. ASSUME NEW t \in Threads, ReopenTakes(t) PROVE LogoutInv'
  BY <1>9 DEF ReopenTakes, Goto
<1>10. ASSUME NEW t \in Threads, ReopenCloses(t) PROVE LogoutInv'
  BY <1>10 DEF ReopenCloses, Goto, Closes
<1>11. ASSUME NEW t \in Threads, ReopenDiscards(t) PROVE LogoutInv'
  BY <1>11 DEF ReopenDiscards, Goto, MayAdopt
<1>12. ASSUME NEW acc \in Accounts, Login(acc) PROVE LogoutInv'
  BY <1>12 DEF Login, Goto, Idle
<1>13. ASSUME LoginRefused PROVE LogoutInv'
  BY <1>13 DEF LoginRefused, Goto
\* The login began after the logout.
<1>14. ASSUME LoginGranted PROVE LogoutInv'
  BY <1>14 DEF LoginGranted, Goto, Save
\* Everybody else who connects is the restore of the main loop, which
\* Restoring excludes.
<1>15. ASSUME Logout PROVE LogoutInv'
  BY <1>15 DEF Logout, Goto, Idle, Restoring
\* From here on no save that has begun reaches the file.
<1>16. ASSUME SessionClear PROVE LogoutInv'
  BY <1>16 DEF SessionClear, Goto
<1>17. ASSUME LogoutCloses PROVE LogoutInv'
  BY <1>17 DEF LogoutCloses, Goto, Closes
<1>18. ASSUME Ensure PROVE LogoutInv'
  BY <1>18 DEF Ensure, Goto
<1>19. ASSUME SeesAlive PROVE LogoutInv'
  BY <1>19 DEF SeesAlive, Goto, EnsureDone
<1>20. ASSUME SeesDown PROVE LogoutInv'
  BY <1>20 DEF SeesDown, Goto, EnsureDone
<1>21. ASSUME NEW stage \in {"idle", "fetch"}, RoomsFetch(stage)
       PROVE  LogoutInv'
  BY <1>21 DEF RoomsFetch, Goto
<1>22. ASSUME NEW stage \in {"idle", "reopen"}, RoomsAnswer(stage)
       PROVE  LogoutInv'
  BY <1>22 DEF RoomsAnswer, Goto
\* A restart amid the clearing may find the file again.
<1>23. ASSUME Restart PROVE LogoutInv'
  BY <1>23 DEF Restart
<1>24. ASSUME RestoreReads PROVE LogoutInv'
  BY <1>24 DEF RestoreReads, Goto
<1>25. ASSUME RestoreRejected PROVE LogoutInv'
  BY <1>25 DEF RestoreRejected, Goto
\* A restore ends the logout.
<1>26. ASSUME Restored PROVE LogoutInv'
  BY <1>26 DEF Restored, Goto, Save
<1>27. ASSUME NEW s \in Sockets, Drop(s) PROVE LogoutInv'
  BY <1>27 DEF Drop
<1>28. ASSUME TimePasses PROVE LogoutInv'
  BY <1>28 DEF TimePasses
<1>29. ASSUME NEW on \in BOOLEAN, WishesShare(on) PROVE LogoutInv'
  BY <1>29 DEF WishesShare
<1>30. ASSUME Ticks PROVE LogoutInv'
  BY <1>30 DEF Ticks, Goto, Idle
<1>31. ASSUME TickDecides PROVE LogoutInv'
  BY <1>31 DEF TickDecides, Goto
<1>32. ASSUME EnsureReturns PROVE LogoutInv'
  BY <1>32 DEF EnsureReturns, Goto
<1>33. CASE UNCHANGED vars
  BY <1>33 DEF vars
<1> QED BY <1>1, <1>2, <1>3, <1>4, <1>5, <1>6, <1>7, <1>8, <1>9, <1>10, <1>11,
    <1>12, <1>13, <1>14, <1>15, <1>16, <1>17, <1>18, <1>19, <1>20, <1>21,
    <1>22, <1>23, <1>24, <1>25, <1>26, <1>27, <1>28, <1>29, <1>30,
    <1>31, <1>32, <1>33 DEF Next, Thread, Operator, Tick, Boot

\* A logout is final: for any number of threads that renew, reopen and save at
\* the same time, nothing logs the account in again, and no token is left in
\* the app or in the file.
THEOREM LogoutIsFinal == Spec => []LogoutLasts
<1>1. Init => TypeOK /\ LogoutInv
  BY InitTypeOK, InitLogoutInv
<1>2. TypeOK /\ LogoutInv /\ [Next]_vars => (TypeOK /\ LogoutInv)'
  BY StepTypeOK, StepLogoutInv
<1>3. LogoutInv => LogoutLasts
  BY DEF LogoutInv, LogoutLasts
<1> QED BY <1>1, <1>2, <1>3, PTL DEF Spec

-----------------------------------------------------------------------------
LEMMA InitSocketInv == Init => SocketInv
  BY NullAssumption DEF Init, SocketInv, Closing, Threads

\* Every step keeps one owner for each socket.
LEMMA StepSocketInv == TypeOK /\ SocketInv /\ [Next]_vars => SocketInv'
<1> SUFFICES ASSUME TypeOK, SocketInv, [Next]_vars PROVE SocketInv'
  OBVIOUS
<1> USE NullAssumption, ThreadAssumption
    DEF TypeOK, SocketInv, Closing, Some, account, sockets, stored, call,
        Threads
<1>1. ASSUME NEW t \in Threads, SaveOpens(t) PROVE SocketInv'
  BY <1>1 DEF SaveOpens, Goto
<1>2. ASSUME NEW t \in Threads, SavePrints(t) PROVE SocketInv'
  BY <1>2 DEF SavePrints, Goto
<1>3. ASSUME NEW t \in Threads, SaveCloses(t) PROVE SocketInv'
  BY <1>3 DEF SaveCloses, Goto
\* The socket that is overwritten is the app's, so no thread holds it.
<1>4. ASSUME NEW t \in Threads, NEW s \in Sockets \union {NoSocket},
             LoginConnects(t, s)
      PROVE  SocketInv'
  BY <1>4 DEF LoginConnects, Goto
\* The app had none, and the new one was not open before.
<1>5. ASSUME NEW t \in Threads, NEW s \in Sockets \union {NoSocket},
             ReopenAdopts(t, s)
      PROVE  SocketInv'
  BY <1>5 DEF ReopenAdopts, Goto, Opens, MayAdopt
<1>6. ASSUME NEW t \in Threads, Renew(t) PROVE SocketInv'
  BY <1>6 DEF Renew, Goto, Idle
<1>7. ASSUME NEW t \in Threads, RenewFails(t) PROVE SocketInv'
  BY <1>7 DEF RenewFails, Goto
<1>8. ASSUME NEW t \in Threads, Renewed(t) PROVE SocketInv'
  BY <1>8 DEF Renewed, Goto, MayRenew, Save
\* The socket passes from the app to the thread.
<1>9. ASSUME NEW t \in Threads, ReopenTakes(t) PROVE SocketInv'
  BY <1>9 DEF ReopenTakes, Goto
\* The thread held its socket alone.
<1>10. ASSUME NEW t \in Threads, ReopenCloses(t) PROVE SocketInv'
  BY <1>10 DEF ReopenCloses, Goto, Closes
<1>11. ASSUME NEW t \in Threads, ReopenDiscards(t) PROVE SocketInv'
  BY <1>11 DEF ReopenDiscards, Goto, MayAdopt
<1>12. ASSUME NEW acc \in Accounts, Login(acc) PROVE SocketInv'
  BY <1>12 DEF Login, Goto, Idle
<1>13. ASSUME LoginRefused PROVE SocketInv'
  BY <1>13 DEF LoginRefused, Goto
<1>14. ASSUME LoginGranted PROVE SocketInv'
  BY <1>14 DEF LoginGranted, Goto, Save
\* The socket passes from the app to the web thread.
<1>15. ASSUME Logout PROVE SocketInv'
  BY <1>15 DEF Logout, Goto, Idle, Restoring
<1>16. ASSUME SessionClear PROVE SocketInv'
  BY <1>16 DEF SessionClear, Goto
<1>17. ASSUME LogoutCloses PROVE SocketInv'
  BY <1>17 DEF LogoutCloses, Goto, Closes
<1>18. ASSUME Ensure PROVE SocketInv'
  BY <1>18 DEF Ensure, Goto
<1>19. ASSUME SeesAlive PROVE SocketInv'
  BY <1>19 DEF SeesAlive, Goto, EnsureDone
<1>20. ASSUME SeesDown PROVE SocketInv'
  BY <1>20 DEF SeesDown, Goto, EnsureDone
<1>21. ASSUME NEW stage \in {"idle", "fetch"}, RoomsFetch(stage)
       PROVE  SocketInv'
  BY <1>21 DEF RoomsFetch, Goto
<1>22. ASSUME NEW stage \in {"idle", "reopen"}, RoomsAnswer(stage)
       PROVE  SocketInv'
  BY <1>22 DEF RoomsAnswer, Goto
<1>23. ASSUME Restart PROVE SocketInv'
  BY <1>23 DEF Restart
<1>24. ASSUME RestoreReads PROVE SocketInv'
  BY <1>24 DEF RestoreReads, Goto
<1>25. ASSUME RestoreRejected PROVE SocketInv'
  BY <1>25 DEF RestoreRejected, Goto
<1>26. ASSUME Restored PROVE SocketInv'
  BY <1>26 DEF Restored, Goto, Save
<1>27. ASSUME NEW s \in Sockets, Drop(s) PROVE SocketInv'
  BY <1>27 DEF Drop
<1>28. ASSUME TimePasses PROVE SocketInv'
  BY <1>28 DEF TimePasses
<1>29. ASSUME NEW on \in BOOLEAN, WishesShare(on) PROVE SocketInv'
  BY <1>29 DEF WishesShare
<1>30. ASSUME Ticks PROVE SocketInv'
  BY <1>30 DEF Ticks, Goto, Idle
<1>31. ASSUME TickDecides PROVE SocketInv'
  BY <1>31 DEF TickDecides, Goto
<1>32. ASSUME EnsureReturns PROVE SocketInv'
  BY <1>32 DEF EnsureReturns, Goto
<1>33. CASE UNCHANGED vars
  BY <1>33 DEF vars
<1> QED BY <1>1, <1>2, <1>3, <1>4, <1>5, <1>6, <1>7, <1>8, <1>9, <1>10, <1>11,
    <1>12, <1>13, <1>14, <1>15, <1>16, <1>17, <1>18, <1>19, <1>20, <1>21,
    <1>22, <1>23, <1>24, <1>25, <1>26, <1>27, <1>28, <1>29, <1>30,
    <1>31, <1>32, <1>33 DEF Next, Thread, Operator, Tick, Boot

\* Every presence socket that no login overwrote is the app's, or is held by
\* exactly one thread that will close it.
THEOREM SocketsHaveOwners == Spec => []SocketsKept
<1>1. Init => TypeOK /\ SocketInv
  BY InitTypeOK, InitSocketInv
<1>2. TypeOK /\ SocketInv /\ [Next]_vars => (TypeOK /\ SocketInv)'
  BY StepTypeOK, StepSocketInv
<1>3. TypeOK /\ SocketInv => SocketsKept
  <2> SUFFICES
        ASSUME TypeOK, SocketInv, NEW s \in open \ {cloud_ws}
        PROVE  Cardinality({t \in Threads : Closing(t) /\ ws[t] = s}) = 1
    BY DEF SocketsKept
  <2>1. PICK t \in Threads : Closing(t) /\ ws[t] = s
    BY DEF SocketInv
  <2>2. s # NoSocket
    BY NullAssumption DEF TypeOK
  <2>3. {u \in Threads : Closing(u) /\ ws[u] = s} = {t}
    BY <2>1, <2>2 DEF SocketInv
  <2> QED BY <2>3, FS_Singleton
<1> QED BY <1>1, <1>2, <1>3, PTL DEF Spec
=============================================================================
