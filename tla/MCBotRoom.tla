----------------------------- MODULE MCBotRoom -----------------------------
(***************************************************************************)
(* BotRoom from the state in which the program has restored the bot's      *)
(* session, both settings are on, and the operator is in a room (which one *)
(* makes no difference): that is where calls overlap most.                 *)
(***************************************************************************)
EXTENDS BotRoom

MCInit ==
    /\ Init
    /\ bot_logged_in /\ bot_follow /\ bot_loopback
    /\ operator = CHOOSE r \in Rooms : TRUE

MCSpec == MCInit /\ [][Next]_vars /\ Fairness
=============================================================================
