---------------------------- MODULE MCPluginHost ----------------------------
(***************************************************************************)
(* PluginHost for TLC: two bots that register the same tool, and a plugin  *)
(* with media effects; a chain of dependencies and a cycle.                *)
(***************************************************************************)
EXTENDS PluginHost, TLC

CONSTANTS bot, rival, fx, talk, swap

MCPlugins == {bot, rival, fx}
MCBots == {bot, rival}
MCEffects == {fx}
MCTools == {talk, swap}
MCToolOf == (bot :> talk) @@ (rival :> talk) @@ (fx :> swap)
Chain == (bot :> {}) @@ (rival :> {bot}) @@ (fx :> {rival})
Cycle == (bot :> {rival}) @@ (rival :> {bot}) @@ (fx :> {})
Fan == (bot :> {fx}) @@ (rival :> {fx}) @@ (fx :> {})
MCDepGraphs == {Chain, Cycle, Fan}
=============================================================================
