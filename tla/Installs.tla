------------------------------ MODULE Installs ------------------------------
(* The two ways in which code comes to a running agent, which share no state: *)
(* plugins that register tools and packs from the market.                     *)
EXTENDS PluginLoads, PackMarket

(* What is installed is what was asked for and verified: tools belong to the  *)
(* plugin that registered them, and a pack's files are those verified         *)
(* (plugins/manifest.py, marketplace/registry.py).                            *)
InstallsHold == PluginToolsAreOwned /\ InstalledIsVerified
=============================================================================
