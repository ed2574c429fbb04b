--------------------------- MODULE MCSteamVRDriver ---------------------------
(* SteamVRDriver for TLC; the bound is given in the cfg.                     *)
EXTENDS SteamVRDriver
=============================================================================
