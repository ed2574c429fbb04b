--------------------------- MODULE MCNetworkService ---------------------------
(* NetworkService for TLC; the constants are numbers, given in the cfg.      *)
EXTENDS NetworkService
=============================================================================
