-------------------------- MODULE MCNetworkReceiver --------------------------
(* The traffic of the instances of NetworkReceiver that TLC checks.         *)
EXTENDS NetworkReceiver

MCNoTraffic   == <<>>
MCOneTracking == <<"tracking">>
MCOneVideo    == <<"video">>
MCTwoTracking == <<"tracking", "tracking">>
\* A heartbeat, then a tracking frame; a datagram that is too short.
MCMixedTcp    == <<"control", "tracking">>
MCMixedUdp    == <<"video", "runt">>
=============================================================================
