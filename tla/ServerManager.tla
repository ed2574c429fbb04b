---------------------------- MODULE ServerManager ----------------------------
(***************************************************************************)
(* phonevr::ServerManager, the launcher's handle on the host process.      *)
(* Nothing tells it that the process ended by itself.  A component without *)
(* a specification of its own, see HostProcess.                            *)
(***************************************************************************)
EXTENDS Naturals

CONSTANT MaxLaunches    \* processes the launcher creates
ASSUME LaunchAssumption == MaxLaunches \in Nat

VARIABLES
    host_running,   \* host_running_
    launches        \* processes created so far

launcherVars == <<host_running, launches>>

ManagerInit == host_running = FALSE /\ launches = 0

\* start_host_process, when CreateProcess succeeds; otherwise nothing changes.
StartHostProcess ==
    /\ ~host_running
    /\ launches < MaxLaunches
    /\ host_running' = TRUE
    /\ launches' = launches + 1

\* Mutant: what TerminateProcess returned is not looked at.
ForgetAlways(ended) == FALSE

HostRunningAfter(ended) == ~ended

\* stop_host_process; `ended' is the result of TerminateProcess.
StopHostProcess(ended) ==
    /\ host_running
    /\ host_running' = HostRunningAfter(ended)
    /\ UNCHANGED launches
=============================================================================
