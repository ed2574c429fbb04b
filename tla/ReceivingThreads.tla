-------------------------- MODULE ReceivingThreads --------------------------
(***************************************************************************)
(* What the owner of some receiving threads may count on when it starts    *)
(* and stops them by a flag that each thread looks at before every receive *)
(* that can lead to a callback: a thread is busy only while the owner runs *)
(* or is about to join it, and once the flag is down no thread becomes     *)
(* busy again, so each calls back at most once more.  The flag may be up   *)
(* with no threads: a start that fails leaves it so.                       *)
(*                                                                         *)
(* NetworkReceiver implements this with its control and its video thread,  *)
(* read step by step; HostProcess, which has those two threads as a check, *)
(* a receive and a callback, implements it as well.  What WinMain counts   *)
(* on is thus what NetworkReceiver gives.                                  *)
(***************************************************************************)
CONSTANT Threads

VARIABLES
    owner,      \* how far the owner is
    flag,       \* the flag its threads look at
    place       \* where each thread is

threadsVars == <<owner, flag, place>>

Over(t) == place[t] \in {"none", "done"}

ThreadsTypeOK ==
    /\ owner \in {"setup", "running", "stopping", "gone"}
    /\ flag \in BOOLEAN
    /\ place \in [Threads -> {"none", "polling", "busy", "done"}]

ThreadsInit ==
    /\ owner = "setup"
    /\ flag = FALSE
    /\ place = [t \in Threads |-> "none"]

RaiseFlag == owner = "setup" /\ flag' = TRUE /\ UNCHANGED <<owner, place>>

BeginThreads ==
    /\ owner = "setup"
    /\ owner' = "running"
    /\ flag' = TRUE
    /\ place' = [t \in Threads |-> "polling"]

StopThreads ==
    /\ owner \in {"setup", "running"}
    /\ owner' = "stopping"
    /\ flag' = FALSE
    /\ UNCHANGED place

JoinThreads ==
    /\ owner = "stopping"
    /\ \A t \in Threads : Over(t)
    /\ owner' = "gone"
    /\ UNCHANGED <<flag, place>>

\* No thread was ever begun.
GiveUp ==
    /\ owner = "setup"
    /\ owner' = "gone"
    /\ flag' \in BOOLEAN
    /\ UNCHANGED place

\* The process is over, whatever its threads were doing.
ProcessEnds ==
    /\ owner' = "setup"
    /\ flag' = FALSE
    /\ place' = [t \in Threads |-> "none"]

LookAtFlag(t) ==
    /\ place[t] = "polling"
    /\ place' = [place EXCEPT ![t] = IF flag THEN "busy" ELSE "done"]
    /\ UNCHANGED <<owner, flag>>

\* Whatever was received has been called back with, or dropped.
LoopAgain(t) ==
    /\ place[t] = "busy"
    /\ place' = [place EXCEPT ![t] = "polling"]
    /\ UNCHANGED <<owner, flag>>

ThreadsNext ==
    \/ RaiseFlag \/ BeginThreads \/ StopThreads \/ JoinThreads \/ GiveUp \/ ProcessEnds
    \/ \E t \in Threads : LookAtFlag(t) \/ LoopAgain(t)

ThreadsSpec == ThreadsInit /\ [][ThreadsNext]_threadsVars

-----------------------------------------------------------------------------
(* What follows for the owner. *)

\* A thread that may call back is one the owner still waits for.
BusyIsOwned == \A t \in Threads : ~Over(t) => owner \in {"running", "stopping"}

\* With the flag down a thread that is not busy stays so: of each thread at
\* most the receive it was in when the flag fell can still call back.
NoneGetsBusy == \A t \in Threads : ~flag /\ place[t] /= "busy" => place'[t] /= "busy"
OneLateCallback == [][NoneGetsBusy]_threadsVars
=============================================================================
