---------------------------- MODULE StatsCollector ----------------------------
(***************************************************************************)
(* phonevr::StatsCollector: record_frame reads the clock, then takes the   *)
(* mutex, appends the time and trims frame_times_ to the last second, whose*)
(* size get_stats reports as the frame rate.  Between the two another      *)
(* caller may record a later time.  A component without a specification of *)
(* its own, see HostProcess.  The latency totals and the other counters    *)
(* are sums nothing reads back, and are left out.                          *)
(***************************************************************************)
EXTENDS Naturals, Sequences, FiniteSets, SequencesExt

CONSTANTS
    Second,         \* the window of record_frame, in ticks of the clock
    MaxTime         \* the clock's last tick (a bound)

ASSUME TimeAssumption == Second \in Nat /\ MaxTime \in Nat

VARIABLES
    now,            \* std::chrono::steady_clock
    stamp,          \* of each caller: the time record_frame read, not recorded yet
    frame_times,    \* frame_times_
    recorded        \* history: the times recorded since the last reset

statsVars == <<now, stamp, frame_times, recorded>>

NewStats(callers, ti, st, ft, re) ==
    ti = 0 /\ st = [t \in callers |-> 0] /\ ft = <<>> /\ re = <<>>

StatsInit(callers) == NewStats(callers, now, stamp, frame_times, recorded)

StatsLost(callers) == NewStats(callers, now', stamp', frame_times', recorded')

Tick ==
    /\ now < MaxTime
    /\ now' = now + 1
    /\ UNCHANGED <<stamp, frame_times, recorded>>

ReadClock(t) ==
    /\ stamp' = [stamp EXCEPT ![t] = now]
    /\ UNCHANGED <<now, frame_times, recorded>>

\* Mutant: at most one time is erased for each that is appended.
TrimOne(s) == IF Last(s) - Head(s) > Second THEN Tail(s) ELSE s

\* back() - front() is of unsigned numbers: negative would be huge, so a time
\* is also erased by one that was read before it and recorded after.
Outdates(b, f) == b < f \/ b - f > Second

TooOld(s, i) == Outdates(Last(s), s[i])

\* What is in front is erased as long as it is too old.
Erased(s) == Cardinality({i \in 1 .. Len(s) : \A j \in 1 .. i : TooOld(s, j)})

Trim(s) == SubSeq(s, Erased(s) + 1, Len(s))

\* Under the mutex; the time read goes out of scope.
RecordFrame(t) ==
    /\ frame_times' = Trim(Append(frame_times, stamp[t]))
    /\ recorded' = Append(recorded, stamp[t])
    /\ stamp' = [stamp EXCEPT ![t] = 0]
    /\ UNCHANGED now

\* reset, by whoever reads the statistics.
Reset == frame_times' = <<>> /\ recorded' = <<>> /\ UNCHANGED <<now, stamp>>
=============================================================================
