-------------------------- MODULE SecurityMonitor --------------------------
(***************************************************************************)
(* SecurityMonitor (security_monitor.py): one scan of a container.  CPU    *)
(* samples are "high" (at or above the threshold) or "low"; process names  *)
(* are what the two block lists make of them.                              *)
(***************************************************************************)
EXTENDS Naturals, Sequences

CONSTANTS
    SustainedChecks     \* sustained_checks of the monitor

ASSUME SustainedChecksAssumption == SustainedChecks \in Nat \ {0}

VARIABLES
    cpuHistory, \* _cpu_history, oldest sample first
    alert       \* the last alert scan_container returned

monitorVars == <<cpuHistory, alert>>

MonitorTypeOK ==
    /\ cpuHistory \in Seq({"high", "low"})
    /\ Len(cpuHistory) <= SustainedChecks
    /\ alert \in {"none", "mining_detected", "anomaly_cpu", "suspicious_process"}

MonitorInit ==
    /\ cpuHistory = <<>>
    /\ alert = "none"

\* Mutant: the window drops the newest samples, not the oldest.
FirstSamples(s) ==
    IF Len(s) > SustainedChecks THEN SubSeq(s, 1, SustainedChecks) ELSE s

\* _cpu_history[-sustained_checks:]
LastSamples(s) ==
    IF Len(s) > SustainedChecks
    THEN SubSeq(s, Len(s) - SustainedChecks + 1, Len(s))
    ELSE s

\* Mutant: one sample too few is enough.
SustainedEarly(s) ==
    /\ Len(s) >= SustainedChecks - 1
    /\ \A i \in 1..Len(s) : s[i] = "high"

Sustained(s) ==
    /\ Len(s) >= SustainedChecks
    /\ \A i \in 1..Len(s) : s[i] = "high"

\* scan_container.  A docker top that fails yields no names ("clean"), a
\* docker stats that fails yields 0%.  A miner is returned before the sample
\* is taken, so it leaves no trace in the history.
Scan(names, sample) ==
    IF names = "miner"
    THEN /\ alert' = "mining_detected"
         /\ UNCHANGED cpuHistory
    ELSE /\ cpuHistory' = LastSamples(Append(cpuHistory, sample))
         /\ alert' = IF Sustained(cpuHistory') THEN "anomaly_cpu"
                     ELSE IF names = "suspicious" THEN "suspicious_process"
                     ELSE "none"

Critical == {"mining_detected", "anomaly_cpu"}

-----------------------------------------------------------------------------

\* The busy samples at the end of the history.
Streak ==
    LET high == {n \in 0..Len(cpuHistory) :
                   \A i \in (Len(cpuHistory) - n + 1)..Len(cpuHistory) :
                      cpuHistory[i] = "high"}
    IN CHOOSE n \in high : \A m \in high : m <= n

Watch == INSTANCE CpuWatch
    WITH Window <- SustainedChecks,
         streak <- Streak,
         alarm  <- IF alert = "anomaly_cpu" THEN "cpu"
                   ELSE IF alert = "mining_detected" THEN "miner"
                   ELSE "none"

\* The rolling window raises the alarm at exactly the SustainedChecks-th busy
\* sample in a row: not earlier, not later, and never because of samples
\* older than the window (security_monitor.py:137).
ImplementsCpuWatch == Watch!WatchSpec
=============================================================================
