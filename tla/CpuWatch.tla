------------------------------ MODULE CpuWatch ------------------------------
(***************************************************************************)
(* What the security monitor promises about CPU use, without a history:    *)
(* it counts the scans in a row that saw a busy container, and raises the  *)
(* alarm at the Window-th.  A scan that finds a miner raises an alarm of   *)
(* its own and counts for nothing.                                         *)
(***************************************************************************)
EXTENDS Naturals

CONSTANT Window

VARIABLES
    streak,  \* busy scans in a row, as far as Window
    alarm    \* "none", "cpu" or "miner"

WatchInit == streak = 0 /\ alarm = "none"

BusyScan ==
    /\ alarm = "none"
    /\ streak' = streak + 1
    /\ alarm' = IF streak' = Window THEN "cpu" ELSE "none"

IdleScan ==
    /\ alarm = "none"
    /\ streak' = 0
    /\ alarm' = "none"

MinerFound ==
    /\ alarm = "none"
    /\ alarm' = "miner"
    /\ UNCHANGED streak

WatchNext == BusyScan \/ IdleScan \/ MinerFound

WatchSpec == WatchInit /\ [][WatchNext]_<<streak, alarm>>
=============================================================================
