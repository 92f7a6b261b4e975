----------------------------- MODULE MCMonitors -----------------------------
(***************************************************************************)
(* Values of the constants of Monitors for TLC.                            *)
(***************************************************************************)
EXTENDS Monitors, TLC

CONSTANTS t1, t2, p1, p2

\* The first retry comes sooner than the schedule, the second with it.
MCRetryAfter == [n \in 1 .. MaxFailures |-> IF n = 1 THEN 1 ELSE Interval]
=============================================================================
