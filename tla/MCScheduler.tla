---------------------------- MODULE MCScheduler ----------------------------
(* Instance of Scheduler.tla for TLC: delays of 0, 1 and 2 ticks; the      *)
(* first is the 10 ms that fetch.c passes.                                 *)
EXTENDS Scheduler

MCMillis == {10, 20, 40}
=============================================================================
