----------------------------- MODULE MCScheduler -----------------------------
(***************************************************************************)
(* A small instance of Scheduler for TLC: at instant FallBack the clocks   *)
(* fall back by Shift minutes, so that the labels 0 and 1 come twice.  A   *)
(* daily rule and a one-shot are set for label 1, a sunrise rule for an    *)
(* instant.                                                                *)
(***************************************************************************)
EXTENDS Scheduler

CONSTANTS FallBack, Shift

MCLabel == [m \in 0 .. Horizon |-> IF m < FallBack THEN m ELSE m - Shift]

MCTriggers == {[kind |-> "fixed_time", due |-> {1}],
               [kind |-> "once", due |-> {1}],
               [kind |-> "sun", due |-> {3}]}

=============================================================================
