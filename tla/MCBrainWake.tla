----------------------------- MODULE MCBrainWake -----------------------------
(* A small instance of BrainWake: brain tasks that may be continued, tried    *)
(* again and rescheduled.                                                     *)
EXTENDS BrainWake

CONSTANTS t1, turn, worker_owner

MCParams == {[mode |-> "brain", max_steps |-> 2, max_attempts |-> 2,
              priority |-> 0, interval_seconds |-> 0, remaining_runs |-> 1]}
=============================================================================
