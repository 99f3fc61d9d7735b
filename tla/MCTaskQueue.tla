----------------------------- MODULE MCTaskQueue -----------------------------
(* A small instance of TaskQueue: one task of any of three kinds, which two   *)
(* owners claim.  The tasks of a queue meet only in the order of their        *)
(* claims, which no property is about.                                        *)
EXTENDS TaskQueue, TLC

BrainParams == [mode |-> "brain", max_steps |-> 2, max_attempts |-> 2,
                priority |-> 0, interval_seconds |-> 0, remaining_runs |-> 1]
SeriesParams == [mode |-> "local", max_steps |-> 3, max_attempts |-> 2,
                 priority |-> 0, interval_seconds |-> 1, remaining_runs |-> 2]
EndlessParams == [SeriesParams EXCEPT !.max_attempts = 3, !.remaining_runs = -1]

\* One task, any of the three kinds.
OneParams == {BrainParams, SeriesParams, EndlessParams}
=============================================================================
