--------------------------- MODULE RenderContract ---------------------------
(* What the render service promises: a job has one inference at a time, is    *)
(* done only with the result of one that succeeded, and a verdict is final.   *)
(* How jobs are provisioned, retried and watched is left open.                *)
CONSTANT Jobs

Verdicts == {"done", "failed", "cancelled"}

VARIABLES
  phase,   \* where the client sees the job
  work     \* the inference of the job on the worker

vars == <<phase, work>>

Init ==
  /\ phase = [j \in Jobs |-> "absent"]
  /\ work = [j \in Jobs |-> "missing"]

Submit(j) ==
  /\ phase[j] = "absent"
  /\ phase' = [phase EXCEPT ![j] = "open"]
  /\ UNCHANGED work

\* An inference starts only where none runs and none has ended.
Begin(j) ==
  /\ phase[j] # "absent"
  /\ work[j] = "missing"
  /\ work' = [work EXCEPT ![j] = "running"]
  /\ UNCHANGED phase

Finish(j) ==
  /\ work[j] = "running"
  /\ \E end \in {"succeeded", "failed"} : work' = [work EXCEPT ![j] = end]
  /\ UNCHANGED phase

\* The worker goes down under its inferences.
Interrupt ==
  /\ work' = [j \in Jobs |-> IF work[j] = "running" THEN "missing" ELSE work[j]]
  /\ UNCHANGED phase

Close(j) ==
  /\ phase[j] = "open"
  /\ \E v \in Verdicts :
       /\ v = "done" => work[j] = "succeeded"
       /\ phase' = [phase EXCEPT ![j] = v]
  /\ UNCHANGED work

Next ==
  \/ Interrupt
  \/ \E j \in Jobs : Submit(j) \/ Begin(j) \/ Finish(j) \/ Close(j)

Spec == Init /\ [][Next]_vars
=============================================================================
