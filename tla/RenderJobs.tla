----------------------------- MODULE RenderJobs -----------------------------
(* The MuseTalk render service (runtime/musetalk_jobs): a table of jobs, an   *)
(* API process that creates and cancels them, one daemon that moves them on,  *)
(* and a rented GPU worker reached over ssh.                                  *)
(*                                                                            *)
(* A transition of a job is one SQLite transaction that names the state it    *)
(* expects; between reading a job and that transaction the daemon talks to    *)
(* the worker, and the API may change the job.  InvalidTransition leaves      *)
(* tick_once and ends the daemon; systemd starts it again, and what it kept   *)
(* in memory is gone.                                                         *)
(*                                                                            *)
(* The worker's volume survives a stop: what an inference left on it is its   *)
(* evidence.  An inference that was cut off leaves none that tells it from    *)
(* one never started.                                                         *)
EXTENDS Integers, FiniteSets

CONSTANTS MaxJobs,      \* bound: jobs ever created; a job is named by its order
          MaxRetries,   \* max_infra_retries
          Grace,        \* idle_grace_seconds, in passes of the daemon
          MaxCrashes    \* bound: deaths of the daemon other than by a refusal

ASSUME RenderAssumption ==
  /\ MaxJobs \in Nat
  /\ MaxRetries \in Nat
  /\ Grace \in Nat
  /\ MaxCrashes \in Nat

Jobs == 1 .. MaxJobs

Terminal == {"done", "failed", "cancelled"}

States == {"absent", "queued", "provisioning", "staging", "running",
           "collecting"} \cup Terminal

\* _ALLOWED of store.py.  There is no way from staging to collecting.
Allowed == [s \in States |->
  CASE s = "queued"       -> {"provisioning", "cancelled", "failed"}
    [] s = "provisioning" -> {"staging", "queued", "failed", "cancelled"}
    [] s = "staging"      -> {"running", "queued", "failed", "cancelled"}
    [] s = "running"      -> {"collecting", "failed", "cancelled"}
    [] s = "collecting"   -> {"done", "running", "failed", "cancelled"}
    [] OTHER              -> {}]

VARIABLES
  job,       \* the table: state and retries of every job
  inputs,    \* the jobs whose two input files are in place on the VPS
  results,   \* the jobs whose result file is in place on the VPS
  creating,  \* create calls between the row and the files
  attempt,   \* the evidence of each job's inference on the worker's volume
  pod,       \* does the rented worker run?
  daemon,    \* where the reconciler is, and what it keeps in memory
  crashes    \* deaths so far, for MaxCrashes

vars == <<job, inputs, results, creating, attempt, pod, daemon, crashes>>

Evidence == {"missing", "running", "succeeded", "failed"}

\* at "resting" the daemon is about to start a pass; in a pass it goes through
\* todo: it has read job "cur" in state "seen" and is to act on it ("acting"),
\* or has acted and is to write its "plan" ("writing"); then it looks whether
\* the worker is idle, and may be about to stop it ("stopping").
Phases == {"resting", "between", "acting", "writing", "stopping"}
Daemons == [phase : Phases, todo : SUBSET Jobs, cur : 0 .. MaxJobs, seen : States,
            plan : States, idle : -1 .. Grace, stopped : BOOLEAN]
Started == [phase |-> "resting", todo |-> {}, cur |-> 0, seen |-> "absent",
            plan |-> "absent", idle |-> -1, stopped |-> FALSE]

Open(j) == job[j].state \notin Terminal \cup {"absent"}

\* list_active.
Active == {j \in Jobs : Open(j)}

Moved(j, state, retried) ==
  [job EXCEPT ![j] = [state |-> state, retries |-> @.retries + (IF retried THEN 1 ELSE 0)]]

-----------------------------------------------------------------------------
(* The API process *)

\* create: the row is inserted as queued before the files are copied.
Create(j) ==
  /\ job[j].state = "absent"
  /\ \A k \in 1 .. (j - 1) : job[k].state # "absent"
  /\ job' = Moved(j, "queued", FALSE)
  /\ creating' = creating \cup {j}
  /\ UNCHANGED <<inputs, results, attempt, pod, daemon, crashes>>

InputsStaged(j) ==
  /\ j \in creating
  /\ inputs' = inputs \cup {j}
  /\ creating' = creating \ {j}
  /\ UNCHANGED <<job, results, attempt, pod, daemon, crashes>>

\* The upload is refused or cannot be copied; a job the daemon has moved on by
\* then is not failed, since the transition expects "queued".
InputsRefused(j) ==
  /\ j \in creating
  /\ job' = IF job[j].state = "queued" THEN Moved(j, "failed", FALSE) ELSE job
  /\ creating' = creating \ {j}
  /\ UNCHANGED <<inputs, results, attempt, pod, daemon, crashes>>

\* The API process dies in create.
CreateBreaksOff(j) ==
  /\ j \in creating
  /\ creating' = creating \ {j}
  /\ UNCHANGED <<job, inputs, results, attempt, pod, daemon, crashes>>

\* A cancel whose expected state is gone is refused: no step.
Cancel(j) ==
  /\ Open(j)
  /\ job' = Moved(j, "cancelled", FALSE)
  /\ UNCHANGED <<inputs, results, creating, attempt, pod, daemon, crashes>>

-----------------------------------------------------------------------------
(* The worker *)

\* The wrapper of launch writes exit_code when the inference has ended.
AttemptEnds(j) ==
  /\ attempt[j] = "running"
  /\ \E end \in {"succeeded", "failed"} : attempt' = [attempt EXCEPT ![j] = end]
  /\ UNCHANGED <<job, inputs, results, creating, pod, daemon, crashes>>

CutOff == [j \in Jobs |-> IF attempt[j] = "running" THEN "missing" ELSE attempt[j]]

\* The provider stops or restarts the pod.
Interruption ==
  /\ pod = "running"
  /\ pod' = "stopped"
  /\ attempt' = CutOff
  /\ UNCHANGED <<job, inputs, results, creating, daemon, crashes>>

\* What inspect_attempt may say: a transport failure is "unknown", and a pod
\* that does not run cannot be reached.
Inspected(j) == {"unknown"} \cup (IF pod = "running" THEN {attempt[j]} ELSE {})

-----------------------------------------------------------------------------
(* The daemon *)

\* tick_once starts with the jobs that are active now.
PassBegins ==
  /\ daemon.phase = "resting"
  /\ daemon' = [daemon EXCEPT !.phase = "between", !.todo = Active]
  /\ UNCHANGED <<job, inputs, results, creating, attempt, pod, crashes>>

\* tick reads the next job, in the order of creation; one that has ended since
\* is left alone.
Look ==
  /\ daemon.phase = "between"
  /\ \E j \in daemon.todo :
       /\ \A k \in daemon.todo : j <= k
       /\ daemon' = IF Open(j)
                    THEN [daemon EXCEPT !.phase = "acting", !.cur = j,
                                        !.seen = job[j].state, !.todo = @ \ {j}]
                    ELSE [daemon EXCEPT !.todo = @ \ {j}]
  /\ UNCHANGED <<job, inputs, results, creating, attempt, pod, crashes>>

\* tick returns the job unchanged.
Freed == [daemon EXCEPT !.phase = "between", !.cur = 0, !.seen = "absent", !.plan = "absent"]

LetBe == daemon' = Freed

Plan(state) == daemon' = [daemon EXCEPT !.phase = "writing", !.plan = state]

Retriable(j) == job[j].retries < MaxRetries

\* _retry_or_fail.
RetryOrFail(j, fallback) == Plan(IF Retriable(j) THEN fallback ELSE "failed")

At(state) == daemon.phase = "acting" /\ daemon.seen = state

TakeUp ==
  /\ At("queued")
  /\ Plan("provisioning")
  /\ UNCHANGED <<job, inputs, results, creating, attempt, pod, crashes>>

\* ensure_running: the worker answers, is started, or neither comes about; a
\* start that is not answered in time may still have an effect.
Provision ==
  /\ At("provisioning")
  /\ \/ pod' = "running" /\ Plan("staging")
     \/ pod' \in {pod, "running"} /\ RetryOrFail(daemon.cur, "queued")
  /\ UNCHANGED <<job, inputs, results, creating, attempt, crashes>>

\* What the answer to inspect_or_start makes of a job in staging.
StagingPlan(answer) ==
  CASE answer \in {"running", "unknown"} -> "running"
    [] answer = "succeeded"              -> "collecting"
    [] OTHER                             -> "failed"

\* inspect_or_start finds evidence, or cannot tell; then nothing is launched.
StageInspect ==
  /\ At("staging")
  /\ \E answer \in Inspected(daemon.cur) \ {"missing"} : Plan(StagingPlan(answer))
  /\ UNCHANGED <<job, inputs, results, creating, attempt, pod, crashes>>

\* Fault: an inference that cannot be seen is taken for one to be launched.
StageLaunchBlind ==
  /\ At("staging")
  /\ pod = "running"
  /\ daemon.cur \in inputs
  /\ attempt' = [attempt EXCEPT ![daemon.cur] = "running"]
  /\ Plan("running")
  /\ UNCHANGED <<job, inputs, results, creating, pod, crashes>>

\* Nothing was launched before: the inputs are copied and the inference is
\* launched.  Copying fails without the files, and may fail with them; a launch
\* that is not answered in time may or may not have taken effect.
StageLaunch ==
  /\ At("staging")
  /\ "missing" \in Inspected(daemon.cur)
  /\ \/ RetryOrFail(daemon.cur, "queued") /\ UNCHANGED attempt
     \/ /\ daemon.cur \in inputs
        /\ attempt' \in {attempt, [attempt EXCEPT ![daemon.cur] = "running"]}
        /\ Plan("running")
  /\ UNCHANGED <<job, inputs, results, creating, pod, crashes>>

\* Fault: a failed inference is waited for.
WatchDeaf ==
  /\ At("running")
  /\ IF "succeeded" \in Inspected(daemon.cur) THEN Plan("collecting") ELSE LetBe
  /\ UNCHANGED <<job, inputs, results, creating, attempt, pod, crashes>>

\* A missing inference is ambiguous and is never launched again from here.
Watch ==
  /\ At("running")
  /\ \E answer \in Inspected(daemon.cur) :
       CASE answer = "succeeded" -> Plan("collecting")
         [] answer = "failed"    -> Plan("failed")
         [] OTHER                -> LetBe
  /\ UNCHANGED <<job, inputs, results, creating, attempt, pod, crashes>>

\* collect: the result is downloaded and moved into place, or it is not.
Collect ==
  /\ At("collecting")
  /\ \/ /\ "succeeded" \in Inspected(daemon.cur)
        /\ results' = results \cup {daemon.cur}
        /\ Plan("done")
     \/ RetryOrFail(daemon.cur, "running") /\ UNCHANGED results
  /\ UNCHANGED <<job, inputs, creating, attempt, pod, crashes>>

\* The transitions that count as a retry.
Retries(from, to) == \/ to = "queued"
                     \/ from = "collecting" /\ to = "running"

\* The transaction: the state must be the one that was read, and the step legal.
Accepted(j) ==
  /\ job[j].state = daemon.seen
  /\ daemon.plan \in Allowed[daemon.seen]

Write ==
  /\ daemon.phase = "writing"
  /\ Accepted(daemon.cur)
  /\ job' = Moved(daemon.cur, daemon.plan, Retries(daemon.seen, daemon.plan))
  /\ daemon' = Freed
  /\ UNCHANGED <<inputs, results, creating, attempt, pod, crashes>>

\* InvalidTransition ends the daemon; systemd starts it again.
Refused ==
  /\ daemon.phase = "writing"
  /\ ~ Accepted(daemon.cur)
  /\ daemon' = Started
  /\ UNCHANGED <<job, inputs, results, creating, attempt, pod, crashes>>

\* Fault: the flag of an earlier stop is kept while there is work.
IdleCheckKeepingFlag ==
  /\ daemon.phase = "between" /\ daemon.todo = {}
  /\ daemon' =
       IF Active # {} THEN [daemon EXCEPT !.phase = "resting", !.idle = -1]
       ELSE IF daemon.stopped THEN [daemon EXCEPT !.phase = "resting"]
       ELSE IF daemon.idle < Grace THEN [daemon EXCEPT !.phase = "resting", !.idle = @ + 1]
       ELSE [daemon EXCEPT !.phase = "stopping"]
  /\ UNCHANGED <<job, inputs, results, creating, attempt, pod, crashes>>

\* Fault: the worker is stopped whatever there is to do.
IdleCheckBlind ==
  /\ daemon.phase = "between" /\ daemon.todo = {}
  /\ daemon' = [daemon EXCEPT !.phase = "stopping"]
  /\ UNCHANGED <<job, inputs, results, creating, attempt, pod, crashes>>

\* maybe_stop_idle_worker, up to the call.
IdleCheck ==
  /\ daemon.phase = "between" /\ daemon.todo = {}
  /\ daemon' =
       IF Active # {} THEN [daemon EXCEPT !.phase = "resting", !.idle = -1, !.stopped = FALSE]
       ELSE IF daemon.stopped THEN [daemon EXCEPT !.phase = "resting"]
       ELSE IF daemon.idle < Grace THEN [daemon EXCEPT !.phase = "resting", !.idle = @ + 1]
       ELSE [daemon EXCEPT !.phase = "stopping"]
  /\ UNCHANGED <<job, inputs, results, creating, attempt, pod, crashes>>

StopSucceeds ==
  /\ daemon.phase = "stopping"
  /\ pod' = "stopped"
  /\ attempt' = CutOff
  /\ daemon' = [daemon EXCEPT !.phase = "resting", !.stopped = TRUE]
  /\ UNCHANGED <<job, inputs, results, creating, crashes>>

StopFails ==
  /\ daemon.phase = "stopping"
  /\ daemon' = [daemon EXCEPT !.phase = "resting"]
  /\ UNCHANGED <<job, inputs, results, creating, attempt, pod, crashes>>

\* The daemon dies anywhere.
Crash ==
  /\ crashes < MaxCrashes
  /\ crashes' = crashes + 1
  /\ daemon' = Started
  /\ UNCHANGED <<job, inputs, results, creating, attempt, pod>>

-----------------------------------------------------------------------------
Init ==
  /\ job = [j \in Jobs |-> [state |-> "absent", retries |-> 0]]
  /\ inputs = {} /\ results = {} /\ creating = {}
  /\ attempt = [j \in Jobs |-> "missing"]
  /\ pod = "stopped"
  /\ daemon = Started
  /\ crashes = 0

API(j) ==
  \/ Create(j) \/ InputsStaged(j) \/ InputsRefused(j) \/ CreateBreaksOff(j)
  \/ Cancel(j)

Act == TakeUp \/ Provision \/ StageInspect \/ StageLaunch \/ Watch \/ Collect

Daemon ==
  \/ PassBegins \/ Look \/ Act \/ Write \/ Refused
  \/ IdleCheck \/ StopSucceeds \/ StopFails

Next ==
  \/ \E j \in Jobs : API(j) \/ AttemptEnds(j)
  \/ Interruption
  \/ Daemon
  \/ Crash

Spec == Init /\ [][Next]_vars

\* The loop of main never rests for good and systemd restarts it; the worker is
\* reached and the stop comes through if tried again and again; inferences end.
Fairness ==
  /\ WF_vars(Daemon)
  /\ SF_vars(StopSucceeds)
  /\ SF_vars(Watch /\ daemon'.phase = "writing")
  /\ \A j \in Jobs : WF_vars(AttemptEnds(j))

FairSpec == Spec /\ Fairness

-----------------------------------------------------------------------------
(* Properties *)

\* Types; the retries stay within their budget on every path.
TypeOK ==
  /\ job \in [Jobs -> [state : States, retries : 0 .. MaxRetries]]
  /\ inputs \subseteq Jobs /\ results \subseteq Jobs /\ creating \subseteq Jobs
  /\ attempt \in [Jobs -> Evidence]
  /\ pod \in {"running", "stopped"}
  /\ daemon \in Daemons
  /\ crashes \in 0 .. MaxCrashes

\* A job is done only if its inference succeeded and its result is on the VPS,
\* through crashes between the download and the transaction and through an
\* interruption of the worker in between.
DoneHasItsResult ==
  \A j \in Jobs : job[j].state = "done" => j \in results /\ attempt[j] = "succeeded"

\* The idle stop never cuts off an inference of a job somebody still waits for,
\* though the table is read before the stop and jobs arrive in between.
StopSparesOpenJobs ==
  [][daemon.phase = "stopping" /\ pod' # pod =>
       \A j \in Active : attempt[j] # "running"]_vars

\* The service keeps its contract: one inference at a time, done only by
\* success and with the result on the VPS, verdicts are final.
Contract == INSTANCE RenderContract WITH
  phase <- [j \in Jobs |-> IF Open(j) THEN "open" ELSE job[j].state],
  work <- attempt

KeepsLifecycle == Contract!Spec /\ []DoneHasItsResult

\* If no job is open any more, the worker that is paid for is stopped.
IdleWorkerStops == <>[](Active = {}) => <>[](pod = "stopped")

\* A running job whose inference was cut off, or whose worker is gone: nothing
\* starts either again.
Stranded(j) == job[j].state = "running" /\ (attempt[j] = "missing" \/ pod = "stopped")

\* A job whose inference succeeded before the table said that it runs.
Blocked(j) == job[j].state = "staging" /\ attempt[j] = "succeeded"

\* Every job comes to a verdict unless it, or one before it, is one of the two.
EndsOrStrands ==
  \A j \in Jobs : Open(j) ~> \/ ~ Open(j)
                             \/ Stranded(j)
                             \/ \E k \in 1 .. j : Blocked(k)

\* What the design says of a restart: the evidence decides whether to resume,
\* collect, retry or fail.  So what the daemon decides must be a legal step,
\* unless the job was changed under it.
\* The code does not keep this one (README, Divergences).
DecisionsAreLegal ==
  daemon.phase = "writing" /\ job[daemon.cur].state = daemon.seen
    => daemon.plan \in Allowed[daemon.seen]
=============================================================================
