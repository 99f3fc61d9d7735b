------------------------------ MODULE TaskQueue ------------------------------
(* The durable task queue of the control plane (runtime/queue.py).            *)
(*                                                                            *)
(* Every command of the queue runs inside locked_store: it reads the store    *)
(* under an exclusive file lock, changes it, and replaces the file.  A        *)
(* command that raises writes nothing.  So one command is one atomic step     *)
(* here, and a refused command is no step at all; what interleaves is the     *)
(* commands of the clients, the passage of time, and clients that stop.       *)
(*                                                                            *)
(* Times are kept relative to now(): run_in stands for run_at - now() and     *)
(* lease.left for expires_at - now(), so Tick lowers both and the model needs *)
(* no bound on the length of a behaviour.  Two queued tasks that have both    *)
(* been due for longer than Horizon are no longer ordered by their run_at.    *)
EXTENDS Integers, Sequences

CONSTANTS Tasks,         \* task ids
          StartupTasks,  \* the ids that start with "startup-"
          Owners,        \* claimants: model turns and the local worker
          Worker,        \* the owner name of the local worker
          Nobody,        \* no owner
          Params,        \* what a task may be enqueued with
          LeaseSecs,     \* lease lengths asked for
          Delays,        \* distances from now() of requested start times
          Horizon,       \* bound on how long a task is known to be overdue
          MaxRevision    \* bound: tasks are rescheduled below this revision

Modes == {"brain", "local"}
Terminal == {"completed", "failed", "cancelled"}
Statuses == {"absent", "queued", "running", "awaiting_brain"} \cup Terminal

ParamRecords == [mode : Modes, max_steps : Nat \ {0}, max_attempts : Nat \ {0},
                 priority : Int, interval_seconds : Nat, remaining_runs : Int \ {0}]

ASSUME QueueAssumption ==
  /\ StartupTasks \subseteq Tasks
  /\ Worker \in Owners
  /\ Nobody \notin Owners
  /\ Params \subseteq ParamRecords
  /\ Params # {}
  /\ LeaseSecs \subseteq Nat \ {0}
  /\ Delays \subseteq Int
  /\ Horizon \in Nat
  /\ MaxRevision \in Nat

VARIABLES
  task,   \* the mutable part of every task of the store
  cfg,    \* what the task was enqueued with
  order,  \* the ids in the order of store["tasks"]
  held    \* the claim answers clients still remember

vars == <<task, cfg, order, held>>

Leases == [owner : Owners \cup {Nobody}, token : Nat, left : Nat]
NoLease == [owner |-> Nobody, token |-> 0, left |-> 0]

\* claims counts the tokens drawn for the task: uuid4 never repeats one, so the
\* n-th token of a task is n.  faulted is history: did an attempt of the task
\* ever fail or run out of its lease?
TaskRecords == [status : Statuses, revision : Nat, step : Nat, attempts : Nat,
                run_in : Int, remaining : Int, signal : Nat, lease : Leases,
                claims : Nat, faulted : BOOLEAN]

NewTask == [status |-> "absent", revision |-> 0, step |-> 0, attempts |-> 0,
            run_in |-> 0, remaining |-> 1, signal |-> 0, lease |-> NoLease,
            claims |-> 0, faulted |-> FALSE]

\* What a client learns from a claim and presents again later.
Receipts == [task : Tasks, owner : Owners, token : Nat, revision : Nat]

\* A start time d from now, forgotten beyond the horizon.
StartIn(d) == IF d < -Horizon THEN -Horizon ELSE d

-----------------------------------------------------------------------------
(* Leases run out, budgets run out *)

Exhausted(k, c) == k.attempts >= c.max_attempts

\* Fault: a lease that is being looked at never seems to have run out.
ExpiredNever(k) == k.status = "running" /\ k.lease.left < 0

Expired(k) == k.status = "running" /\ k.lease.left = 0

\* An attempt ends, or a waiting task is moved: its lease is void and its
\* revision tells.
Released(k, status) ==
  [k EXCEPT !.status = status, !.revision = @ + 1, !.lease = NoLease]

LeaseLost(k, c) ==
  IF Exhausted(k, c)
  THEN [Released(k, "failed") EXCEPT !.faulted = TRUE]
  ELSE [Released(k, "queued") EXCEPT !.faulted = TRUE, !.run_in = 0]

\* expire_leases, for one task.
Reaped(k, c) ==
  IF Expired(k) THEN LeaseLost(k, c)
  ELSE IF k.status = "queued" /\ Exhausted(k, c) THEN Released(k, "failed")
  ELSE k

AllReaped == [t \in Tasks |-> Reaped(task[t], cfg[t])]

WithinBudget(k, c) == k.attempts < c.max_attempts /\ k.step < c.max_steps

Due(k, c) == k.status = "queued" /\ k.run_in <= 0 /\ WithinBudget(k, c)

Claimable(k, c) ==
  \/ c.mode = "brain" /\ k.status = "awaiting_brain" /\ WithinBudget(k, c)
  \/ Due(k, c)

\* The sort key of cmd_claim: priority, then run_at, then the order of arrival.
Precedes(u, t, now) ==
  \/ cfg[u].priority > cfg[t].priority
  \/ /\ cfg[u].priority = cfg[t].priority
     /\ \/ now[u].run_in < now[t].run_in
        \/ /\ now[u].run_in = now[t].run_in
           /\ now[u].run_in > -Horizon
           /\ \E i, j \in DOMAIN order : i < j /\ order[i] = u /\ order[j] = t

-----------------------------------------------------------------------------
(* The commands *)

Enqueued(p, d) ==
  [NewTask EXCEPT !.status = "queued", !.revision = 1, !.run_in = StartIn(d),
                  !.remaining = p.remaining_runs]

\* Fault: the id is not looked up first.
EnqueueUnchecked(t, p, d) ==
  /\ task' = [task EXCEPT ![t] = Enqueued(p, d)]
  /\ cfg' = [cfg EXCEPT ![t] = p]
  /\ order' = Append(order, t)
  /\ UNCHANGED held

Enqueue(t, p, d) ==
  /\ task[t].status = "absent"
  /\ task' = [task EXCEPT ![t] = Enqueued(p, d)]
  /\ cfg' = [cfg EXCEPT ![t] = p]
  /\ order' = Append(order, t)
  /\ UNCHANGED held

Claimed(k, o, d) ==
  [k EXCEPT !.status = "running", !.attempts = @ + 1, !.revision = @ + 1,
            !.claims = @ + 1,
            !.lease = [owner |-> o, token |-> k.claims + 1, left |-> d]]

Receipt(t, k) == [task |-> t, owner |-> k.lease.owner, token |-> k.lease.token,
                  revision |-> k.revision]

Candidates(mode) ==
  {t \in Tasks : /\ Claimable(AllReaped[t], cfg[t])
                 /\ mode \in {"any", cfg[t].mode}}

\* A claim with nothing to hand out still writes the expired leases back.
Claim(o, mode, d) ==
  \/ /\ Candidates(mode) = {}
     /\ task' = AllReaped
     /\ UNCHANGED <<cfg, order, held>>
  \/ \E t \in Candidates(mode) :
       /\ \A u \in Candidates(mode) : ~Precedes(u, t, AllReaped)
       /\ task' = [AllReaped EXCEPT ![t] = Claimed(AllReaped[t], o, d)]
       /\ held' = held \cup {Receipt(t, Claimed(AllReaped[t], o, d))}
       /\ UNCHANGED <<cfg, order>>

\* require_lease
LeaseAccepts(k, r) ==
  /\ k.status = "running"
  /\ k.lease.owner = r.owner
  /\ k.lease.token = r.token
  /\ k.lease.left > 0

\* Fault: a renewal counts as a change of the task.
HeartbeatBumping(r, d) ==
  /\ LeaseAccepts(task[r.task], r)
  /\ task' = [task EXCEPT ![r.task].lease.left = d, ![r.task].revision = @ + 1]
  /\ UNCHANGED <<cfg, order, held>>

Heartbeat(r, d) ==
  /\ LeaseAccepts(task[r.task], r)
  /\ task' = [task EXCEPT ![r.task].lease.left = d]
  /\ UNCHANGED <<cfg, order, held>>

\* _schedule_after_success without an explicit time: the next run of a series.
Recurs(k, c) == c.interval_seconds > 0 /\ (k.remaining < 0 \/ k.remaining > 1)

\* Does the task go on after its step number n?  at is <<>>, or the one start
\* time the client asked for.
InSeries(k, c, at) == at = <<>> /\ Recurs(k, c)
GoesOn(k, c, n, continue, at) ==
  n < c.max_steps /\ (continue \/ at # <<>> \/ InSeries(k, c, at))

NextStart(k, c, continue, at) ==
  IF at # <<>> THEN StartIn(at[1])
  ELSE IF InSeries(k, c, at) THEN c.interval_seconds
  ELSE IF GoesOn(k, c, k.step + 1, continue, at) THEN 0 ELSE k.run_in

Credited(k, c, status, continue, at) ==
  [Released(k, status) EXCEPT
     !.step = @ + 1,
     !.remaining = IF InSeries(k, c, at) /\ @ > 1 THEN @ - 1 ELSE @,
     !.run_in = NextStart(k, c, continue, at)]

Committed(k, c, continue, at) ==
  Credited(k, c, IF GoesOn(k, c, k.step + 1, continue, at) THEN "queued" ELSE "completed",
           continue, at)

Commit(r, continue, at) ==
  /\ LeaseAccepts(task[r.task], r)
  /\ r.revision = task[r.task].revision
  /\ task' = [task EXCEPT ![r.task] = Committed(@, cfg[r.task], continue, at)]
  /\ UNCHANGED <<cfg, order, held>>

\* min(3600, 2 ** (attempts - 1)): an attempt is counted before it can fail.
Backoff(n) == LET p == 2 ^ (n - 1) IN IF p \in 1..3600 THEN p ELSE 3600

RetryIn(k, after) == IF after > 0 THEN after ELSE Backoff(k.attempts)

FailedOnce(k, c, retry, after) ==
  IF retry /\ ~Exhausted(k, c)
  THEN [Released(k, "queued") EXCEPT !.faulted = TRUE, !.run_in = RetryIn(k, after)]
  ELSE [Released(k, "failed") EXCEPT !.faulted = TRUE]

Fail(r, retry, after) ==
  /\ LeaseAccepts(task[r.task], r)
  /\ task' = [task EXCEPT ![r.task] = FailedOnce(@, cfg[r.task], retry, after)]
  /\ UNCHANGED <<cfg, order, held>>

Open(k) == k.status \notin Terminal \cup {"absent"}

Cancelled(k) == Released(k, "cancelled")

Cancel(t) ==
  /\ Open(task[t])
  /\ task' = [task EXCEPT ![t] = Cancelled(@)]
  /\ UNCHANGED <<cfg, order, held>>

\* Fault: the running attempt keeps its lease.
RescheduledLeased(k, d) ==
  [k EXCEPT !.status = "queued", !.revision = @ + 1, !.run_in = StartIn(d)]

\* Fault: moving a task does not count as a change.
RescheduledSilently(k, d) ==
  [k EXCEPT !.status = "queued", !.lease = NoLease, !.run_in = StartIn(d)]

Rescheduled(k, d) == [Released(k, "queued") EXCEPT !.run_in = StartIn(d)]

Reschedule(t, d) ==
  /\ Open(task[t])
  /\ task[t].revision < MaxRevision
  /\ task' = [task EXCEPT ![t] = Rescheduled(@, d)]
  /\ UNCHANGED <<cfg, order, held>>

\* Fault: a task is signalled once in its life.
NeedsSignalOnce(k, c) == Due(k, c) /\ c.mode = "brain" /\ k.signal = 0

\* mark_brain_due signals a task once per revision.
NeedsSignal(k, c) == Due(k, c) /\ c.mode = "brain" /\ k.signal # k.revision

Signalled(k, c) ==
  IF NeedsSignal(k, c)
  THEN [k EXCEPT !.status = "awaiting_brain", !.signal = k.revision]
  ELSE k

MarkBrainDue ==
  /\ \E t \in Tasks : NeedsSignal(task[t], cfg[t])
  /\ task' = [t \in Tasks |-> Signalled(task[t], cfg[t])]
  /\ UNCHANGED <<cfg, order, held>>

\* cmd_status expires leases too.
Status ==
  /\ task' = AllReaped
  /\ UNCHANGED <<cfg, order, held>>

\* run_maintenance, at the start of the worker: the startup reports an older
\* release left waiting for a model turn are withdrawn, expired leases released.
Maintain ==
  /\ task' = [t \in Tasks |->
                IF t \in StartupTasks /\ task[t].status = "awaiting_brain"
                THEN Cancelled(task[t])
                ELSE Reaped(task[t], cfg[t])]
  /\ UNCHANGED <<cfg, order, held>>

-----------------------------------------------------------------------------
(* Clients that stop, and time *)

\* The client process ends: what it had claimed is forgotten, not released.
Crash(o) ==
  /\ \E r \in held : r.owner = o
  /\ held' = {r \in held : r.owner # o}
  /\ UNCHANGED <<task, cfg, order>>

\* run_at is read of queued and awaiting tasks only, expires_at of running ones.
Aged(k) ==
  CASE k.status \in {"queued", "awaiting_brain"} ->
         [k EXCEPT !.run_in = StartIn(@ - 1)]
    [] k.status = "running" ->
         [k EXCEPT !.lease.left = IF @ > 0 THEN @ - 1 ELSE 0]
    [] OTHER -> k

Tick ==
  /\ task' = [t \in Tasks |-> Aged(task[t])]
  /\ UNCHANGED <<cfg, order, held>>

-----------------------------------------------------------------------------
Init ==
  /\ task = [t \in Tasks |-> NewTask]
  /\ cfg = [t \in Tasks |-> CHOOSE p \in Params : TRUE]
  /\ order = <<>>
  /\ held = {}

StartTimes == {<<>>} \cup {<<d>> : d \in Delays}

Next ==
  \/ \E t \in Tasks, p \in Params, d \in Delays : Enqueue(t, p, d)
  \/ \E o \in Owners, mode \in Modes \cup {"any"}, d \in LeaseSecs : Claim(o, mode, d)
  \/ \E r \in held, d \in LeaseSecs : Heartbeat(r, d)
  \/ \E r \in held, continue \in BOOLEAN, at \in StartTimes : Commit(r, continue, at)
  \/ \E r \in held, retry \in BOOLEAN, after \in Delays : Fail(r, retry, after)
  \/ \E t \in Tasks : Cancel(t)
  \/ \E t \in Tasks, d \in Delays : Reschedule(t, d)
  \/ MarkBrainDue
  \/ Status
  \/ Maintain
  \/ \E o \in Owners : Crash(o)
  \/ Tick

Spec == Init /\ [][Next]_vars

\* The worker's loop (runtime/worker.py): every pass marks due brain tasks and
\* claims local work, at the latest five seconds after the last; systemd
\* restarts a worker that dies.  Clocks run.  Nobody else has to act.
WorkerPoll == \E d \in LeaseSecs : Claim(Worker, "local", d)

Fairness == WF_vars(Tick) /\ WF_vars(WorkerPoll) /\ WF_vars(MarkBrainDue)

FairSpec == Spec /\ Fairness

-----------------------------------------------------------------------------
(* Properties *)

TypeOK ==
  /\ task \in [Tasks -> TaskRecords]
  /\ cfg \in [Tasks -> Params]
  /\ order \in Seq(Tasks)
  /\ held \subseteq Receipts

\* A task carries a lease exactly while it runs, the lease is the newest one
\* ever handed out for it, and no client remembers a newer one.
OneLeaseholder ==
  /\ \A t \in Tasks :
       IF task[t].status = "running"
       THEN /\ task[t].lease.owner \in Owners
            /\ task[t].lease.token = task[t].claims
       ELSE task[t].lease = NoLease
  /\ \A r \in held : r.token \in 1..task[r.task].claims

\* Whoever holds the lease saw the task's present revision when claiming it: no
\* command bumps the revision of a running task without taking its lease away,
\* so the holder's commit is never refused as stale (cmd_commit).
HolderIsNeverStale ==
  \A r \in held :
    LET k == task[r.task] IN
      k.status = "running" /\ k.lease.token = r.token
        => r.owner = k.lease.owner /\ r.revision = k.revision

\* Each claim is credited with at most one step, whatever is retried, expired
\* or rescheduled in between, and claims stay within the attempt budget.
StepsWithinClaims ==
  \A t \in Tasks :
    LET k == task[t] IN
      /\ k.step + (IF k.status = "running" THEN 1 ELSE 0) <= k.claims
      /\ k.claims = k.attempts
      /\ k.status # "absent" => k.attempts <= cfg[t].max_attempts

\* A brain task that waits in the queue can still be announced to the model:
\* its revision has moved on since it was last signalled (mark_brain_due skips
\* a revision it has signalled), and one that was announced has not changed.
NeverMuted ==
  \A t \in Tasks :
    LET k == task[t] IN
      /\ k.status = "queued" => k.signal < k.revision
      /\ k.status = "awaiting_brain" => k.signal = k.revision /\ cfg[t].mode = "brain"

\* No open task has used up its steps: it would never be due again and nothing
\* would ever end it (the zombie expire_leases is there to prevent).
StepBudgetLeft ==
  \A t \in Tasks : Open(task[t]) => task[t].step < cfg[t].max_steps

\* A task that ended stays as it ended: no late commit, failure, expiry,
\* signal or reschedule changes it.
TerminalIsFinal ==
  [][\A t \in Tasks : task[t].status \in Terminal => task'[t] = task[t]]_vars

\* PROTOCOL.md's stop conditions: a task is given up on after repeated failure
\* or with its steps used up, never after attempts that all succeeded.
\* The code does not keep this one (README, Divergences).
FailureHasAFault ==
  \A t \in Tasks :
    task[t].status = "failed" => task[t].faulted \/ task[t].step = cfg[t].max_steps

\* A lease whose holder is gone is taken back, and a task whose attempts are
\* used up does not stay queued (the docstring of expire_leases).
Orphaned(t) ==
  /\ task[t].status = "running"
  /\ ~\E r \in held : r.task = t /\ r.token = task[t].lease.token
OrphansReclaimed ==
  \A t \in Tasks :
    /\ Orphaned(t) ~> ~Orphaned(t)
    /\ task[t].status = "queued" /\ Exhausted(task[t], cfg[t])
         ~> task[t].status \in Terminal

\* A due brain task is announced, claimed, or moved away.
DueIsAnnounced ==
  \A t \in Tasks :
    cfg[t].mode = "brain" /\ Due(task[t], cfg[t]) ~> ~Due(task[t], cfg[t])

\* The queue keeps the contract of WorkContract: a lease is the token it was
\* claimed with, whatever a lapsed holder still tries.
PhaseOf(k) == CASE k.status = "absent"    -> "none"
                [] k.status = "running"   -> "held"
                [] k.status \in Terminal  -> "done"
                [] OTHER                  -> "open"
Contract == INSTANCE WorkContract WITH
  phase <- [t \in Tasks |-> PhaseOf(task[t])],
  token <- [t \in Tasks |-> task[t].claims],
  steps <- [t \in Tasks |-> task[t].step]
KeepsContract == Contract!Spec
=============================================================================
