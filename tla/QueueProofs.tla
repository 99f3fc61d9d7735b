----------------------------- MODULE QueueProofs -----------------------------
(* Proofs about TaskQueue, for every set of tasks and owners, all budgets,    *)
(* lease lengths and start times, and about BrainWake, whose processes work   *)
(* on that queue, for every number of deaths.                                 *)
(*                                                                            *)
(* The queue.  The inductive invariant has one part per task (TaskInv) and    *)
(* one per claim answer a client remembers (ReceiptInv).  Every command       *)
(* transforms the record of each task by one of the operators Reaped,         *)
(* Claimed, Committed, ...; so each operator gets one lemma, and a step needs *)
(* only to name the operators it applies.                                     *)
(*                                                                            *)
(* The inbox of wakes.  Its file and both copies of it that a process may     *)
(* hold must be consistent with the queue and the wakes, because either copy  *)
(* may be written back at any time.  What the processes do to the queue are   *)
(* steps of TaskQueue, so its invariant and the fact that revisions only rise *)
(* are used again.                                                            *)
EXTENDS BrainWake, TLAPS

(* What the invariants of TaskQueue say of one task, and three facts that     *)
(* make them inductive: an id not in use was never claimed, no revision is    *)
(* signalled before it exists, and a task that was announced can be claimed.  *)
TaskInv(k, c) ==
  /\ k.status = "running" => k.lease.owner \in Owners /\ k.lease.token = k.claims
  /\ k.status # "running" => k.lease = NoLease
  /\ k.status = "running" => k.step + 1 <= k.claims
  /\ k.step <= k.claims
  /\ k.claims = k.attempts
  /\ k.status # "absent" => k.attempts <= c.max_attempts
  /\ k.status = "queued" => k.signal < k.revision
  /\ k.status = "awaiting_brain" => k.signal = k.revision /\ c.mode = "brain"
  /\ Open(k) => k.step < c.max_steps
  /\ k.status = "absent" => k.claims = 0
  /\ k.signal <= k.revision
  /\ k.status = "awaiting_brain" => k.attempts < c.max_attempts

\* A remembered token was handed out, and the newest one goes with the present
\* revision while the task runs.
ReceiptInv(r, k) ==
  /\ r.token \in 1..k.claims
  /\ k.status = "running" /\ k.lease.token = r.token
       => r.owner = k.lease.owner /\ r.revision = k.revision

IInv ==
  /\ TypeOK
  /\ \A t \in Tasks : TaskInv(task[t], cfg[t])
  /\ \A r \in held : ReceiptInv(r, task[r.task])

-----------------------------------------------------------------------------
(* One lemma per transformation of a task *)

\* How a command may move one task, whichever command it is: leave it alone,
\* enqueue it, claim it, credit it, put it elsewhere, or renew or age its lease.
Moves(k, l) ==
  \/ l = k
  \/ k.status = "absent" /\ l.status = "queued" /\ l.claims = k.claims /\ l.step = k.step
  \/ Open(k) /\ l.status = "running" /\ l.claims = k.claims + 1 /\ l.step = k.step
  \/ /\ k.status = "running" /\ l.status \in {"queued", "completed"}
     /\ l.claims = k.claims /\ l.step = k.step + 1
  \/ /\ Open(k) /\ l.status \in Statuses \ {"absent", "running"}
     /\ l.claims = k.claims /\ l.step = k.step
  \/ /\ k.status = "running" /\ l.status = "running"
     /\ l.claims = k.claims /\ l.step = k.step

\* The revision of a task in the store never falls.
Rises(k, l) == k.status = "absent" \/ l.revision = k.revision \/ l.revision > k.revision

AllRise == \A t \in Tasks : Rises(task[t], task'[t])

AllMove == \A t \in Tasks : Moves(task[t], task'[t])

\* How a task may change when nobody claims it: no token is drawn, and it runs
\* afterwards only if it ran before, under the same lease and revision.
Calm(k, l) ==
  /\ l.claims = k.claims
  /\ l.status = "running" =>
       /\ k.status = "running"
       /\ l.lease.owner = k.lease.owner
       /\ l.lease.token = k.lease.token
       /\ l.revision = k.revision
  /\ Moves(k, l)
  /\ Rises(k, l)

Good(k, c) == k \in TaskRecords /\ TaskInv(k, c)

LEMMA Fields ==
  ASSUME NEW k \in TaskRecords
  PROVE  /\ k.status \in Statuses /\ k.lease \in Leases
         /\ k.revision \in Nat /\ k.step \in Nat /\ k.attempts \in Nat
         /\ k.claims \in Nat /\ k.signal \in Nat
         /\ k.run_in \in Int /\ k.remaining \in Int
  BY DEF TaskRecords

LEMMA ParamFields ==
  ASSUME NEW c \in ParamRecords
  PROVE  /\ c.mode \in Modes /\ c.max_steps \in Nat \ {0}
         /\ c.max_attempts \in Nat \ {0} /\ c.interval_seconds \in Nat
         /\ c.remaining_runs \in Int
  BY DEF ParamRecords

LEMMA Labels ==
  /\ "queued" \in Statuses /\ "running" \in Statuses
  /\ "awaiting_brain" \in Statuses
  /\ "completed" \in Statuses /\ "failed" \in Statuses /\ "cancelled" \in Statuses
  /\ "queued" \in Terminal \cup {"queued"}
  /\ "completed" \in Terminal \cup {"queued"}
  /\ "failed" \in Terminal \cup {"queued"}
  /\ "cancelled" \in Terminal \cup {"queued"}
  /\ Terminal \cup {"queued"} \subseteq Statuses
  BY DEF Statuses, Terminal

LEMMA NoLeaseType == NoLease \in Leases
  BY DEF NoLease, Leases

LEMMA StartInInt == \A d \in Int : StartIn(d) \in Int
  BY QueueAssumption DEF StartIn

LEMMA BackoffInt == \A n \in Nat : Backoff(n) \in Int
  BY DEF Backoff

\* What every command does that ends an attempt or moves a waiting task: the
\* lease goes, the revision rises, the claims and the signal stay.
LetGo(k, l) ==
  /\ l \in TaskRecords
  /\ l.status \in Terminal \cup {"queued"}
  /\ l.lease = NoLease
  /\ l.revision = k.revision + 1
  /\ l.claims = k.claims
  /\ l.attempts = k.attempts
  /\ l.signal = k.signal

LEMMA LetGoGood ==
  ASSUME NEW k, NEW c \in ParamRecords, Good(k, c), Open(k),
         NEW l, LetGo(k, l),
         l.step = k.step \/ (/\ k.status = "running" /\ l.step = k.step + 1
                            /\ l.status \in {"queued", "completed"}),
         l.status = "queued" => l.step < c.max_steps
  PROVE  Good(l, c) /\ Calm(k, l)
<1>1. l \in TaskRecords /\ k \in TaskRecords
  BY DEF Good, LetGo
<1>2. QED
  BY <1>1, Fields, ParamFields
  DEF Good, TaskInv, LetGo, Calm, Moves, Rises, Open, Terminal, Statuses

LEMMA ReleasedLetsGo ==
  ASSUME NEW k \in TaskRecords, NEW status \in Terminal \cup {"queued"}
  PROVE  /\ LetGo(k, Released(k, status))
         /\ Released(k, status).step = k.step
         /\ Released(k, status).status = status
         /\ Released(k, status).run_in = k.run_in
         /\ Released(k, status).remaining = k.remaining
<1>1. k.revision + 1 \in Nat /\ status \in Statuses
  BY Fields, Labels
<1>2. QED
  BY <1>1, NoLeaseType DEF Released, LetGo, TaskRecords

USE DEF Good

\* expire_leases
LEMMA ReapedGood ==
  ASSUME NEW k, NEW c \in ParamRecords, Good(k, c)
  PROVE  Good(Reaped(k, c), c) /\ Calm(k, Reaped(k, c))
<1> DEFINE l == Reaped(k, c)
<1>1. CASE Expired(k)
  <2> DEFINE m == Released(k, "failed")
             n == Released(k, "queued")
  <2>1. LetGo(k, m) /\ m.step = k.step /\ LetGo(k, n) /\ n.step = k.step
    BY Labels, ReleasedLetsGo
  <2>2. LetGo(k, l) /\ l.step = k.step
    <3> HIDE DEF m, n
    <3>1. CASE Exhausted(k, c)
      <4>1. l = [m EXCEPT !.faulted = TRUE]
        BY <1>1, <3>1 DEF Reaped, LeaseLost, m
      <4>2. QED
        BY <2>1, <4>1 DEF LetGo, TaskRecords
    <3>2. CASE ~Exhausted(k, c)
      <4> DEFINE run == 0
      <4>1. l = [n EXCEPT !.faulted = TRUE, !.run_in = run] /\ run \in Int
        BY <1>1, <3>2 DEF Reaped, LeaseLost, n
      <4> HIDE DEF run
      <4>2. QED
        BY <2>1, <4>1 DEF LetGo, TaskRecords
    <3>3. QED
      BY <3>1, <3>2
  <2>3. Open(k)
    BY <1>1 DEF Expired, Open, Terminal
  <2>4. QED
    BY <2>2, <2>3, LetGoGood DEF TaskInv
<1>2. CASE ~Expired(k) /\ k.status = "queued" /\ Exhausted(k, c)
  <2>1. l = Released(k, "failed")
    BY <1>2 DEF Reaped
  <2>2. LetGo(k, l) /\ l.status = "failed" /\ l.step = k.step
    BY <2>1, Labels, ReleasedLetsGo
  <2>3. QED
    BY <1>2, <2>2, LetGoGood DEF Open, Terminal
<1>3. CASE ~Expired(k) /\ ~(k.status = "queued" /\ Exhausted(k, c))
  <2>1. l = k
    BY <1>3 DEF Reaped
  <2>2. QED
    BY <2>1 DEF Calm, Moves, Rises
<1>4. QED
  BY <1>1, <1>2, <1>3

\* The record of a fresh task
LEMMA EnqueuedGood ==
  ASSUME NEW p \in ParamRecords, NEW d \in Int
  PROVE  Good(Enqueued(p, d), p)
<1> DEFINE l == Enqueued(p, d)
<1>1. /\ l \in TaskRecords /\ l.status = "queued" /\ l.revision = 1
      /\ l.step = 0 /\ l.attempts = 0 /\ l.claims = 0 /\ l.signal = 0
      /\ l.lease = NoLease
  BY StartInInt, ParamFields, NoLeaseType
  DEF Enqueued, NewTask, TaskRecords, Statuses
<1>2. QED
  BY <1>1, ParamFields DEF TaskInv, Open

\* cmd_claim, on the task that was chosen
LEMMA ClaimedGood ==
  ASSUME NEW k, NEW c \in ParamRecords, Good(k, c), Claimable(k, c),
         NEW o \in Owners, NEW d \in Nat, NEW t \in Tasks
  PROVE  /\ Good(Claimed(k, o, d), c)
         /\ Claimed(k, o, d).claims = k.claims + 1
         /\ Claimed(k, o, d).lease.token = k.claims + 1
         /\ Receipt(t, Claimed(k, o, d)) \in Receipts
         /\ ReceiptInv(Receipt(t, Claimed(k, o, d)), Claimed(k, o, d))
<1> DEFINE l == Claimed(k, o, d)
<1>1. /\ l \in TaskRecords /\ l.status = "running"
      /\ l.revision = k.revision + 1 /\ l.attempts = k.attempts + 1
      /\ l.claims = k.claims + 1 /\ l.step = k.step /\ l.signal = k.signal
      /\ l.lease.owner = o /\ l.lease.token = k.claims + 1
  <2>1. /\ k.revision + 1 \in Nat /\ k.attempts + 1 \in Nat /\ k.claims + 1 \in Nat
        /\ [owner |-> o, token |-> k.claims + 1, left |-> d] \in Leases
    BY Fields DEF Leases
  <2>2. QED
    BY <2>1, Labels DEF Claimed, TaskRecords
<1>2. k.attempts < c.max_attempts /\ k.step < c.max_steps
  BY DEF Claimable, Due, WithinBudget
<1>3. k.claims + 1 \in Nat /\ k.revision + 1 \in Nat /\ o \in Owners
  BY Fields
<1> HIDE DEF l
<1>4. Receipt(t, l) \in Receipts /\ ReceiptInv(Receipt(t, l), l)
  BY <1>1, <1>3, Fields DEF Receipt, Receipts, ReceiptInv
<1>5. Good(l, c)
  BY <1>1, <1>2, Fields, ParamFields DEF TaskInv, Open
<1>6. QED
  BY <1>1, <1>4, <1>5 DEF l

\* cmd_commit
LEMMA CommittedGood ==
  ASSUME NEW k, NEW c \in ParamRecords, Good(k, c), k.status = "running",
         NEW continue \in BOOLEAN, NEW at, at = <<>> \/ (\E d \in Int : at = <<d>>)
  PROVE  /\ Good(Committed(k, c, continue, at), c)
         /\ Calm(k, Committed(k, c, continue, at))
<1> DEFINE l == Committed(k, c, continue, at)
           on == GoesOn(k, c, k.step + 1, continue, at)
           status == IF on THEN "queued" ELSE "completed"
           m == Released(k, status)
           run == NextStart(k, c, continue, at)
           rest == IF InSeries(k, c, at) /\ m.remaining > 1
                   THEN m.remaining - 1 ELSE m.remaining
<1>1. run \in Int
  <2>1. at # <<>> => StartIn(at[1]) \in Int
    BY StartInInt
  <2>2. k.run_in \in Int /\ c.interval_seconds \in Int
    BY ParamFields, Fields
  <2>3. QED
    BY <2>1, <2>2 DEF NextStart
<1>2. LetGo(k, m) /\ m.step = k.step /\ m.status = status
  BY Labels, ReleasedLetsGo
<1>3. m.remaining \in Int /\ rest \in Int /\ m.step + 1 \in Nat
  BY <1>2, Fields DEF LetGo
<1>4. on => k.step + 1 < c.max_steps
  BY DEF GoesOn
<1>5. l = [m EXCEPT !.step = m.step + 1, !.remaining = rest, !.run_in = run]
  BY DEF Committed, Credited
<1>6. status \in {"queued", "completed"} /\ (status = "queued" => on)
  OBVIOUS
<1> HIDE DEF on, status, run, rest, m, l
<1>7. LetGo(k, l) /\ l.step = k.step + 1 /\ l.status = status
  BY <1>1, <1>2, <1>3, <1>5 DEF LetGo, TaskRecords
<1>8. QED
  BY <1>4, <1>6, <1>7, LetGoGood DEF Open, Terminal, l

\* cmd_fail
LEMMA FailedOnceGood ==
  ASSUME NEW k, NEW c \in ParamRecords, Good(k, c), k.status = "running",
         NEW retry \in BOOLEAN, NEW after \in Int
  PROVE  /\ Good(FailedOnce(k, c, retry, after), c)
         /\ Calm(k, FailedOnce(k, c, retry, after))
<1> DEFINE l == FailedOnce(k, c, retry, after)
           m == Released(k, "failed")
           n == Released(k, "queued")
           run == RetryIn(k, after)
<1>1. run \in Int
  BY BackoffInt, Fields DEF RetryIn
<1>2. LetGo(k, m) /\ m.step = k.step /\ LetGo(k, n) /\ n.step = k.step
  BY Labels, ReleasedLetsGo
<1>3. \/ l = [m EXCEPT !.faulted = TRUE]
      \/ l = [n EXCEPT !.faulted = TRUE, !.run_in = run]
  BY DEF FailedOnce
<1> HIDE DEF l, m, n, run
<1>4. LetGo(k, l) /\ l.step = k.step
  BY <1>1, <1>2, <1>3 DEF LetGo, TaskRecords
<1>5. Open(k)
  BY DEF Open, Terminal
<1>6. QED
  BY <1>4, <1>5, LetGoGood DEF TaskInv, l

\* cmd_cancel
LEMMA CancelledGood ==
  ASSUME NEW k, NEW c \in ParamRecords, Good(k, c), Open(k)
  PROVE  Good(Cancelled(k), c) /\ Calm(k, Cancelled(k))
  BY Labels, ReleasedLetsGo, LetGoGood DEF Cancelled

\* cmd_reschedule
LEMMA RescheduledGood ==
  ASSUME NEW k, NEW c \in ParamRecords, Good(k, c), Open(k), NEW d \in Int
  PROVE  Good(Rescheduled(k, d), c) /\ Calm(k, Rescheduled(k, d))
<1> DEFINE l == Rescheduled(k, d)
           m == Released(k, "queued")
<1>1. LetGo(k, m) /\ m.step = k.step
  BY Labels, ReleasedLetsGo
<1>2. l = [m EXCEPT !.run_in = StartIn(d)] /\ StartIn(d) \in Int
  BY StartInInt DEF Rescheduled
<1> HIDE DEF l, m
<1>3. LetGo(k, l) /\ l.step = k.step
  BY <1>1, <1>2 DEF LetGo, TaskRecords
<1>4. QED
  BY <1>3, LetGoGood DEF TaskInv, l

\* cmd_heartbeat
LEMMA RenewedGood ==
  ASSUME NEW k, NEW c \in ParamRecords, Good(k, c), k.status = "running", NEW d \in Nat
  PROVE  Good([k EXCEPT !.lease.left = d], c) /\ Calm(k, [k EXCEPT !.lease.left = d])
<1> DEFINE l == [k EXCEPT !.lease.left = d]
<1>1. /\ l \in TaskRecords
      /\ l.lease.owner = k.lease.owner /\ l.lease.token = k.lease.token
      /\ l.status = k.status /\ l.revision = k.revision /\ l.step = k.step
      /\ l.attempts = k.attempts /\ l.claims = k.claims /\ l.signal = k.signal
  BY DEF TaskRecords, Leases
<1>2. QED
  BY <1>1 DEF TaskInv, Calm, Moves, Rises, Open

\* mark_brain_due
LEMMA SignalledGood ==
  ASSUME NEW k, NEW c \in ParamRecords, Good(k, c)
  PROVE  Good(Signalled(k, c), c) /\ Calm(k, Signalled(k, c))
<1> DEFINE l == Signalled(k, c)
<1>1. CASE ~NeedsSignal(k, c)
  BY <1>1 DEF Signalled, Calm, Moves, Rises
<1>2. CASE NeedsSignal(k, c)
  <2>1. /\ l \in TaskRecords /\ l.status = "awaiting_brain"
        /\ l.signal = k.revision /\ l.lease = k.lease
        /\ l.revision = k.revision /\ l.step = k.step
        /\ l.attempts = k.attempts /\ l.claims = k.claims
    BY <1>2 DEF Signalled, TaskRecords, Statuses
  <2>2. /\ k.status = "queued" /\ c.mode = "brain"
        /\ k.attempts < c.max_attempts /\ k.step < c.max_steps
    BY <1>2 DEF NeedsSignal, Due, WithinBudget
  <2>3. QED
    BY <2>1, <2>2, Fields, ParamFields DEF TaskInv, Calm, Moves, Rises, Open, Terminal
<1>3. QED
  BY <1>1, <1>2

\* time
LEMMA AgedGood ==
  ASSUME NEW k, NEW c \in ParamRecords, Good(k, c)
  PROVE  Good(Aged(k), c) /\ Calm(k, Aged(k))
<1>1. CASE k.status \in {"queued", "awaiting_brain"}
  <2>1. Aged(k) = [k EXCEPT !.run_in = StartIn(k.run_in - 1)]
    BY <1>1 DEF Aged
  <2>2. StartIn(k.run_in - 1) \in Int
    BY StartInInt, Fields
  <2> DEFINE l == [k EXCEPT !.run_in = StartIn(k.run_in - 1)]
  <2>3. /\ l \in TaskRecords /\ l.status = k.status /\ l.lease = k.lease
        /\ l.revision = k.revision /\ l.step = k.step /\ l.signal = k.signal
        /\ l.attempts = k.attempts /\ l.claims = k.claims
    BY <2>2 DEF TaskRecords
  <2> HIDE DEF l
  <2>4. Good(l, c) /\ Calm(k, l)
    BY <1>1, <2>3 DEF TaskInv, Calm, Moves, Rises, Open, Terminal, Statuses
  <2>5. QED
    BY <2>1, <2>4 DEF l
<1>2. CASE k.status = "running"
  <2> DEFINE left == IF k.lease.left > 0 THEN k.lease.left - 1 ELSE 0
  <2>1. Aged(k) = [k EXCEPT !.lease.left = left]
    BY <1>2 DEF Aged
  <2>2. left \in Nat
    BY Fields DEF Leases
  <2>3. QED
    BY <1>2, <2>1, <2>2, RenewedGood
<1>3. CASE k.status \notin {"queued", "awaiting_brain", "running"}
  BY <1>3 DEF Aged, Calm, Moves, Rises
<1>4. QED
  BY <1>1, <1>2, <1>3

-----------------------------------------------------------------------------
(* One step per command *)

LEMMA Typed ==
  ASSUME IInv, NEW t \in Tasks
  PROVE  /\ cfg[t] \in ParamRecords
         /\ Good(task[t], cfg[t])
  BY QueueAssumption DEF IInv, TypeOK

LEMMA CalmReceipt ==
  ASSUME NEW k, NEW l, NEW r, ReceiptInv(r, k), Calm(k, l)
  PROVE  ReceiptInv(r, l)
  BY DEF ReceiptInv, Calm

\* Every command but an enqueue and a successful claim is such a step.
LEMMA CalmStep ==
  ASSUME IInv, UNCHANGED <<cfg, order>>, held' \subseteq held,
         task' = [t \in Tasks |-> task'[t]],
         \A t \in Tasks : Good(task'[t], cfg[t]) /\ Calm(task[t], task'[t])
  PROVE  IInv' /\ AllMove /\ AllRise
<1>1. task' \in [Tasks -> TaskRecords] /\ TypeOK'
  BY DEF IInv, TypeOK
<1>2. \A t \in Tasks : TaskInv(task'[t], cfg'[t])
  OBVIOUS
<1>3. ASSUME NEW r \in held' PROVE ReceiptInv(r, task'[r.task])
  <2>1. r.task \in Tasks /\ ReceiptInv(r, task[r.task])
    BY DEF IInv, TypeOK, Receipts
  <2>2. QED
    BY <2>1, CalmReceipt
<1>4. AllMove /\ AllRise
  BY DEF AllMove, AllRise, Calm
<1>5. QED
  BY <1>1, <1>2, <1>3, <1>4 DEF IInv

\* A command on one task.
LEMMA CalmStepAt ==
  ASSUME IInv, UNCHANGED <<cfg, order>>, held' \subseteq held,
         NEW t \in Tasks, NEW l, task' = [task EXCEPT ![t] = l],
         Good(l, cfg[t]), Calm(task[t], l)
  PROVE  IInv' /\ AllMove /\ AllRise
<1>1. task \in [Tasks -> TaskRecords]
  BY DEF IInv, TypeOK
<1>2. /\ task' = [u \in Tasks |-> task'[u]]
      /\ task'[t] = l
      /\ \A u \in Tasks : u # t => task'[u] = task[u]
  BY <1>1
<1>3. ASSUME NEW u \in Tasks PROVE Good(task'[u], cfg[u]) /\ Calm(task[u], task'[u])
  <2>1. Good(task[u], cfg[u]) /\ Calm(task[u], task[u])
    BY Typed DEF Calm, Moves, Rises
  <2>2. QED
    BY <1>2, <2>1
<1>4. QED
  BY <1>2, <1>3, CalmStep

LEMMA ReapedKeeps ==
  ASSUME NEW k \in TaskRecords, NEW c
  PROVE  /\ Reaped(k, c).step = k.step
         /\ ~Open(k) => Reaped(k, c) = k
<1>1. CASE Expired(k) \/ (k.status = "queued" /\ Exhausted(k, c))
  <2>1. Reaped(k, c).step = k.step
    BY DEF Reaped, LeaseLost, Released, TaskRecords
  <2>2. Open(k)
    BY <1>1 DEF Open, Expired, Terminal
  <2>3. QED
    BY <2>1, <2>2
<1>2. CASE ~(Expired(k) \/ (k.status = "queued" /\ Exhausted(k, c)))
  BY <1>2 DEF Reaped
<1>3. QED
  BY <1>1, <1>2

LEMMA AllReapedGood ==
  ASSUME IInv
  PROVE  /\ AllReaped = [t \in Tasks |-> AllReaped[t]]
         /\ \A t \in Tasks : Good(AllReaped[t], cfg[t]) /\ Calm(task[t], AllReaped[t])
<1>1. \A t \in Tasks : AllReaped[t] = Reaped(task[t], cfg[t])
  BY DEF AllReaped
<1>2. \A t \in Tasks : Good(Reaped(task[t], cfg[t]), cfg[t])
                       /\ Calm(task[t], Reaped(task[t], cfg[t]))
  BY Typed, ReapedGood
<1>3. QED
  BY <1>1, <1>2 DEF AllReaped

LEMMA EnqueueStep ==
  ASSUME IInv, NEW t \in Tasks, NEW p \in Params, NEW d \in Delays, Enqueue(t, p, d)
  PROVE  IInv' /\ AllMove /\ AllRise
<1> DEFINE l == Enqueued(p, d)
<1>1. Good(l, p)
  BY EnqueuedGood, QueueAssumption
<1> HIDE DEF l
<1>2. /\ task' = [task EXCEPT ![t] = l] /\ cfg' = [cfg EXCEPT ![t] = p]
      /\ order' = Append(order, t) /\ held' = held /\ task[t].status = "absent"
  BY DEF Enqueue, l
<1>3. TypeOK'
  BY <1>1, <1>2 DEF IInv, TypeOK
<1>4. ASSUME NEW u \in Tasks PROVE TaskInv(task'[u], cfg'[u])
  <2>1. CASE u = t
    BY <1>1, <1>2, <2>1 DEF IInv, TypeOK
  <2>2. CASE u # t
    BY <1>2, <2>2 DEF IInv, TypeOK
  <2>3. QED
    BY <2>1, <2>2
\* An id that was never used has no claims, so nobody remembers one.
<1>5. ASSUME NEW r \in held PROVE r.task # t /\ ReceiptInv(r, task[r.task])
  <2>1. task[t].claims = 0 /\ ReceiptInv(r, task[r.task]) /\ r.token \in Nat
    BY <1>2 DEF IInv, TaskInv, TypeOK, Receipts
  <2>2. QED
    BY <2>1 DEF ReceiptInv
<1>6. ASSUME NEW r \in held' PROVE ReceiptInv(r, task'[r.task])
  BY <1>2, <1>5 DEF IInv, TypeOK, Receipts
<1>7. AllMove /\ AllRise
  <2>1. l.status = "queued" /\ l.claims = 0 /\ l.step = 0
    BY DEF l, Enqueued, NewTask
  <2>2. task[t].claims = 0 /\ task[t].step = 0
    BY <1>2, Fields DEF IInv, TaskInv, TypeOK
  <2>3. QED
    BY <1>2, <2>1, <2>2 DEF AllMove, AllRise, Moves, Rises, IInv, TypeOK
<1>8. QED
  BY <1>3, <1>4, <1>6, <1>7 DEF IInv

LEMMA ClaimStep ==
  ASSUME IInv, NEW o \in Owners, NEW mode, NEW d \in LeaseSecs, Claim(o, mode, d)
  PROVE  IInv' /\ AllMove /\ AllRise
<1>1. CASE task' = AllReaped /\ UNCHANGED <<cfg, order, held>>
  BY <1>1, AllReapedGood, CalmStep
<1>2. ASSUME NEW t \in Candidates(mode),
             task' = [AllReaped EXCEPT ![t] = Claimed(AllReaped[t], o, d)],
             held' = held \cup {Receipt(t, Claimed(AllReaped[t], o, d))},
             UNCHANGED <<cfg, order>>
      PROVE  IInv' /\ AllMove /\ AllRise
  <2> DEFINE k == AllReaped[t]
             l == Claimed(k, o, d)
             s == Receipt(t, l)
  <2>1. t \in Tasks /\ Claimable(k, cfg[t])
    BY DEF Candidates
  <2>2. Good(k, cfg[t]) /\ Calm(task[t], k) /\ cfg[t] \in ParamRecords
    BY <2>1, AllReapedGood, Typed
  <2>3. d \in Nat
    BY QueueAssumption
  <2> HIDE DEF k
  <2>4. /\ Good(l, cfg[t]) /\ l.claims = k.claims + 1 /\ l.lease.token = k.claims + 1
        /\ s \in Receipts /\ ReceiptInv(s, l) /\ s.task = t
    BY <2>1, <2>2, <2>3, ClaimedGood DEF Receipt
  <2> HIDE DEF l, s
  <2>5. task' = [AllReaped EXCEPT ![t] = l] /\ held' = held \cup {s}
    BY <1>2 DEF k, l, s
  <2>6. /\ task' = [u \in Tasks |-> task'[u]]
        /\ task'[t] = l
        /\ \A u \in Tasks : u # t => task'[u] = AllReaped[u]
    BY <2>1, <2>5, AllReapedGood
  <2>7. \A u \in Tasks : Good(task'[u], cfg[u])
    BY <2>4, <2>6, AllReapedGood
  <2>8. TypeOK'
    BY <1>2, <2>4, <2>5, <2>6, <2>7 DEF IInv, TypeOK
  <2>9. ASSUME NEW r \in held' PROVE ReceiptInv(r, task'[r.task])
    <3>1. CASE r = s
      BY <2>4, <2>6, <3>1
    <3>2. CASE r \in held
      <4>1. r.task \in Tasks /\ r.token \in Nat /\ ReceiptInv(r, task[r.task])
        BY <3>2 DEF IInv, TypeOK, Receipts
      <4>2. ReceiptInv(r, AllReaped[r.task])
        BY <4>1, AllReapedGood, CalmReceipt
      <4>3. CASE r.task = t
        <5>1. r.token \in 1..k.claims /\ k.claims \in Nat
          BY <2>2, <4>2, <4>3, Fields DEF k, ReceiptInv
        <5>2. QED
          BY <2>4, <2>6, <4>1, <4>3, <5>1 DEF ReceiptInv
      <4>4. CASE r.task # t
        BY <2>6, <4>1, <4>2, <4>4
      <4>5. QED
        BY <4>3, <4>4
    <3>3. QED
      BY <2>5, <3>1, <3>2
  <2>10. Moves(task[t], l)
    <3>1. k = Reaped(task[t], cfg[t]) /\ task[t] \in TaskRecords
      BY <2>1 DEF k, AllReaped, IInv, TypeOK
    <3>2. Open(k)
      BY <2>1 DEF Claimable, Due, Open, Terminal
    <3>3. Open(task[t]) /\ k.step = task[t].step
      BY <3>1, <3>2, ReapedKeeps
    <3>4. l.status = "running" /\ l.step = k.step
      BY <2>2 DEF l, Claimed, TaskRecords
    <3>5. k.claims = task[t].claims
      BY <2>2 DEF Calm
    <3>6. QED
      BY <2>4, <3>3, <3>4, <3>5 DEF Moves
  <2>11. AllMove
    BY <2>6, <2>10, AllReapedGood DEF AllMove, Calm
  <2>12. AllRise
    <3>1. Rises(task[t], k)
      BY <2>2 DEF Calm
    <3>2. l.revision = k.revision + 1 /\ k.revision \in Nat /\ task[t].revision \in Nat
      BY <2>1, <2>2, Fields DEF l, Claimed, TaskRecords, IInv, TypeOK
    <3>3. Rises(task[t], l)
      BY <3>1, <3>2 DEF Rises
    <3>4. QED
      BY <2>6, <3>3, AllReapedGood DEF AllRise, Calm
  <2>13. QED
    BY <1>2, <2>7, <2>8, <2>9, <2>11, <2>12 DEF IInv
<1>3. QED
  BY <1>1, <1>2 DEF Claim

LEMMA HeartbeatStep ==
  ASSUME IInv, NEW r \in held, NEW d \in LeaseSecs, Heartbeat(r, d)
  PROVE  IInv' /\ AllMove /\ AllRise
<1> DEFINE k == task[r.task]
           l == [k EXCEPT !.lease.left = d]
<1>1. r.task \in Tasks /\ d \in Nat
  BY QueueAssumption DEF IInv, TypeOK, Receipts
<1>2. Good(l, cfg[r.task]) /\ Calm(k, l)
  BY <1>1, Typed, RenewedGood DEF Heartbeat, LeaseAccepts
<1>3. task' = [task EXCEPT ![r.task] = l] /\ UNCHANGED <<cfg, order, held>>
  BY DEF Heartbeat
<1> HIDE DEF l
<1>4. QED
  BY <1>1, <1>2, <1>3, CalmStepAt

LEMMA CommitStep ==
  ASSUME IInv, NEW r \in held, NEW continue \in BOOLEAN, NEW at \in StartTimes,
         Commit(r, continue, at)
  PROVE  IInv' /\ AllMove /\ AllRise
<1> DEFINE l == Committed(task[r.task], cfg[r.task], continue, at)
<1>1. r.task \in Tasks
  BY DEF IInv, TypeOK, Receipts
<1>2. at = <<>> \/ (\E d \in Int : at = <<d>>)
  BY QueueAssumption DEF StartTimes
<1>3. Good(l, cfg[r.task]) /\ Calm(task[r.task], l)
  BY <1>1, <1>2, Typed, CommittedGood DEF Commit, LeaseAccepts
<1>4. task' = [task EXCEPT ![r.task] = l] /\ UNCHANGED <<cfg, order, held>>
  BY DEF Commit
<1> HIDE DEF l
<1>5. QED
  BY <1>1, <1>3, <1>4, CalmStepAt

LEMMA FailStep ==
  ASSUME IInv, NEW r \in held, NEW retry \in BOOLEAN, NEW after \in Delays,
         Fail(r, retry, after)
  PROVE  IInv' /\ AllMove /\ AllRise
<1> DEFINE l == FailedOnce(task[r.task], cfg[r.task], retry, after)
<1>1. r.task \in Tasks /\ after \in Int
  BY QueueAssumption DEF IInv, TypeOK, Receipts
<1>2. Good(l, cfg[r.task]) /\ Calm(task[r.task], l)
  BY <1>1, Typed, FailedOnceGood DEF Fail, LeaseAccepts
<1>3. task' = [task EXCEPT ![r.task] = l] /\ UNCHANGED <<cfg, order, held>>
  BY DEF Fail
<1> HIDE DEF l
<1>4. QED
  BY <1>1, <1>2, <1>3, CalmStepAt

LEMMA CancelStep ==
  ASSUME IInv, NEW t \in Tasks, Cancel(t)
  PROVE  IInv' /\ AllMove /\ AllRise
<1>1. Good(Cancelled(task[t]), cfg[t]) /\ Calm(task[t], Cancelled(task[t]))
  BY Typed, CancelledGood DEF Cancel
<1>2. QED
  BY <1>1, CalmStepAt DEF Cancel

LEMMA RescheduleStep ==
  ASSUME IInv, NEW t \in Tasks, NEW d \in Delays, Reschedule(t, d)
  PROVE  IInv' /\ AllMove /\ AllRise
<1>1. d \in Int
  BY QueueAssumption
<1>2. Good(Rescheduled(task[t], d), cfg[t]) /\ Calm(task[t], Rescheduled(task[t], d))
  BY <1>1, Typed, RescheduledGood DEF Reschedule
<1>3. QED
  BY <1>2, CalmStepAt DEF Reschedule

LEMMA MarkBrainDueStep ==
  ASSUME IInv, MarkBrainDue
  PROVE  IInv' /\ AllMove /\ AllRise
<1>1. /\ task' = [t \in Tasks |-> task'[t]]
      /\ \A t \in Tasks : task'[t] = Signalled(task[t], cfg[t])
      /\ UNCHANGED <<cfg, order, held>>
  BY DEF MarkBrainDue
<1>2. \A t \in Tasks : Good(task'[t], cfg[t]) /\ Calm(task[t], task'[t])
  BY <1>1, Typed, SignalledGood
<1>3. QED
  BY <1>1, <1>2, CalmStep

LEMMA StatusStep ==
  ASSUME IInv, Status
  PROVE  IInv' /\ AllMove /\ AllRise
  BY AllReapedGood, CalmStep DEF Status

\* What run_maintenance does to one task.
LEMMA MaintainGood ==
  ASSUME IInv, Maintain, NEW t \in Tasks
  PROVE  Good(task'[t], cfg[t]) /\ Calm(task[t], task'[t])
<1>1. cfg[t] \in ParamRecords /\ Good(task[t], cfg[t])
  BY Typed
<1>2. CASE t \in StartupTasks /\ task[t].status = "awaiting_brain"
  <2>1. task'[t] = Cancelled(task[t]) /\ Open(task[t])
    BY <1>2 DEF Maintain, Open, Terminal
  <2>2. QED
    BY <1>1, <2>1, CancelledGood
<1>3. CASE ~(t \in StartupTasks /\ task[t].status = "awaiting_brain")
  <2>1. task'[t] = Reaped(task[t], cfg[t])
    BY <1>3 DEF Maintain
  <2>2. QED
    BY <1>1, <2>1, ReapedGood
<1>4. QED
  BY <1>2, <1>3

LEMMA MaintainStep ==
  ASSUME IInv, Maintain
  PROVE  IInv' /\ AllMove /\ AllRise
<1>1. task' = [t \in Tasks |-> task'[t]] /\ UNCHANGED <<cfg, order, held>>
  BY DEF Maintain
<1>2. QED
  BY <1>1, MaintainGood, CalmStep

LEMMA CrashStep ==
  ASSUME IInv, NEW o \in Owners, Crash(o)
  PROVE  IInv' /\ AllMove /\ AllRise
<1>1. /\ task' = [t \in Tasks |-> task'[t]] /\ task' = task
      /\ held' \subseteq held /\ UNCHANGED <<cfg, order>>
  BY DEF Crash, IInv, TypeOK
<1>2. \A t \in Tasks : Good(task'[t], cfg[t]) /\ Calm(task[t], task'[t])
  BY <1>1, Typed DEF Calm, Moves, Rises
<1>3. QED
  BY <1>1, <1>2, CalmStep

LEMMA TickStep ==
  ASSUME IInv, Tick
  PROVE  IInv' /\ AllMove /\ AllRise
<1>1. /\ task' = [t \in Tasks |-> task'[t]]
      /\ \A t \in Tasks : task'[t] = Aged(task[t])
      /\ UNCHANGED <<cfg, order, held>>
  BY DEF Tick
<1>2. \A t \in Tasks : Good(task'[t], cfg[t]) /\ Calm(task[t], task'[t])
  BY <1>1, Typed, AgedGood
<1>3. QED
  BY <1>1, <1>2, CalmStep

-----------------------------------------------------------------------------
(* The invariant *)

\* The empty store satisfies the invariant.
LEMMA InitInv == Init => IInv
<1> SUFFICES ASSUME Init PROVE IInv
  OBVIOUS
<1>1. /\ NewTask \in TaskRecords /\ NewTask.status = "absent"
      /\ NewTask.claims = 0 /\ NewTask.attempts = 0 /\ NewTask.step = 0
      /\ NewTask.signal = 0 /\ NewTask.revision = 0 /\ NewTask.lease = NoLease
  BY NoLeaseType DEF NewTask, TaskRecords, Statuses
<1>2. task = [t \in Tasks |-> NewTask] /\ order = <<>> /\ held = {}
  BY DEF Init
<1>3. cfg \in [Tasks -> Params]
  BY QueueAssumption DEF Init
<1>4. ASSUME NEW t \in Tasks PROVE TaskInv(task[t], cfg[t])
  <2>1. task[t] = NewTask /\ ~Open(NewTask)
    BY <1>1, <1>2 DEF Open
  <2>2. QED
    BY <1>1, <2>1 DEF TaskInv
<1>5. TypeOK
  BY <1>1, <1>2, <1>3 DEF TypeOK
<1>6. QED
  BY <1>2, <1>4, <1>5 DEF IInv

\* Every command keeps the invariant.
LEMMA NextInv == IInv /\ [Next]_vars => IInv' /\ AllMove /\ AllRise
<1> SUFFICES ASSUME IInv, [Next]_vars PROVE IInv' /\ AllMove /\ AllRise
  OBVIOUS
<1>1. ASSUME NEW t \in Tasks, NEW p \in Params, NEW d \in Delays, Enqueue(t, p, d)
      PROVE  IInv' /\ AllMove /\ AllRise
  BY <1>1, EnqueueStep
<1>2. ASSUME NEW o \in Owners, NEW mode \in Modes \cup {"any"}, NEW d \in LeaseSecs,
             Claim(o, mode, d)
      PROVE  IInv' /\ AllMove /\ AllRise
  BY <1>2, ClaimStep
<1>3. ASSUME NEW r \in held, NEW d \in LeaseSecs, Heartbeat(r, d)
      PROVE  IInv' /\ AllMove /\ AllRise
  BY <1>3, HeartbeatStep
<1>4. ASSUME NEW r \in held, NEW continue \in BOOLEAN, NEW at \in StartTimes,
             Commit(r, continue, at)
      PROVE  IInv' /\ AllMove /\ AllRise
  BY <1>4, CommitStep
<1>5. ASSUME NEW r \in held, NEW retry \in BOOLEAN, NEW after \in Delays,
             Fail(r, retry, after)
      PROVE  IInv' /\ AllMove /\ AllRise
  BY <1>5, FailStep
<1>6. ASSUME NEW t \in Tasks, Cancel(t)
      PROVE  IInv' /\ AllMove /\ AllRise
  BY <1>6, CancelStep
<1>7. ASSUME NEW t \in Tasks, NEW d \in Delays, Reschedule(t, d)
      PROVE  IInv' /\ AllMove /\ AllRise
  BY <1>7, RescheduleStep
<1>8. CASE MarkBrainDue
  BY <1>8, MarkBrainDueStep
<1>9. CASE Status
  BY <1>9, StatusStep
<1>10. CASE Maintain
  BY <1>10, MaintainStep
<1>11. ASSUME NEW o \in Owners, Crash(o)
       PROVE  IInv' /\ AllMove /\ AllRise
  BY <1>11, CrashStep
<1>12. CASE Tick
  BY <1>12, TickStep
<1>13. CASE UNCHANGED vars
  BY <1>13 DEF vars, IInv, TypeOK, AllMove, AllRise, Moves, Rises
<1>14. QED
  BY <1>1, <1>2, <1>3, <1>4, <1>5, <1>6, <1>7, <1>8, <1>9, <1>10, <1>11, <1>12,
     <1>13 DEF Next

\* The strengthened invariant holds throughout.
THEOREM Invariance == Spec => []IInv
  BY InitInv, NextInv, PTL DEF Spec

\* The store and the claim answers keep their types.
THEOREM TypeCorrect == Spec => []TypeOK
<1>1. IInv => TypeOK
  BY DEF IInv
<1>2. QED
  BY <1>1, Invariance, PTL

\* One lease per running task, none otherwise, always the newest token.
THEOREM OneLeaseholderThm == Spec => []OneLeaseholder
<1>1. IInv => OneLeaseholder
  <2> SUFFICES ASSUME IInv PROVE OneLeaseholder
    OBVIOUS
  <2>1. \A t \in Tasks : TaskInv(task[t], cfg[t])
    BY DEF IInv
  <2>2. \A r \in held : r.token \in 1..task[r.task].claims
    BY DEF IInv, ReceiptInv
  <2>3. QED
    BY <2>1, <2>2 DEF OneLeaseholder, TaskInv
<1>2. QED
  BY <1>1, Invariance, PTL

\* The holder of a lease knows the present revision of its task.
THEOREM HolderIsNeverStaleThm == Spec => []HolderIsNeverStale
<1>1. IInv => HolderIsNeverStale
  BY DEF IInv, ReceiptInv, HolderIsNeverStale
<1>2. QED
  BY <1>1, Invariance, PTL

\* At most one step per claim, and no more claims than the attempt budget.
THEOREM StepsWithinClaimsThm == Spec => []StepsWithinClaims
<1>1. IInv => StepsWithinClaims
  <2> SUFFICES ASSUME IInv, NEW t \in Tasks
               PROVE  LET k == task[t] IN
                        /\ k.step + (IF k.status = "running" THEN 1 ELSE 0) <= k.claims
                        /\ k.claims = k.attempts
                        /\ k.status # "absent" => k.attempts <= cfg[t].max_attempts
    BY DEF StepsWithinClaims
  <2>1. TaskInv(task[t], cfg[t]) /\ task[t].step \in Nat
    BY Fields DEF IInv, TypeOK
  <2>2. QED
    BY <2>1 DEF TaskInv
<1>2. QED
  BY <1>1, Invariance, PTL

\* A waiting brain task can still be announced, and is announced as it stands.
THEOREM NeverMutedThm == Spec => []NeverMuted
<1>1. IInv => NeverMuted
  BY DEF IInv, TaskInv, NeverMuted
<1>2. QED
  BY <1>1, Invariance, PTL

\* No open task is out of steps.
THEOREM StepBudgetLeftThm == Spec => []StepBudgetLeft
<1>1. IInv => StepBudgetLeft
  BY DEF IInv, TaskInv, StepBudgetLeft
<1>2. QED
  BY <1>1, Invariance, PTL

\* A task that ended never changes again.
THEOREM TerminalIsFinalThm == Spec => TerminalIsFinal
<1> DEFINE Final == \A t \in Tasks : task[t].status \in Terminal => task'[t] = task[t]
<1>1. IInv /\ [Next]_vars => [Final]_vars
  <2> SUFFICES ASSUME IInv, [Next]_vars, NEW t \in Tasks, task[t].status \in Terminal
               PROVE  task'[t] = task[t]
    OBVIOUS
  <2>1. Moves(task[t], task'[t])
    BY NextInv DEF AllMove
  <2>2. QED
    BY <2>1 DEF Moves, Open, Terminal
<1>2. QED
  BY <1>1, Invariance, PTL DEF Spec, TerminalIsFinal

-----------------------------------------------------------------------------
(* The queue keeps its contract *)

\* A move of a task is a move the contract allows, or none it knows of.
LEMMA MoveKeepsContract ==
  ASSUME IInv, [Next]_vars, NEW t \in Tasks
  PROVE  \/ Contract!Submit(t) \/ Contract!Take(t) \/ Contract!Credit(t)
         \/ Contract!GiveBack(t) \/ Contract!Withdraw(t) \/ Contract!Stays(t)
<1> DEFINE k == task[t]
           l == task'[t]
<1>1. Moves(k, l) /\ k \in TaskRecords
  BY NextInv DEF AllMove, IInv, TypeOK
<1>2. QED
  BY <1>1 DEF Moves, PhaseOf, Open, Terminal, Statuses,
    Contract!Submit, Contract!Take, Contract!Credit, Contract!GiveBack,
    Contract!Withdraw, Contract!Stays, Contract!Keeps

\* The detailed queue implements the contract.
THEOREM KeepsContractThm == Spec => KeepsContract
<1>1. Init => Contract!Init
  <2>1. NewTask.claims = 0 /\ NewTask.step = 0 /\ NewTask.status = "absent"
    BY DEF NewTask
  <2>2. PhaseOf(NewTask) = "none"
    BY <2>1 DEF PhaseOf, Terminal
  <2>3. QED
    BY <2>1, <2>2 DEF Init, Contract!Init
<1>2. IInv /\ IInv' /\ [Next]_vars => [Contract!Next]_(Contract!vars)
  <2> SUFFICES ASSUME IInv, IInv', [Next]_vars PROVE Contract!Next
    OBVIOUS
  <2>1. \A t \in Tasks : task'[t] \in TaskRecords
    BY DEF IInv, TypeOK
  <2>2. \A t \in Tasks : /\ PhaseOf(task[t])' \in Contract!Phases
                         /\ task'[t].claims \in Nat /\ task'[t].step \in Nat
    BY <2>1, Fields DEF PhaseOf, Contract!Phases
  <2>3. QED
    BY <2>2, MoveKeepsContract DEF Contract!Next
<1>3. QED
  BY <1>1, <1>2, Invariance, PTL DEF Spec, KeepsContract, Contract!Spec

-----------------------------------------------------------------------------
(* The inbox of wakes (BrainWake) *)

\* A signal of a revision that the queue q has left behind.
Spent(g, q) == q[g.task].status # "absent" /\ q[g.task].revision > g.revision

\* What may be listed, now or when a copy is written back.
Sound(entries, wakes, q) ==
  /\ entries \subseteq Entries
  /\ \A e \in entries : e.signal \in wakes
  /\ \A e \in entries : e.claimed => Spent(e.signal, q)

\* What the server is about to do.
ServerSound ==
  /\ Sound(server.read, woken, task)
  /\ server.at # "idle" /\ server.job = "claim" => Spent(server.signal, task)

WakeInv ==
  /\ WakeTypeOK
  /\ Sound(inbox, woken, task)
  /\ Sound(worker.read, woken, task)
  /\ ServerSound

FullInv == IInv /\ WakeInv

-----------------------------------------------------------------------------
(* The queue *)

\* Every step is a step of the queue, or leaves it alone.
LEMMA QueueStep ==
  ASSUME FullInv, [WakeNext]_allVars
  PROVE  [Next]_vars
<1> USE DEF vars
<1>1. CASE WorkerStep
  <2>1. \A d \in LeaseSecs : Claim(Worker, "local", d) => Next
    BY QueueAssumption DEF Next, Modes
  <2>2. (CHOOSE d \in LeaseSecs : TRUE) \in LeaseSecs
    BY WakeAssumption
  <2>3. CASE WorkerMarks
    BY <2>3 DEF WorkerMarks, Next
  <2>4. CASE WorkerFetches \/ WorkerEmits \/ WorkerStores
    BY <2>4 DEF WorkerFetches, WorkerEmits, WorkerStores
  <2>5. CASE WorkerClaims
    BY <2>1, <2>2, <2>5 DEF WorkerClaims
  <2>6. CASE WorkerStarts
    BY <2>6 DEF WorkerStarts, Next
  <2>7. QED
    BY <1>1, <2>3, <2>4, <2>5, <2>6 DEF WorkerStep
<1>2. CASE ServerCalled
  <2>1. ASSUME NEW o \in Owners, NEW d \in LeaseSecs, ToolClaims(o, d) PROVE Next
    BY <2>1 DEF ToolClaims, Next, Modes
  <2>2. ASSUME NEW r \in held, NEW continue \in BOOLEAN, NEW at \in StartTimes,
               ToolCommits(r, continue, at)
        PROVE  Next
    BY <2>2 DEF ToolCommits, Next
  <2>3. ASSUME NEW r \in held, NEW retry \in BOOLEAN, NEW after \in Delays,
               ToolFails(r, retry, after)
        PROVE  Next
    BY <2>3 DEF ToolFails, Next
  <2>4. ASSUME NEW t \in Tasks, ToolCancels(t) PROVE Next
    BY <2>4 DEF ToolCancels, Next
  <2>5. ASSUME NEW t \in Tasks, NEW d \in Delays, ToolReschedules(t, d) PROVE Next
    BY <2>5 DEF ToolReschedules, Next
  <2>6. CASE ToolCleans
    BY <2>6 DEF ToolCleans
  <2>7. CASE ToolOnQueue
    BY <2>7 DEF ToolOnQueue, Next
  <2>8. QED
    BY <1>2, <2>1, <2>2, <2>3, <2>4, <2>5, <2>6, <2>7 DEF ServerCalled
<1>3. CASE WorkerDies \/ ServerFetches \/ ServerChecks \/ ServerStores \/ ServerDies
  BY <1>3 DEF WorkerDies, ServerFetches, ServerChecks, ServerStores, ServerDies
<1>4. CASE Around
  BY <1>4 DEF Around, Next
<1>5. CASE UNCHANGED allVars
  BY <1>5 DEF allVars
<1>6. QED
  BY <1>1, <1>2, <1>3, <1>4, <1>5 DEF WakeNext

\* A signal that is left behind stays behind.
LEMMA StaysSpent ==
  ASSUME IInv, [Next]_vars, NEW g \in Signals, Spent(g, task)
  PROVE  Spent(g, task')
<1>1. /\ task[g.task] \in TaskRecords /\ task'[g.task] \in TaskRecords
      /\ g.task \in Tasks /\ g.revision \in Nat
  BY NextInv DEF IInv, TypeOK, Signals
<1>2. Moves(task[g.task], task'[g.task]) /\ Rises(task[g.task], task'[g.task])
  BY <1>1, NextInv DEF AllMove, AllRise
<1>3. task'[g.task].status # "absent"
  BY <1>1, <1>2 DEF Moves, Spent
<1>4. task'[g.task].revision > g.revision
  BY <1>1, <1>2, Fields DEF Rises, Spent
<1>5. QED
  BY <1>3, <1>4 DEF Spent

\* So what was fit to be listed remains so.
LEMMA StaysSound ==
  ASSUME IInv, [Next]_vars, woken \subseteq woken'
  PROVE  \A entries : Sound(entries, woken, task) => Sound(entries, woken', task')
<1> SUFFICES ASSUME NEW entries, Sound(entries, woken, task)
             PROVE  Sound(entries, woken', task')
  OBVIOUS
<1>1. ASSUME NEW e \in entries, e.claimed PROVE Spent(e.signal, task')
  BY <1>1, StaysSpent DEF Sound, Entries
<1>2. QED
  BY <1>1 DEF Sound

\* A claim leaves behind the revision before the one it answers.
LEMMA ClaimSpends ==
  ASSUME IInv, NEW o \in Owners, NEW d \in LeaseSecs, Claim(o, "brain", d),
         NEW r \in held' \ held
  PROVE  /\ [task |-> r.task, revision |-> r.revision - 1] \in Signals
         /\ Spent([task |-> r.task, revision |-> r.revision - 1], task')
<1>1. PICK t \in Candidates("brain") :
        /\ task' = [AllReaped EXCEPT ![t] = Claimed(AllReaped[t], o, d)]
        /\ held' = held \cup {Receipt(t, Claimed(AllReaped[t], o, d))}
  BY DEF Claim
<1> DEFINE k == AllReaped[t]
           l == Claimed(k, o, d)
<1>2. t \in Tasks /\ Good(k, cfg[t])
  BY AllReapedGood DEF Candidates
<1>3. task'[t] = l
  BY <1>1, <1>2, AllReapedGood
<1>4. l.status = "running" /\ l.revision = k.revision + 1 /\ k.revision \in Nat
  BY <1>2, Fields DEF Good, Claimed, TaskRecords
<1> HIDE DEF k, l
<1>5. r = Receipt(t, l)
  BY <1>1 DEF k, l
<1>6. r.task = t /\ r.revision = l.revision
  BY <1>5 DEF Receipt
<1>7. QED
  BY <1>2, <1>3, <1>4, <1>6 DEF Spent, Signals

-----------------------------------------------------------------------------
(* The invariant *)

LEMMA WakeInitInv == WakeInit => FullInv
<1>1. NoSignal \in Signals
  BY WakeAssumption DEF NoSignal, Signals
<1>2. QED
  BY <1>1, InitInv, WakeAssumption
  DEF WakeInit, FullInv, WakeInv, ServerSound, WakeTypeOK, Sound, Workers, Servers, Jobs

\* The worker's steps.
LEMMA WorkerStepInv ==
  ASSUME FullInv, WorkerStep, [Next]_vars
  PROVE  WakeInv'
<1> USE DEF FullInv, WakeInv, ServerSound, WakeTypeOK, Workers
<1>1. woken \subseteq woken'
  BY DEF WorkerStep, WorkerMarks, WorkerFetches, WorkerEmits, WorkerStores, WorkerClaims,
     WorkerStarts
<1>2. \A entries : Sound(entries, woken, task) => Sound(entries, woken', task')
  BY <1>1, StaysSound
<1>3. UNCHANGED <<server, deaths, cut>>
  BY DEF WorkerStep, WorkerMarks, WorkerFetches, WorkerEmits, WorkerStores, WorkerClaims,
     WorkerStarts
<1>4. ServerSound'
  BY <1>2, <1>3, StaysSpent DEF Servers
<1>5. CASE WorkerMarks
  <2>1. \A t \in Tasks : SignalOf(t) \in Signals
    BY Fields DEF SignalOf, Signals, IInv, TypeOK
  <2>2. worker' \in Workers /\ worker'.read = worker.read
    <3> DEFINE due == {t \in Tasks : NeedsSignal(task[t], cfg[t])}
               signals == {SignalOf(t) : t \in due}
    <3>1. signals \subseteq Signals
      BY <2>1
    <3>2. \/ worker' = [worker EXCEPT !.at = "local"]
          \/ worker' = [worker EXCEPT !.at = "fetch", !.due = signals]
      BY <1>5 DEF WorkerMarks
    <3> HIDE DEF signals
    <3>3. QED
      BY <3>1, <3>2
  <2>3. UNCHANGED <<inbox, woken>>
    BY <1>5 DEF WorkerMarks
  <2>4. QED
    BY <1>2, <1>3, <1>4, <2>2, <2>3
<1>6. CASE WorkerFetches \/ WorkerStores \/ WorkerClaims \/ WorkerStarts
  <2>1. Sound({}, woken, task)
    BY DEF Sound
  <2>2. worker' \in Workers /\ inbox' \subseteq Entries
    BY <1>6 DEF WorkerFetches, WorkerStores, WorkerClaims, WorkerStarts
  <2>3. inbox' \in {inbox, worker.read} /\ worker'.read \in {worker.read, inbox, {}}
    BY <1>6 DEF WorkerFetches, WorkerStores, WorkerClaims, WorkerStarts
  <2>4. woken' = woken
    BY <1>6 DEF WorkerFetches, WorkerStores, WorkerClaims, WorkerStarts
  <2>5. QED
    BY <1>2, <1>3, <1>4, <2>1, <2>2, <2>3, <2>4
<1>7. CASE WorkerEmits
  <2>1. PICK g \in worker.due :
          /\ woken' = woken \cup {g}
          /\ worker' = [worker EXCEPT
                          !.at = IF worker.due = {g} THEN "store" ELSE "emit",
                          !.due = worker.due \ {g},
                          !.read = IF Listed(g, worker.read) THEN worker.read
                                   ELSE worker.read \cup {NewEntry(g)}]
    BY <1>7 DEF WorkerEmits
  <2>2. /\ g \in Signals /\ NewEntry(g) \in Entries
        /\ NewEntry(g).signal = g /\ ~ NewEntry(g).claimed
    BY DEF NewEntry, Entries
  <2>3. worker' \in Workers
    BY <2>1, <2>2
  <2>4. worker'.read \in {worker.read, worker.read \cup {NewEntry(g)}}
    BY <2>1
  <2>5. Sound(worker.read, woken', task')
    BY <1>2
  <2>6. Sound(worker'.read, woken', task')
    BY <2>1, <2>2, <2>4, <2>5 DEF Sound
  <2>7. inbox' = inbox
    BY <1>7 DEF WorkerEmits
  <2>8. QED
    BY <1>2, <1>3, <1>4, <2>1, <2>2, <2>3, <2>6, <2>7
<1>8. QED
  BY <1>5, <1>6, <1>7 DEF WorkerStep

\* A call of a tool: the queue changes, and the inbox is still to come.
LEMMA ServerCalledInv ==
  ASSUME FullInv, ServerCalled, [Next]_vars
  PROVE  WakeInv'
<1> USE DEF FullInv, WakeInv, WakeTypeOK, Servers
<1>1. UNCHANGED <<inbox, woken, worker, cut, deaths>> /\ server.at = "idle"
  BY DEF ServerCalled
<1>2. \A entries : Sound(entries, woken, task) => Sound(entries, woken', task')
  BY <1>1, StaysSound
<1>3. ASSUME NEW job \in Jobs \ {"claim"}, NEW t \in Tasks, Continue(job, t, 0)
      PROVE  server' \in Servers /\ ServerSound'
  BY <1>1, <1>2, <1>3 DEF Continue, Signals, ServerSound
<1>4. NoSignal.task \in Tasks
  BY WakeAssumption DEF NoSignal
<1>5. CASE \E o \in Owners \ {Worker}, d \in LeaseSecs : ToolClaims(o, d)
  <2>1. PICK o \in Owners, d \in LeaseSecs : ToolClaims(o, d)
    BY <1>5
  <2>2. CASE Continue("prune", NoSignal.task, 0)
    BY <1>1, <1>2, <1>3, <1>4, <2>2 DEF Jobs
  <2>3. ASSUME NEW r \in held' \ held, Continue("claim", r.task, r.revision - 1)
        PROVE  server' \in Servers /\ ServerSound'
    <3>1. /\ [task |-> r.task, revision |-> r.revision - 1] \in Signals
          /\ Spent([task |-> r.task, revision |-> r.revision - 1], task')
      BY <2>1, ClaimSpends DEF ToolClaims
    <3>2. server' = [server EXCEPT !.at = "fetch", !.job = "claim",
                       !.signal = [task |-> r.task, revision |-> r.revision - 1]]
      BY <2>3 DEF Continue
    <3>3. QED
      BY <1>1, <1>2, <3>1, <3>2 DEF ServerSound, Jobs
  <2>4. QED
    BY <1>1, <1>2, <2>1, <2>2, <2>3 DEF ToolClaims
<1>6. CASE ToolOnQueue
  BY <1>1, <1>2, <1>6 DEF ToolOnQueue, ServerSound
<1>7. CASE ToolCleans
  BY <1>1, <1>2, <1>3, <1>4, <1>7 DEF ToolCleans, Jobs
<1>8. CASE \/ \E r \in held, continue \in BOOLEAN, at \in StartTimes : ToolCommits(r, continue, at)
           \/ \E r \in held, retry \in BOOLEAN, after \in Delays : ToolFails(r, retry, after)
           \/ \E t \in Tasks : ToolCancels(t)
           \/ \E t \in Tasks, d \in Delays : ToolReschedules(t, d)
  <2>1. \A r \in held : r.task \in Tasks
    BY DEF IInv, TypeOK, Receipts
  <2>2. \E t \in Tasks : Continue("remove", t, 0)
    BY <1>8, <2>1 DEF ToolCommits, ToolFails, ToolCancels, ToolReschedules
  <2>3. QED
    BY <1>1, <1>2, <1>3, <2>2 DEF Jobs
<1>9. QED
  BY <1>5, <1>6, <1>7, <1>8 DEF ServerCalled

\* What _brain_inbox_update leaves of a sound copy is sound.
LEMMA UpdatedSound ==
  ASSUME FullInv, server.at = "store"
  PROVE  Sound(Updated(server), woken, task)
<1> USE DEF FullInv, WakeInv, WakeTypeOK, ServerSound, Sound
<1>1. CASE server.job = "claim"
  <2> SUFFICES ASSUME NEW e \in server.read,
                      NEW f, f = IF e.signal = server.signal THEN [e EXCEPT !.claimed = TRUE] ELSE e
               PROVE  f \in Entries /\ f.signal \in woken /\ (f.claimed => Spent(f.signal, task))
    BY <1>1 DEF Updated
  <2>1. CASE e.signal = server.signal
    <3>1. f = [e EXCEPT !.claimed = TRUE] /\ e \in Entries
      BY <2>1
    <3>2. f \in Entries /\ f.signal = e.signal
      BY <3>1 DEF Entries
    <3>3. QED
      BY <1>1, <2>1, <3>2
  <2>2. CASE e.signal # server.signal
    BY <2>2
  <2>3. QED
    BY <2>1, <2>2
<1>2. CASE server.job # "claim"
  BY <1>2 DEF Updated
<1>3. QED
  BY <1>1, <1>2

\* The server's steps on the inbox, deaths, and everything around.
LEMMA OtherStepInv ==
  ASSUME FullInv, [Next]_vars, woken' = woken,
         \/ WorkerDies \/ ServerFetches \/ ServerChecks \/ ServerStores \/ ServerDies
         \/ Around \/ UNCHANGED allVars
  PROVE  WakeInv'
<1> USE DEF FullInv, WakeInv, WakeTypeOK
<1>1. \A entries : Sound(entries, woken, task) => Sound(entries, woken', task')
  BY StaysSound
<1>2. server.at # "idle" /\ server.job = "claim" => Spent(server.signal, task')
  BY StaysSpent DEF ServerSound, Servers
<1>3. NoSignal \in Signals
  BY WakeAssumption DEF NoSignal, Signals
<1>4. CASE WorkerDies
  BY <1>1, <1>2, <1>4, WakeAssumption DEF WorkerDies, ServerSound, Workers, Sound
<1>5. CASE ServerFetches
  BY <1>1, <1>2, <1>5 DEF ServerFetches, ServerSound, Servers, Sound
<1>6. CASE ServerChecks
  BY <1>1, <1>2, <1>3, <1>6 DEF ServerChecks, ServerSound, Servers, Sound, Idle, Jobs
<1>7. CASE ServerStores
  BY <1>1, <1>2, <1>3, <1>7, UpdatedSound DEF ServerStores, ServerSound, Servers, Sound, Idle, Jobs
<1>8. CASE ServerDies
  <2>1. deaths' \in 0 .. MaxDeaths
    BY <1>8, WakeAssumption DEF ServerDies
  <2>2. server' \in Servers /\ server'.at = "idle" /\ server'.read = {}
    BY <1>3, <1>8 DEF ServerDies, Idle, Servers, Jobs
  <2>3. UNCHANGED <<inbox, worker, cut>>
    BY <1>8 DEF ServerDies
  <2>4. QED
    BY <1>1, <2>1, <2>2, <2>3 DEF ServerSound, Sound
<1>9. CASE Around \/ UNCHANGED allVars
  BY <1>1, <1>2, <1>9 DEF Around, wakeVars, allVars, ServerSound
<1>10. QED
  BY <1>4, <1>5, <1>6, <1>7, <1>8, <1>9

\* No step breaks the invariant.
LEMMA WakeNextInv == FullInv /\ [WakeNext]_allVars => FullInv'
<1> SUFFICES ASSUME FullInv, [WakeNext]_allVars PROVE IInv' /\ WakeInv'
  BY DEF FullInv
<1>1. [Next]_vars
  BY QueueStep
<1>2. IInv'
  BY <1>1, NextInv DEF FullInv
<1>3. CASE WorkerStep
  BY <1>1, <1>2, <1>3, WorkerStepInv DEF FullInv
<1>4. CASE ServerCalled
  BY <1>1, <1>2, <1>4, ServerCalledInv DEF FullInv
<1>5. CASE ~ WorkerStep /\ ~ ServerCalled
  <2>1. \/ WorkerDies \/ ServerFetches \/ ServerChecks \/ ServerStores \/ ServerDies
        \/ Around \/ UNCHANGED allVars
    BY <1>5 DEF WakeNext
  <2>2. woken' = woken
    BY <2>1 DEF WorkerDies, ServerFetches, ServerChecks, ServerStores, ServerDies, Around,
       wakeVars, allVars
  <2>3. QED
    BY <1>1, <1>2, <2>1, <2>2, OtherStepInv DEF FullInv
<1>6. QED
  BY <1>2, <1>3, <1>4, <1>5

THEOREM WakeInvariance == WakeSpec => []FullInv
<1>1. WakeInit => FullInv
  BY WakeInitInv
<1>2. FullInv /\ [WakeNext]_allVars => FullInv'
  BY WakeNextInv
<1>3. QED
  BY <1>1, <1>2, PTL DEF WakeSpec

\* The inbox, both processes and the history keep their types.
THEOREM WakeTypeCorrect == WakeSpec => []WakeTypeOK
<1>1. FullInv => WakeTypeOK
  BY DEF FullInv, WakeInv
<1>2. QED
  BY <1>1, WakeInvariance, PTL

\* No entry is listed, or about to be, before its wake was emitted
\* (publish_brain_due, _brain_inbox_update), whatever overwrites what.
THEOREM EntriesWereWokenThm == WakeSpec => []EntriesWereWoken
<1>1. FullInv => EntriesWereWoken
  BY DEF FullInv, WakeInv, ServerSound, Sound, EntriesWereWoken
<1>2. QED
  BY <1>1, WakeInvariance, PTL

\* An entry is marked as claimed only when its revision is spent
\* (_brain_inbox_update), however late the mark is written.
THEOREM ClaimedEntriesAreSpentThm == WakeSpec => []ClaimedEntriesAreSpent
<1>1. FullInv => ClaimedEntriesAreSpent
  BY DEF FullInv, WakeInv, Sound, Spent, ClaimedEntriesAreSpent
<1>2. QED
  BY <1>1, WakeInvariance, PTL
=============================================================================
