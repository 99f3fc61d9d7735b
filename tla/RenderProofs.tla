---------------------------- MODULE RenderProofs ----------------------------
(* Proofs about RenderJobs, for any number of jobs, retries, passes of grace  *)
(* and crashes: the types, what "done" means, what the idle stop spares, and  *)
(* the refinement of RenderContract.                                          *)
EXTENDS RenderJobs, TLAPS

-----------------------------------------------------------------------------
(* The inductive invariant *)

\* The job the daemon is busy with is the one it read, or has ended since; what
\* it is about to write was so when it found out, and still is.
PlanInv ==
  /\ daemon.plan # "absent"
  /\ daemon.plan = "done" => daemon.cur \in results /\ attempt[daemon.cur] = "succeeded"
  /\ Retries(daemon.seen, daemon.plan) => Retriable(daemon.cur)
  /\ daemon.plan = "queued" /\ job[daemon.cur].state = daemon.seen
       => attempt[daemon.cur] = "missing"
  /\ daemon.plan = "provisioning" => daemon.seen = "queued"

BusyInv ==
  /\ daemon.phase \in {"acting", "writing"} =>
       /\ daemon.cur \in Jobs
       /\ daemon.seen \notin Terminal \cup {"absent"}
       /\ job[daemon.cur].state \in Terminal \cup {daemon.seen}
  /\ daemon.phase = "writing" => PlanInv

\* What was created since the daemon found nothing to do is queued.
StoppingInv == daemon.phase = "stopping" => \A j \in Active : job[j].state = "queued"

\* Nothing was launched yet for a job that is not staged.
AttemptInv ==
  \A j \in Jobs : job[j].state \in {"absent", "queued", "provisioning"} => attempt[j] = "missing"

RenderInv == TypeOK /\ BusyInv /\ StoppingInv /\ AttemptInv /\ DoneHasItsResult

LEMMA RenderInitInv ==
  ASSUME Init
  PROVE  RenderInv
<1> USE RenderAssumption
<1>1. Started \in Daemons
  BY DEF Started, Daemons, Phases, States, Terminal, Jobs
<1>2. TypeOK
  BY <1>1 DEF Init, TypeOK, States, Evidence
<1>3. BusyInv /\ StoppingInv
  BY DEF Init, BusyInv, StoppingInv, Started
<1>4. AttemptInv /\ DoneHasItsResult
  BY DEF Init, AttemptInv, DoneHasItsResult
<1>5. QED
  BY <1>2, <1>3, <1>4 DEF RenderInv

-----------------------------------------------------------------------------
(* How jobs, inferences and the daemon move *)

\* A job is created, ended by somebody else, or moved on as the daemon planned.
JobMoves(j) ==
  \/ job'[j] = job[j]
  \/ job[j].state = "absent" /\ job'[j].state = "queued" /\ job'[j].retries = job[j].retries
  \/ /\ Open(j) /\ job'[j].state \in {"failed", "cancelled"}
     /\ job'[j].retries = job[j].retries
  \/ /\ daemon.phase = "writing" /\ j = daemon.cur /\ job[j].state = daemon.seen
     /\ job'[j].state = daemon.plan
     /\ daemon'.phase = "between"

\* An inference starts, ends or is cut off.
AttemptMoves(j) ==
  \/ attempt'[j] = attempt[j]
  \/ attempt[j] = "running" /\ attempt'[j] # "running"
  \/ /\ attempt[j] = "missing" /\ attempt'[j] = "running"
     /\ daemon.phase = "acting" /\ daemon.seen = "staging" /\ j = daemon.cur

\* The daemon is let alone, is done with its job, has read the next one, or has
\* decided.
DaemonMoves ==
  \/ daemon' = daemon
  \/ /\ daemon'.phase \notin {"acting", "writing"}
     /\ daemon'.phase = "stopping" => Active = {} /\ job' = job
  \/ /\ daemon'.phase = "acting" /\ job' = job
     /\ daemon'.cur \in Jobs /\ Open(daemon'.cur) /\ daemon'.seen = job[daemon'.cur].state
  \/ /\ daemon.phase = "acting" /\ daemon'.phase = "writing" /\ job' = job
     /\ daemon'.cur = daemon.cur /\ daemon'.seen = daemon.seen
     /\ PlanInv'

Moves ==
  /\ TypeOK'
  /\ results \subseteq results'
  /\ \A j \in Jobs : JobMoves(j) /\ AttemptMoves(j)
  /\ DaemonMoves

LEMMA MovesKeep ==
  ASSUME RenderInv, Moves
  PROVE  RenderInv'
<1> USE DEF RenderInv, Moves
<1>1. \A j \in Jobs : attempt[j] = "succeeded" => attempt'[j] = "succeeded"
  BY DEF AttemptMoves
<1>2. DoneHasItsResult'
  <2>1. SUFFICES ASSUME NEW j \in Jobs, job'[j].state = "done"
                 PROVE  j \in results' /\ attempt'[j] = "succeeded"
    BY DEF DoneHasItsResult
  <2>2. j \in results /\ attempt[j] = "succeeded"
    BY <2>1 DEF DoneHasItsResult, JobMoves, BusyInv, PlanInv
  <2>3. QED
    BY <1>1, <2>2
<1>3. AttemptInv'
  <2>1. SUFFICES ASSUME NEW j \in Jobs, job'[j].state \in {"absent", "queued", "provisioning"}
                 PROVE  attempt'[j] = "missing"
    BY DEF AttemptInv
  <2>2. CASE job'[j] = job[j]
    BY <2>1, <2>2 DEF AttemptInv, AttemptMoves, BusyInv, Terminal
  <2>3. CASE job[j].state = "absent"
    BY <2>3 DEF AttemptInv, AttemptMoves, BusyInv, Terminal
  <2>4. CASE /\ daemon.phase = "writing" /\ j = daemon.cur /\ job[j].state = daemon.seen
             /\ job'[j].state = daemon.plan
    BY <2>1, <2>4 DEF AttemptInv, AttemptMoves, BusyInv, PlanInv
  <2>5. QED
    BY <2>1, <2>2, <2>3, <2>4 DEF JobMoves
<1>4. StoppingInv'
  <2>1. SUFFICES ASSUME daemon'.phase = "stopping", NEW j \in Jobs, Open(j)'
                 PROVE  job'[j].state = "queued"
    BY DEF StoppingInv, Active
  <2>2. CASE daemon' = daemon
    BY <2>1, <2>2 DEF StoppingInv, Active, Open, JobMoves, Terminal
  <2>3. CASE Active = {} /\ job' = job
    BY <2>1, <2>3 DEF Active, Open
  <2>4. QED
    BY <2>1, <2>2, <2>3 DEF DaemonMoves
<1>5. BusyInv'
  <2>1. CASE daemon' = daemon /\ daemon.phase \in {"acting", "writing"}
    <3> DEFINE j == daemon.cur
    <3>1. j \in Jobs /\ job[j].state \in Terminal \cup {daemon.seen}
          /\ daemon.seen \notin Terminal \cup {"absent"}
      BY <2>1 DEF BusyInv
    <3>2. \/ job'[j] = job[j]
          \/ job'[j].state \in Terminal /\ job'[j].retries = job[j].retries
      BY <2>1, <3>1 DEF JobMoves, Terminal
    <3>3. job'[j].state \in Terminal \cup {daemon.seen}
      BY <3>1, <3>2
    <3>4. ASSUME daemon.phase = "writing" PROVE PlanInv'
      <4>1. PlanInv
        BY <3>4 DEF BusyInv
      <4>2. Retriable(j) => Retriable(j)'
        BY <2>1, <3>2 DEF Retriable
      <4>3. job'[j].state = daemon.seen => job[j].state = daemon.seen
        BY <3>1, <3>2
      <4>4. attempt[j] = "missing" => attempt'[j] = "missing"
        BY <3>1, <3>4 DEF AttemptMoves
      <4>5. QED
        BY <1>1, <2>1, <3>1, <4>1, <4>2, <4>3, <4>4 DEF PlanInv, Retries
    <3>5. QED
      BY <2>1, <3>1, <3>3, <3>4 DEF BusyInv
  <2>2. CASE daemon'.phase \notin {"acting", "writing"}
    BY <2>2 DEF BusyInv
  <2>3. CASE /\ daemon'.phase = "acting" /\ job' = job
             /\ daemon'.cur \in Jobs /\ Open(daemon'.cur) /\ daemon'.seen = job[daemon'.cur].state
    BY <2>3 DEF BusyInv, Open
  <2>4. CASE /\ daemon.phase = "acting" /\ daemon'.phase = "writing" /\ job' = job
             /\ daemon'.cur = daemon.cur /\ daemon'.seen = daemon.seen
             /\ PlanInv'
    BY <2>4 DEF BusyInv
  <2>5. QED
    BY <2>1, <2>2, <2>3, <2>4 DEF DaemonMoves
<1>6. QED
  BY <1>2, <1>3, <1>4, <1>5

LEMMA MovedJob ==
  ASSUME TypeOK, NEW j \in Jobs, NEW state \in States, NEW retried \in BOOLEAN,
         retried => Retriable(j), job' = Moved(j, state, retried)
  PROVE  /\ job' \in [Jobs -> [state : States, retries : 0 .. MaxRetries]]
         /\ job'[j].state = state
         /\ ~ retried => job'[j].retries = job[j].retries
         /\ \A k \in Jobs \ {j} : job'[k] = job[k]
<1>1. job[j].retries \in 0 .. MaxRetries
  BY DEF TypeOK
<1>2. job[j].retries + (IF retried THEN 1 ELSE 0) \in 0 .. MaxRetries
  BY <1>1, RenderAssumption DEF Retriable
<1>3. [state |-> state, retries |-> job[j].retries + (IF retried THEN 1 ELSE 0)]
        \in [state : States, retries : 0 .. MaxRetries]
  BY <1>2
<1>4. ~ retried => job[j].retries + (IF retried THEN 1 ELSE 0) = job[j].retries
  BY <1>1
<1>5. job' = [job EXCEPT ![j] = [state |-> state, retries |-> job[j].retries + (IF retried THEN 1 ELSE 0)]]
  BY DEF Moved
<1>6. QED
  BY <1>3, <1>4, <1>5 DEF TypeOK

\* Freed and Plan.
LEMMA FreedDaemon ==
  ASSUME TypeOK, daemon' = Freed
  PROVE  daemon' \in Daemons /\ daemon'.phase = "between"
<1>1. daemon \in Daemons
  BY DEF TypeOK
<1>2. 0 \in 0 .. MaxJobs /\ "absent" \in States /\ "between" \in Phases
  BY RenderAssumption DEF States, Phases
<1>3. QED
  BY <1>1, <1>2 DEF Freed, Daemons

LEMMA PlannedDaemon ==
  ASSUME TypeOK, NEW state \in States, Plan(state)
  PROVE  /\ daemon' \in Daemons /\ daemon'.phase = "writing" /\ daemon'.plan = state
         /\ daemon'.cur = daemon.cur /\ daemon'.seen = daemon.seen
BY DEF TypeOK, Daemons, Plan, Phases

-----------------------------------------------------------------------------
(* The steps *)

\* The jobs do not move.
LEMMA JobsRest ==
  ASSUME UNCHANGED <<job, attempt>>
  PROVE  \A j \in Jobs : JobMoves(j) /\ AttemptMoves(j)
BY DEF JobMoves, AttemptMoves

LEMMA APIMoves ==
  ASSUME RenderInv, NEW j \in Jobs, API(j)
  PROVE  Moves
<1> USE DEF RenderInv
<1>1. /\ UNCHANGED <<results, attempt, pod, daemon, crashes>>
      /\ inputs' \subseteq Jobs /\ creating' \subseteq Jobs
  BY DEF API, Create, InputsStaged, InputsRefused, CreateBreaksOff, Cancel, TypeOK
<1>2. /\ job' \in [Jobs -> [state : States, retries : 0 .. MaxRetries]]
      /\ \A k \in Jobs : JobMoves(k)
  <2>1. CASE job' = job
    BY <2>1 DEF TypeOK, JobMoves
  <2>2. ASSUME NEW state \in {"queued", "failed", "cancelled"}, job' = Moved(j, state, FALSE),
               \/ job[j].state = "absent" /\ state = "queued"
               \/ Open(j) /\ state \in {"failed", "cancelled"}
        PROVE  /\ job' \in [Jobs -> [state : States, retries : 0 .. MaxRetries]]
               /\ \A k \in Jobs : JobMoves(k)
    <3>1. /\ job' \in [Jobs -> [state : States, retries : 0 .. MaxRetries]]
          /\ job'[j].state = state /\ job'[j].retries = job[j].retries
          /\ \A k \in Jobs \ {j} : job'[k] = job[k]
      BY <2>2, MovedJob DEF States, Terminal
    <3>2. JobMoves(j)
      BY <2>2, <3>1 DEF JobMoves
    <3>3. QED
      BY <3>1, <3>2 DEF JobMoves
  <2>3. \/ job' = job
        \/ job[j].state = "absent" /\ job' = Moved(j, "queued", FALSE)
        \/ job[j].state = "queued" /\ job' = Moved(j, "failed", FALSE)
        \/ Open(j) /\ job' = Moved(j, "cancelled", FALSE)
    BY DEF API, Create, InputsStaged, InputsRefused, CreateBreaksOff, Cancel
  <2>4. job[j].state = "queued" => Open(j)
    BY DEF Open, Terminal
  <2>5. QED
    BY <2>1, <2>2, <2>3, <2>4
<1>3. QED
  BY <1>1, <1>2 DEF Moves, TypeOK, AttemptMoves, DaemonMoves

LEMMA WorkerMoves ==
  ASSUME RenderInv, Interruption \/ \E j \in Jobs : AttemptEnds(j)
  PROVE  Moves
<1> USE DEF RenderInv
<1>1. /\ UNCHANGED <<job, inputs, results, creating, daemon, crashes>>
      /\ pod' \in {"running", "stopped"}
  BY DEF Interruption, AttemptEnds, TypeOK
<1>2. attempt' \in [Jobs -> Evidence] /\ \A k \in Jobs : AttemptMoves(k)
  BY DEF Interruption, AttemptEnds, CutOff, TypeOK, Evidence, AttemptMoves
<1>3. QED
  BY <1>1, <1>2 DEF Moves, TypeOK, JobMoves, DaemonMoves

LEMMA PassMoves ==
  ASSUME RenderInv, PassBegins \/ Look
  PROVE  Moves
<1> USE DEF RenderInv
<1>1. UNCHANGED <<job, inputs, results, creating, attempt, pod, crashes>>
  BY DEF PassBegins, Look
<1>2. daemon \in Daemons
  BY DEF TypeOK
<1>3. daemon' \in Daemons /\ DaemonMoves
  <2>1. CASE PassBegins
    <3>1. daemon' = [daemon EXCEPT !.phase = "between", !.todo = Active]
      BY <2>1 DEF PassBegins
    <3>2. Active \subseteq Jobs /\ "between" \in Phases
      BY DEF Active, Phases
    <3>3. daemon' \in Daemons
      BY <1>2, <3>1, <3>2 DEF Daemons
    <3>4. daemon'.phase = "between"
      BY <1>2, <3>1 DEF Daemons
    <3>5. QED
      BY <3>3, <3>4 DEF DaemonMoves
  <2>2. ASSUME NEW j \in daemon.todo, Open(j),
               daemon' = [daemon EXCEPT !.phase = "acting", !.cur = j,
                                        !.seen = job[j].state, !.todo = @ \ {j}]
        PROVE  daemon' \in Daemons /\ DaemonMoves
    <3>1. j \in Jobs /\ j \in 0 .. MaxJobs /\ job[j].state \in States /\ "acting" \in Phases
      BY <1>2, RenderAssumption DEF Daemons, Jobs, TypeOK, Phases
    <3> DEFINE seen == job[j].state
    <3>2. daemon' = [daemon EXCEPT !.phase = "acting", !.cur = j, !.seen = seen,
                                   !.todo = daemon.todo \ {j}]
      BY <2>2
    <3>3. seen \in States
      BY <3>1
    <3> HIDE DEF seen
    <3>4. daemon' \in Daemons
      BY <1>2, <3>1, <3>2, <3>3 DEF Daemons
    <3>5. daemon'.phase = "acting" /\ daemon'.cur = j /\ daemon'.seen = seen
      BY <1>2, <3>2 DEF Daemons
    <3>6. QED
      BY <1>1, <2>2, <3>1, <3>4, <3>5 DEF DaemonMoves, seen
  <2>3. ASSUME NEW j \in daemon.todo, daemon' = [daemon EXCEPT !.todo = @ \ {j}],
               daemon.phase = "between"
        PROVE  daemon' \in Daemons /\ DaemonMoves
    BY <1>2, <2>3 DEF Daemons, DaemonMoves
  <2>4. QED
    BY <2>1, <2>2, <2>3 DEF Look
<1>4. QED
  BY <1>1, <1>3, JobsRest DEF Moves, TypeOK

\* tick decides: nothing, or a plan that will still hold when it is written.
LEMMA Decides ==
  ASSUME RenderInv, daemon.phase = "acting", UNCHANGED job,
         NEW state \in States \ {"absent"}, Plan(state),
         state = "done" => daemon.cur \in results' /\ attempt'[daemon.cur] = "succeeded",
         Retries(daemon.seen, state) => Retriable(daemon.cur),
         state = "queued" /\ job[daemon.cur].state = daemon.seen => attempt'[daemon.cur] = "missing",
         state = "provisioning" => daemon.seen = "queued"
  PROVE  daemon' \in Daemons /\ DaemonMoves
<1>1. /\ daemon' \in Daemons /\ daemon'.phase = "writing" /\ daemon'.plan = state
      /\ daemon'.cur = daemon.cur /\ daemon'.seen = daemon.seen
  BY PlannedDaemon DEF RenderInv
<1>2. PlanInv'
  BY <1>1 DEF PlanInv, Retries, Retriable
<1>3. QED
  BY <1>1, <1>2 DEF DaemonMoves

\* _retry_or_fail.
LEMMA RetriesOrFails ==
  ASSUME RenderInv, daemon.phase = "acting", UNCHANGED <<job, attempt, results>>,
         NEW fallback \in {"queued", "running"}, RetryOrFail(daemon.cur, fallback),
         daemon.seen # "collecting" => fallback = "queued",
         fallback = "queued" /\ job[daemon.cur].state = daemon.seen => attempt[daemon.cur] = "missing"
  PROVE  daemon' \in Daemons /\ DaemonMoves
<1>1. {"queued", "running", "failed"} \subseteq States \ {"absent"}
  BY DEF States, Terminal
<1>2. CASE Retriable(daemon.cur)
  <2>1. Plan(fallback)
    BY <1>2 DEF RetryOrFail
  <2>2. QED
    BY <1>1, <1>2, <2>1, Decides
<1>3. CASE ~ Retriable(daemon.cur)
  <2>1. Plan("failed")
    BY <1>3 DEF RetryOrFail
  <2>2. ~ Retries(daemon.seen, "failed")
    BY DEF Retries
  <2>3. QED
    BY <1>1, <2>1, <2>2, Decides
<1>4. QED
  BY <1>2, <1>3

LEMMA ActMoves ==
  ASSUME RenderInv, Act
  PROVE  Moves
<1> USE DEF RenderInv
<1> DEFINE S == States \ {"absent"}
<1>1. /\ daemon.phase = "acting" /\ UNCHANGED <<job, inputs, creating, crashes>>
      /\ daemon.cur \in Jobs /\ daemon.seen \in States
      /\ job[daemon.cur].state \in Terminal \cup {daemon.seen}
      /\ job[daemon.cur].retries \in 0 .. MaxRetries
  BY DEF Act, TakeUp, Provision, StageInspect, StageLaunch, Watch, Collect, At, BusyInv, TypeOK, Daemons
<1>2. {"provisioning", "staging", "queued", "failed", "running", "collecting", "done"} \subseteq S
  BY DEF States, Terminal
<1>3. CASE TakeUp
  <2>1. daemon.seen = "queued" /\ Plan("provisioning") /\ UNCHANGED <<results, attempt, pod>>
    BY <1>3 DEF TakeUp, At
  <2>2. daemon' \in Daemons /\ DaemonMoves
    BY <1>1, <1>2, <1>3, <2>1, Decides DEF Retries, TypeOK
  <2>3. QED
    BY <1>1, <1>3, <2>1, <2>2, JobsRest DEF Moves, TypeOK
<1>4. CASE Provision
  <2>1. daemon.seen = "provisioning" /\ pod' \in {"running", "stopped"} /\ UNCHANGED <<results, attempt>>
    BY <1>4 DEF Provision, At, TypeOK
  <2>2. job[daemon.cur].state = daemon.seen => attempt[daemon.cur] = "missing"
    BY <1>1, <2>1 DEF AttemptInv
  <2>3. ASSUME Plan("staging") PROVE daemon' \in Daemons /\ DaemonMoves
    BY <1>1, <1>2, <2>1, <2>3, Decides DEF Retries
  <2>4. ASSUME RetryOrFail(daemon.cur, "queued") PROVE daemon' \in Daemons /\ DaemonMoves
    BY <1>1, <2>1, <2>2, <2>4, RetriesOrFails
  <2>5. QED
    BY <1>1, <1>4, <2>1, <2>3, <2>4, JobsRest DEF Provision, Moves, TypeOK
<1>5. CASE StageInspect
  <2>1. daemon.seen = "staging" /\ UNCHANGED <<results, attempt, pod>>
    BY <1>5 DEF StageInspect, At
  <2>2. ASSUME NEW state \in {"running", "collecting", "failed"}, Plan(state)
        PROVE  daemon' \in Daemons /\ DaemonMoves
    BY <1>1, <1>2, <2>1, <2>2, Decides DEF Retries
  <2>3. \E state \in {"running", "collecting", "failed"} : Plan(state)
    BY <1>5 DEF StageInspect, StagingPlan
  <2>4. QED
    BY <1>1, <2>1, <2>2, <2>3, JobsRest DEF Moves, TypeOK
<1>6. CASE StageLaunch
  <2>1. daemon.seen = "staging" /\ UNCHANGED <<results, pod>> /\ attempt[daemon.cur] = "missing"
    BY <1>6 DEF StageLaunch, At, Inspected
  <2>2. CASE RetryOrFail(daemon.cur, "queued") /\ UNCHANGED attempt
    <3>1. daemon' \in Daemons /\ DaemonMoves
      BY <1>1, <2>1, <2>2, RetriesOrFails
    <3>2. QED
      BY <1>1, <2>1, <2>2, <3>1, JobsRest DEF Moves, TypeOK
  <2>3. CASE attempt' \in {attempt, [attempt EXCEPT ![daemon.cur] = "running"]} /\ Plan("running")
    <3>1. daemon' \in Daemons /\ DaemonMoves
      BY <1>1, <1>2, <2>1, <2>3, Decides DEF Retries
    <3>2. attempt' \in [Jobs -> Evidence]
      BY <2>3 DEF TypeOK, Evidence
    <3>3. \A k \in Jobs : AttemptMoves(k)
      BY <1>1, <2>1, <2>3 DEF AttemptMoves, TypeOK
    <3>4. QED
      BY <1>1, <2>1, <3>1, <3>2, <3>3 DEF Moves, TypeOK, JobMoves
  <2>4. QED
    BY <1>6, <2>2, <2>3 DEF StageLaunch
<1>7. CASE Watch
  <2>1. daemon.seen = "running" /\ UNCHANGED <<results, attempt, pod>>
    BY <1>7 DEF Watch, At
  <2>2. CASE LetBe
    <3>1. daemon' \in Daemons /\ daemon'.phase = "between"
      BY <2>2, FreedDaemon DEF LetBe
    <3>2. QED
      BY <1>1, <2>1, <3>1, JobsRest DEF Moves, TypeOK, DaemonMoves
  <2>3. ASSUME NEW state \in {"collecting", "failed"}, Plan(state) PROVE Moves
    <3>1. daemon' \in Daemons /\ DaemonMoves
      BY <1>1, <1>2, <2>1, <2>3, Decides DEF Retries
    <3>2. QED
      BY <1>1, <2>1, <3>1, JobsRest DEF Moves, TypeOK
  <2>4. QED
    BY <1>7, <2>2, <2>3 DEF Watch
<1>8. CASE Collect
  <2>1. daemon.seen = "collecting" /\ UNCHANGED <<attempt, pod>>
    BY <1>8 DEF Collect, At
  <2>2. CASE /\ "succeeded" \in Inspected(daemon.cur)
             /\ results' = results \cup {daemon.cur}
             /\ Plan("done")
    <3>1. attempt[daemon.cur] = "succeeded" /\ daemon.cur \in results' /\ results' \subseteq Jobs
      BY <1>1, <2>2 DEF Inspected, TypeOK
    <3>2. daemon' \in Daemons /\ DaemonMoves
      BY <1>1, <1>2, <2>1, <2>2, <3>1, Decides DEF Retries
    <3>3. QED
      BY <1>1, <2>1, <2>2, <3>1, <3>2, JobsRest DEF Moves, TypeOK
  <2>3. CASE RetryOrFail(daemon.cur, "running") /\ UNCHANGED results
    <3>1. daemon' \in Daemons /\ DaemonMoves
      BY <1>1, <2>1, <2>3, RetriesOrFails
    <3>2. QED
      BY <1>1, <2>1, <2>3, <3>1, JobsRest DEF Moves, TypeOK
  <2>4. QED
    BY <1>8, <2>2, <2>3 DEF Collect
<1>9. QED
  BY <1>3, <1>4, <1>5, <1>6, <1>7, <1>8 DEF Act

LEMMA WriteMoves ==
  ASSUME RenderInv, Write
  PROVE  Moves
<1> USE DEF RenderInv
<1> DEFINE j == daemon.cur  state == daemon.plan  retried == Retries(daemon.seen, daemon.plan)
<1>1. /\ daemon.phase = "writing" /\ job[j].state = daemon.seen
      /\ job' = Moved(j, state, retried) /\ daemon' = Freed
      /\ UNCHANGED <<inputs, results, creating, attempt, pod, crashes>>
  BY DEF Write, Accepted
<1>2. j \in Jobs /\ state \in States /\ retried \in BOOLEAN /\ (retried => Retriable(j))
  BY <1>1 DEF BusyInv, PlanInv, TypeOK, Daemons, Retries
<1>3. daemon' \in Daemons /\ daemon'.phase = "between"
  BY <1>1, FreedDaemon
<1>4. /\ job' \in [Jobs -> [state : States, retries : 0 .. MaxRetries]]
      /\ job'[j].state = state
      /\ \A k \in Jobs \ {j} : job'[k] = job[k]
  <2> HIDE DEF j, state, retried
  <2>1. QED
    BY <1>1, <1>2, MovedJob
<1>5. \A k \in Jobs : JobMoves(k)
  BY <1>1, <1>3, <1>4 DEF JobMoves
<1>6. QED
  BY <1>1, <1>3, <1>4, <1>5 DEF Moves, TypeOK, AttemptMoves, DaemonMoves

LEMMA IdleMoves ==
  ASSUME RenderInv, IdleCheck \/ StopSucceeds \/ StopFails
  PROVE  Moves
<1> USE DEF RenderInv
<1>1. UNCHANGED <<job, inputs, results, creating, crashes>>
  BY DEF IdleCheck, StopSucceeds, StopFails
<1>2. daemon \in Daemons /\ {"resting", "stopping"} \subseteq Phases
  BY DEF TypeOK, Phases
<1>3. -1 \in -1 .. Grace /\ (daemon.idle < Grace => daemon.idle + 1 \in -1 .. Grace)
  BY <1>2, RenderAssumption DEF Daemons
<1>4. daemon' \in Daemons /\ DaemonMoves
  <2>1. CASE daemon' = [daemon EXCEPT !.phase = "resting", !.idle = -1, !.stopped = FALSE]
    BY <1>2, <1>3, <2>1 DEF Daemons, DaemonMoves
  <2>2. CASE daemon' = [daemon EXCEPT !.phase = "resting"]
    BY <1>2, <2>2 DEF Daemons, DaemonMoves
  <2>3. CASE daemon.idle < Grace /\ daemon' = [daemon EXCEPT !.phase = "resting", !.idle = @ + 1]
    <3> DEFINE idle == daemon.idle + 1
    <3>1. idle \in -1 .. Grace /\ daemon' = [daemon EXCEPT !.phase = "resting", !.idle = idle]
      BY <1>3, <2>3
    <3> HIDE DEF idle
    <3>2. QED
      BY <1>2, <3>1 DEF Daemons, DaemonMoves
  <2>4. CASE Active = {} /\ daemon' = [daemon EXCEPT !.phase = "stopping"]
    BY <1>1, <1>2, <2>4 DEF Daemons, DaemonMoves
  <2>5. CASE daemon' = [daemon EXCEPT !.phase = "resting", !.stopped = TRUE]
    BY <1>2, <2>5 DEF Daemons, DaemonMoves
  <2>6. QED
    BY <2>1, <2>2, <2>3, <2>4, <2>5 DEF IdleCheck, StopSucceeds, StopFails
<1>5. /\ pod' \in {"running", "stopped"} /\ attempt' \in [Jobs -> Evidence]
      /\ \A k \in Jobs : AttemptMoves(k)
  <2>1. CASE UNCHANGED <<attempt, pod>>
    BY <2>1 DEF TypeOK, AttemptMoves
  <2>2. CASE pod' = "stopped" /\ attempt' = CutOff
    BY <2>2 DEF CutOff, TypeOK, Evidence, AttemptMoves
  <2>3. QED
    BY <2>1, <2>2 DEF IdleCheck, StopSucceeds, StopFails
<1>6. QED
  BY <1>1, <1>4, <1>5 DEF Moves, TypeOK, JobMoves

\* A refusal or a crash: systemd starts the daemon again.
LEMMA RestartMoves ==
  ASSUME RenderInv, Refused \/ Crash
  PROVE  Moves
<1> USE RenderAssumption DEF RenderInv
<1>1. /\ UNCHANGED <<job, inputs, results, creating, attempt, pod>> /\ daemon' = Started
      /\ crashes' \in 0 .. MaxCrashes
  BY DEF Refused, Crash, TypeOK
<1>2. daemon' \in Daemons /\ daemon'.phase = "resting"
  BY <1>1 DEF Started, Daemons, Phases, States, Terminal, Jobs
<1>3. QED
  BY <1>1, <1>2, JobsRest DEF Moves, TypeOK, DaemonMoves

LEMMA RenderStep ==
  ASSUME RenderInv, [Next]_vars
  PROVE  Moves
<1>1. CASE UNCHANGED vars
  BY <1>1, JobsRest DEF RenderInv, vars, Moves, TypeOK, DaemonMoves
<1>2. QED
  BY <1>1, APIMoves, WorkerMoves, PassMoves, ActMoves, WriteMoves, IdleMoves, RestartMoves
  DEF Next, Daemon

LEMMA RenderInvariant == Spec => []RenderInv
<1>1. Init => RenderInv
  BY RenderInitInv
<1>2. RenderInv /\ [Next]_vars => RenderInv'
  BY RenderStep, MovesKeep
<1>3. QED
  BY <1>1, <1>2, PTL DEF Spec

-----------------------------------------------------------------------------
(* The theorems *)

\* The table (store.py), the worker and the daemon keep their types; no path
\* counts more retries than max_infra_retries.
THEOREM RenderTypeCorrect == Spec => []TypeOK
<1>1. RenderInv => TypeOK
  BY DEF RenderInv
<1>2. QED
  BY <1>1, RenderInvariant, PTL

\* A job that is done has its result on the VPS, of an inference that succeeded.
THEOREM DoneHasItsResultThm == Spec => []DoneHasItsResult
<1>1. RenderInv => DoneHasItsResult
  BY DEF RenderInv
<1>2. QED
  BY <1>1, RenderInvariant, PTL

\* The worker goes down under the idle stop, or during it, only when no open job
\* has an inference on it.
THEOREM StopSparesOpenJobsThm == Spec => StopSparesOpenJobs
<1>1. RenderInv => (daemon.phase = "stopping" => \A j \in Active : attempt[j] # "running")
  BY DEF RenderInv, StoppingInv, AttemptInv, Active
<1>2. RenderInv /\ [Next]_vars
        => [daemon.phase = "stopping" /\ pod' # pod => \A j \in Active : attempt[j] # "running"]_vars
  BY <1>1
<1>3. QED
  BY <1>2, RenderInvariant, PTL DEF Spec, StopSparesOpenJobs

-----------------------------------------------------------------------------
(* The refinement of RenderContract *)

\* Where the client sees a job.
SeenAs(j) == IF Open(j) THEN "open" ELSE job[j].state
Seen == [j \in Jobs |-> SeenAs(j)]

LEMMA RenderContractInit == Init => Contract!Init
BY DEF Init, Contract!Init, Open, Terminal

\* One job moves, or none, and no inference.
LEMMA JobStepKeeps ==
  ASSUME RenderInv, NEW j \in Jobs, JobMoves(j), UNCHANGED attempt,
         \A k \in Jobs \ {j} : job'[k] = job[k]
  PROVE  [Contract!Next]_Contract!vars
<1> USE DEF RenderInv
<1>1. Seen' = [Seen EXCEPT ![j] = SeenAs(j)']
  BY DEF Seen, SeenAs, Open
<1>2. CASE SeenAs(j)' = SeenAs(j)
  <2>1. Seen' = Seen
    BY <1>1, <1>2 DEF Seen
  <2>2. QED
    BY <2>1 DEF Seen, SeenAs, Contract!vars
<1>3. CASE job[j].state = "absent" /\ job'[j].state = "queued"
  <2>1. Seen[j] = "absent" /\ SeenAs(j)' = "open"
    BY <1>3 DEF Seen, SeenAs, Open, Terminal
  <2>2. Contract!Submit(j)
    BY <1>1, <2>1 DEF Contract!Submit, Seen, SeenAs
  <2>3. QED
    BY <2>2 DEF Contract!Next
<1>4. CASE Open(j) /\ job'[j].state \in Terminal /\ (job'[j].state = "done" => attempt[j] = "succeeded")
  <2>1. Seen[j] = "open" /\ SeenAs(j)' = job'[j].state /\ job'[j].state \in Contract!Verdicts
    BY <1>4 DEF Seen, SeenAs, Open, Terminal, Contract!Verdicts
  <2>2. Contract!Close(j)
    BY <1>1, <1>4, <2>1 DEF Contract!Close, Seen, SeenAs
  <2>3. QED
    BY <2>2 DEF Contract!Next
<1>5. QED
  <2>1. CASE job'[j] = job[j]
    BY <1>2, <2>1 DEF SeenAs, Open
  <2>2. CASE Open(j) /\ job'[j].state \in {"failed", "cancelled"}
    BY <1>4, <2>2 DEF Terminal
  <2>3. CASE /\ daemon.phase = "writing" /\ j = daemon.cur /\ job[j].state = daemon.seen
             /\ job'[j].state = daemon.plan
    <3>1. Open(j) /\ daemon.plan # "absent" /\ (daemon.plan = "done" => attempt[j] = "succeeded")
      BY <2>3 DEF BusyInv, PlanInv, Open
    <3>2. CASE daemon.plan \in Terminal
      BY <1>4, <2>3, <3>1, <3>2
    <3>3. CASE daemon.plan \notin Terminal
      <4>1. SeenAs(j)' = "open" /\ SeenAs(j) = "open"
        BY <2>3, <3>1, <3>3 DEF SeenAs, Open
      <4>2. QED
        BY <1>2, <4>1
    <3>4. QED
      BY <3>2, <3>3
  <2>4. QED
    BY <1>3, <2>1, <2>2, <2>3 DEF JobMoves

\* No job moves and one inference starts or ends.
LEMMA AttemptStepKeeps ==
  ASSUME RenderInv, UNCHANGED job, NEW j \in Jobs,
         \/ /\ job[j].state # "absent" /\ attempt[j] = "missing"
            /\ attempt' = [attempt EXCEPT ![j] = "running"]
         \/ AttemptEnds(j)
  PROVE  [Contract!Next]_Contract!vars
<1>1. Seen' = Seen
  BY DEF Seen, SeenAs, Open
<1>2. CASE AttemptEnds(j)
  <2>1. Contract!Finish(j)
    BY <1>1, <1>2 DEF AttemptEnds, Contract!Finish, Seen, SeenAs
  <2>2. QED
    BY <2>1 DEF Contract!Next
<1>3. CASE /\ job[j].state # "absent" /\ attempt[j] = "missing"
           /\ attempt' = [attempt EXCEPT ![j] = "running"]
  <2>1. Seen[j] # "absent"
    BY <1>3 DEF Seen, SeenAs
  <2>2. Contract!Begin(j)
    BY <1>1, <1>3, <2>1 DEF Contract!Begin, Seen, SeenAs
  <2>3. QED
    BY <2>2 DEF Contract!Next
<1>4. QED
  BY <1>2, <1>3

LEMMA CutOffKeeps ==
  ASSUME UNCHANGED job, attempt' = CutOff
  PROVE  [Contract!Next]_Contract!vars
<1>1. Seen' = Seen
  BY DEF Seen, SeenAs, Open
<1>2. Contract!Interrupt
  BY <1>1 DEF Contract!Interrupt, CutOff, Seen, SeenAs
<1>3. QED
  BY <1>2 DEF Contract!Next

LEMMA NothingSeen ==
  ASSUME UNCHANGED <<job, attempt>>
  PROVE  [Contract!Next]_Contract!vars
<1>1. Seen' = Seen
  BY DEF Seen, SeenAs, Open
<1>2. QED
  BY <1>1 DEF Seen, SeenAs, Contract!vars

LEMMA RenderContractStep ==
  ASSUME RenderInv, [Next]_vars
  PROVE  [Contract!Next]_Contract!vars
<1>1. \A j \in Jobs : JobMoves(j)
  BY RenderStep DEF Moves
<1>2. ASSUME NEW j \in Jobs, API(j) \/ (Write /\ j = daemon.cur) PROVE [Contract!Next]_Contract!vars
  <2>1. attempt' = attempt /\ \A k \in Jobs \ {j} : job'[k] = job[k]
    BY <1>2 DEF RenderInv, TypeOK, API, Create, InputsStaged, InputsRefused, CreateBreaksOff, Cancel,
                Write, Moved
  <2>2. QED
    BY <1>1, <2>1, JobStepKeeps
<1>3. CASE Write
  <2>1. daemon.cur \in Jobs
    BY <1>3 DEF Write, RenderInv, BusyInv
  <2>2. QED
    BY <1>2, <1>3, <2>1
<1>4. ASSUME NEW j \in Jobs, AttemptEnds(j) PROVE [Contract!Next]_Contract!vars
  BY <1>4, AttemptStepKeeps DEF AttemptEnds
<1>5. CASE Interruption \/ StopSucceeds
  BY <1>5, CutOffKeeps DEF Interruption, StopSucceeds
<1>6. CASE StageLaunch
  <2>1. daemon.cur \in Jobs /\ job[daemon.cur].state # "absent" /\ attempt[daemon.cur] = "missing" /\ job' = job
    BY <1>6 DEF StageLaunch, At, Inspected, RenderInv, BusyInv, Terminal
  <2>2. attempt' = attempt \/ attempt' = [attempt EXCEPT ![daemon.cur] = "running"]
    BY <1>6 DEF StageLaunch
  <2>3. QED
    BY <2>1, <2>2, AttemptStepKeeps, NothingSeen
<1>7. CASE \/ PassBegins \/ Look \/ TakeUp \/ Provision \/ StageInspect \/ Watch \/ Collect
           \/ Refused \/ IdleCheck \/ StopFails \/ Crash \/ UNCHANGED vars
  <2>1. UNCHANGED <<job, attempt>>
    BY <1>7 DEF PassBegins, Look, TakeUp, Provision, StageInspect, Watch, Collect, Refused,
                IdleCheck, StopFails, Crash, vars
  <2>2. QED
    BY <2>1, NothingSeen
<1>8. QED
  BY <1>2, <1>3, <1>4, <1>5, <1>6, <1>7 DEF Next, Daemon, Act

\* The service keeps the contract (RenderContract): one inference at a time,
\* done only by one that succeeded and with its result, and verdicts are final.
THEOREM RenderImplementsContract == Spec => KeepsLifecycle
<1>1. Spec => []RenderInv
  BY RenderInvariant
<1>2. Init => Contract!Init
  BY RenderContractInit
<1>3. RenderInv /\ [Next]_vars => [Contract!Next]_Contract!vars
  BY RenderContractStep
<1>4. RenderInv => DoneHasItsResult
  BY DEF RenderInv
<1>5. QED
  BY <1>1, <1>2, <1>3, <1>4, PTL DEF Spec, KeepsLifecycle, Contract!Spec
=============================================================================
