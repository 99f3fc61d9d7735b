------------------------------ MODULE BrainWake ------------------------------
(* How a due brain task reaches the model: the worker marks it in the queue,  *)
(* emits a wake event and lists it in brain-inbox.json (runtime/worker.py);   *)
(* the tools of the MCP server update and prune that list as the model        *)
(* claims, commits or moves the task (runtime/server_v2.py).                  *)
(*                                                                            *)
(* The queue and the event store are changed under their locks, one step per  *)
(* command.  The inbox is a file that both processes read, change and replace *)
(* without a lock, so reading and replacing it are steps of their own.  The   *)
(* server handles one call at a time.  Either process may die at any step;    *)
(* systemd starts it again.                                                   *)
EXTENDS TaskQueue

CONSTANTS MaxDeaths,  \* bound: how often a process dies
          MaxSignal   \* bound: the revisions whose announcement is followed up

\* Only brain tasks are announced; local ones never meet the inbox.
ASSUME WakeAssumption ==
  /\ Tasks # {}
  /\ LeaseSecs # {}
  /\ \A p \in Params : p.mode = "brain"
  /\ MaxDeaths \in Nat
  /\ MaxSignal \in Nat

VARIABLES
  inbox,   \* the entries of brain-inbox.json
  woken,   \* the keys of the wake events that were emitted
  worker,  \* the worker process: where it is in drain_due, and what it has read
  server,  \* the server process: the inbox change it is making
  cut,     \* history: announcements a dying worker left undone
  deaths

wakeVars == <<inbox, woken, worker, server, cut, deaths>>
allVars == <<task, cfg, order, held, inbox, woken, worker, server, cut, deaths>>

\* A task as it stood when it became due: the key of its wake event.
Signals == [task : Tasks, revision : Nat]
NoSignal == [task |-> CHOOSE t \in Tasks : TRUE, revision |-> 0]
Entries == [signal : Signals, claimed : BOOLEAN]

Workers == [at : {"start", "mark", "fetch", "emit", "store", "local"},
            due : SUBSET Signals, read : SUBSET Entries]

\* What a tool of the server does to the inbox after its queue command.
Jobs == {"claim", "remove", "prune", "clean"}
Servers == [at : {"idle", "fetch", "check", "store"}, job : Jobs,
            signal : Signals, read : SUBSET Entries]

Idle(s) == [s EXCEPT !.at = "idle", !.job = "prune", !.signal = NoSignal, !.read = {}]

-----------------------------------------------------------------------------
(* The worker: drain_due *)

SignalOf(t) == [task |-> t, revision |-> task[t].revision]

NewEntry(g) == [signal |-> g, claimed |-> FALSE]
Listed(g, entries) == \E e \in entries : e.signal = g

\* mark_brain_due saves the marks and returns the tasks it marked.
WorkerMarks ==
  /\ worker.at = "mark"
  /\ LET due == {t \in Tasks : NeedsSignal(task[t], cfg[t])} IN
       IF due = {}
       THEN /\ worker' = [worker EXCEPT !.at = "local"]
            /\ UNCHANGED task
       ELSE /\ MarkBrainDue
            /\ worker' = [worker EXCEPT !.at = "fetch", !.due = {SignalOf(t) : t \in due}]
  /\ UNCHANGED <<cfg, order, held, inbox, woken, server, cut, deaths>>

\* Fault: without an inbox there is nothing to publish to.
WorkerFetchesOrSkips ==
  /\ worker.at = "fetch"
  /\ worker' = IF inbox = {} THEN [worker EXCEPT !.at = "local", !.due = {}]
                ELSE [worker EXCEPT !.at = "emit", !.read = inbox]
  /\ UNCHANGED <<vars, inbox, woken, server, cut, deaths>>

WorkerFetches ==
  /\ worker.at = "fetch"
  /\ worker' = [worker EXCEPT !.at = "emit", !.read = inbox]
  /\ UNCHANGED <<vars, inbox, woken, server, cut, deaths>>

\* The loop of publish_brain_due, in whatever order: emit, then note the entry
\* for the file.
WorkerEmits ==
  /\ worker.at = "emit"
  /\ \E g \in worker.due :
       /\ woken' = woken \cup {g}
       /\ worker' = [worker EXCEPT
                       !.at = IF worker.due = {g} THEN "store" ELSE "emit",
                       !.due = @ \ {g},
                       !.read = IF Listed(g, @) THEN @ ELSE @ \cup {NewEntry(g)}]
  /\ UNCHANGED <<vars, inbox, server, cut, deaths>>

WorkerStores ==
  /\ worker.at = "store"
  /\ inbox' = worker.read
  /\ worker' = [worker EXCEPT !.at = "local", !.read = {}]
  /\ UNCHANGED <<vars, woken, server, cut, deaths>>

\* claim_local finds no local task, and releases expired leases.
WorkerClaims ==
  /\ worker.at = "local"
  /\ Claim(Worker, "local", CHOOSE d \in LeaseSecs : TRUE)
  /\ worker' = [worker EXCEPT !.at = "mark"]
  /\ UNCHANGED <<inbox, woken, server, cut, deaths>>

\* main runs the maintenance pass before its loop.
WorkerStarts ==
  /\ worker.at = "start"
  /\ Maintain
  /\ worker' = [worker EXCEPT !.at = "mark"]
  /\ UNCHANGED <<inbox, woken, server, cut, deaths>>

WorkerStep == WorkerMarks \/ WorkerFetches \/ WorkerEmits \/ WorkerStores
                \/ WorkerClaims \/ WorkerStarts

WorkerDies ==
  /\ deaths < MaxDeaths
  /\ deaths' = deaths + 1
  /\ cut' = cut \cup worker.due
  /\ worker' = [at |-> "start", due |-> {}, read |-> {}]
  /\ UNCHANGED <<vars, inbox, woken, server>>

-----------------------------------------------------------------------------
(* The server: a queue command, then the inbox *)

\* The tool goes on with the inbox; signal is the task and the revision meant.
Continue(job, t, n) ==
  server' = [server EXCEPT !.at = "fetch", !.job = job,
                           !.signal = [task |-> t, revision |-> n]]

\* queue_claim marks the entry the claim answers, whose revision is the one
\* before the claim, and prunes; without a task it only prunes.
ToolClaims(o, d) ==
  /\ Claim(o, "brain", d)
  /\ \/ held' = held /\ Continue("prune", NoSignal.task, 0)
     \/ \E r \in held' \ held : Continue("claim", r.task, r.revision - 1)

\* queue_commit, queue_fail, queue_cancel, queue_reschedule: every entry of the
\* task goes.
ToolCommits(r, continue, at) == Commit(r, continue, at) /\ Continue("remove", r.task, 0)
ToolFails(r, retry, after) == Fail(r, retry, after) /\ Continue("remove", r.task, 0)
ToolCancels(t) == Cancel(t) /\ Continue("remove", t, 0)
ToolReschedules(t, d) == Reschedule(t, d) /\ Continue("remove", t, 0)

\* room_cleanup_stale, the part about the inbox.
ToolCleans == Continue("clean", NoSignal.task, 0) /\ UNCHANGED vars

\* queue_enqueue, queue_heartbeat, queue_status: the queue only.
ToolOnQueue ==
  /\ \/ \E t \in Tasks, p \in Params, d \in Delays : Enqueue(t, p, d)
     \/ \E r \in held, d \in LeaseSecs : Heartbeat(r, d)
     \/ Status
  /\ UNCHANGED server

ServerCalled ==
  /\ server.at = "idle"
  /\ \/ \E o \in Owners \ {Worker}, d \in LeaseSecs : ToolClaims(o, d)
     \/ \E r \in held, continue \in BOOLEAN, at \in StartTimes : ToolCommits(r, continue, at)
     \/ \E r \in held, retry \in BOOLEAN, after \in Delays : ToolFails(r, retry, after)
     \/ \E t \in Tasks : ToolCancels(t)
     \/ \E t \in Tasks, d \in Delays : ToolReschedules(t, d)
     \/ ToolCleans
     \/ ToolOnQueue
  /\ UNCHANGED <<inbox, woken, worker, cut, deaths>>

\* Fault: the entries of the task are marked at whatever revision.
UpdatedAnyRevision(s) ==
  IF s.job = "claim"
  THEN {IF e.signal.task = s.signal.task THEN [e EXCEPT !.claimed = TRUE] ELSE e : e \in s.read}
  ELSE {e \in s.read : e.signal.task # s.signal.task}

\* _brain_inbox_update
Updated(s) ==
  IF s.job = "claim"
  THEN {IF e.signal = s.signal THEN [e EXCEPT !.claimed = TRUE] ELSE e : e \in s.read}
  ELSE {e \in s.read : e.signal.task # s.signal.task}

\* What _brain_inbox_prune keeps: entries that wait or run as the queue says.
Current(e) ==
  LET k == task[e.signal.task] IN
    \/ ~e.claimed /\ k.status = "awaiting_brain" /\ k.revision = e.signal.revision
    \/ e.claimed /\ k.status = "running" /\ k.revision = e.signal.revision + 1

Closed(e) == task[e.signal.task].status \in Terminal

ServerFetches ==
  /\ server.at = "fetch"
  /\ server' = [server EXCEPT !.at = IF server.job \in {"prune", "clean"}
                                     THEN "check" ELSE "store",
                              !.read = inbox]
  /\ UNCHANGED <<vars, inbox, woken, worker, cut, deaths>>

\* Prune and clean look at the queue after they have read the inbox.  Clean
\* leaves the file alone when nothing is to go.
ServerChecks ==
  /\ server.at = "check"
  /\ LET kept == {e \in server.read : IF server.job = "prune" THEN Current(e) ELSE ~Closed(e)}
     IN server' = IF server.job = "clean" /\ kept = server.read
                  THEN Idle(server)
                  ELSE [server EXCEPT !.at = "store", !.read = kept]
  /\ UNCHANGED <<vars, inbox, woken, worker, cut, deaths>>

\* A claim is followed by a prune.
ServerStores ==
  /\ server.at = "store"
  /\ inbox' = IF server.job \in {"claim", "remove"} THEN Updated(server) ELSE server.read
  /\ server' = IF server.job = "claim"
               THEN [Idle(server) EXCEPT !.at = "fetch"]
               ELSE Idle(server)
  /\ UNCHANGED <<vars, woken, worker, cut, deaths>>

ServerDies ==
  /\ server.at # "idle"
  /\ deaths < MaxDeaths
  /\ deaths' = deaths + 1
  /\ server' = Idle(server)
  /\ UNCHANGED <<vars, inbox, woken, worker, cut>>

-----------------------------------------------------------------------------
\* Time passes, and model turns end, as in the queue.
Around ==
  /\ Tick \/ \E o \in Owners \ {Worker} : Crash(o)
  /\ UNCHANGED wakeVars

WakeInit ==
  /\ Init
  /\ inbox = {}
  /\ woken = {}
  /\ worker = [at |-> "start", due |-> {}, read |-> {}]
  /\ server = [at |-> "idle", job |-> "prune", signal |-> NoSignal, read |-> {}]
  /\ cut = {}
  /\ deaths = 0

WakeNext ==
  \/ WorkerStep \/ WorkerDies
  \/ ServerCalled \/ ServerFetches \/ ServerChecks \/ ServerStores \/ ServerDies
  \/ Around

\* The worker's loop never stops for good, and clocks run.  The model need not
\* call any tool.
WakeSpec == WakeInit /\ [][WakeNext]_allVars
FairWakeSpec == WakeSpec /\ WF_allVars(WorkerStep) /\ WF_allVars(Tick /\ UNCHANGED wakeVars)

-----------------------------------------------------------------------------
(* Properties *)

WakeTypeOK ==
  /\ inbox \subseteq Entries
  /\ woken \subseteq Signals
  /\ worker \in Workers
  /\ server \in Servers
  /\ cut \subseteq Signals
  /\ deaths \in 0..MaxDeaths

\* No entry is ever listed, or about to be written back, before the wake event
\* it names exists: whatever the two processes overwrite, the model never finds
\* a task in the inbox that nobody announced.
EntriesWereWoken ==
  \A e \in inbox \cup worker.read \cup server.read : e.signal \in woken

\* An entry is marked as claimed only when somebody has claimed the task at that
\* revision; a late update never marks the announcement of a later revision.
ClaimedEntriesAreSpent ==
  \A e \in inbox : e.claimed => task[e.signal.task].revision > e.signal.revision

\* Once the queue has marked a task as announced, its wake event is emitted,
\* whatever the server does meanwhile, unless the worker dies between the two.
AnnouncedAt(t, n) == task[t].status = "awaiting_brain" /\ task[t].revision = n
Signal(t, n) == [task |-> t, revision |-> n]
WokenUnlessCut ==
  \A t \in Tasks, n \in 1..MaxSignal :
    AnnouncedAt(t, n) ~> Signal(t, n) \in woken \cup cut

\* REVERSE_WAKE.md: delivery is at least once.  So an announced task is woken
\* also when the worker died and was restarted in between, or it is taken up or
\* moved by somebody without the wake.
WokenAfterRestart ==
  \A t \in Tasks, n \in 1..MaxSignal :
    AnnouncedAt(t, n) ~> Signal(t, n) \in woken \/ ~AnnouncedAt(t, n)

\* The brain_inbox tool reads the brain tasks that became due while no model
\* turn was active.  So when neither process is at work on it, the inbox lists
\* every task that waits for the model, if no process has died.
\* The code does not keep this one (README, Divergences).
AwaitingIsListed ==
  deaths = 0 /\ worker.at = "local" /\ server.at = "idle"
    => \A t \in Tasks : task[t].status = "awaiting_brain" => Listed(SignalOf(t), inbox)
=============================================================================
