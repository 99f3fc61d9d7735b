# Verification of the EIROS control plane

EIROS keeps long-running work of a ChatGPT conversation alive: a durable task
queue on a server, a worker that runs local tasks and announces tasks meant for
the model, and a channel of events that a widget mounted in the conversation
polls and turns into new model turns. Around that core stand a message hub for
several assistants, and services the assistants use: a file vault, audio
mastering, rented GPU rendering, remote operation of the host, a rental agent.
All of it is files and small databases changed by several short-lived processes,
clients that vanish, leases that run out, calls that die half way, and widgets
that take over from one another. This directory models that machinery in TLA+,
checks it with TLC on small instances and proves the central properties with
TLAPS for every instance.

## 1. Inventory

| part | state | operations | what is hard |
| --- | --- | --- | --- |
| task queue (`runtime/queue.py`, `runtime/maintenance.py`) | `queue.json`: tasks with status, revision, step, attempts, lease, start time | enqueue, claim, heartbeat, commit, fail, cancel, reschedule, mark_brain_due, status, maintenance | leases that run out under their holder, budgets, revisions that guard late answers, once-per-revision signals |
| worker (`runtime/worker.py`) | process; `brain-inbox.json` | drain_due: announce due brain tasks, run local ones | dies between two stores; unlocked inbox |
| Pulse channel (`runtime/events.py`, `runtime/pulse_anchor.html`) | `events.json`: events, a leader lease per channel | emit, poll, mark_delivered, acknowledge, reset_leader, maintenance | leader handover while claims run, late reports, redelivery, the size limit |
| collaboration hub (`runtime/collab.py`, `runtime/authenticated_collab.py`) | `collab.json`: agents with numbers and addresses, messages, claims, control switch | bootstrap, heartbeats, send, inbox (claim), ack, release, retire, control | claims not checked on ack, identities under many names, size limit |
| SAM supervisor (`runtime/sam.py`) | heartbeat, log | send a message and wake, re-ensure wakes every 5 s | two stores, keys of acknowledged events |
| MCP server (`runtime/server_v2.py`) | none of its own | tools around all engines | several stores per tool |
| SUM auto-wake (`runtime/sum_controller.py`) | one state machine with a wake id, attempts, timers | enable, tick, mark sent, ack, host signals, complete | check and act in two lock sections, two listeners |
| agent authentication (`runtime/agent_auth.py`) | principals with revocation epochs, tokens, used request ids | register, revoke, issue, verify | order of revoke and issue, slow verifications, the replay window |
| render jobs (`runtime/musetalk_jobs/`) | SQLite jobs; a remote worker that costs money | create, tick, cancel, idle stop | remote attempts that vanish, cancel racing tick, refusals that end the daemon |
| file vault (`runtime/file_vault/`) | object files and SQLite rows, shares | upload, import, delete, share, revoke | crash between file and row, the space reserve |
| mastering (`runtime/mastering.py`, `runtime/mastering_mcp_server.py`) | one metadata file per asset, audio files, share files | upload, analyze, render, prepare, share, revoke, delete | two processes write back what they read minutes ago |
| critical changes (`runtime/vps_operator/recovery.py`) | manifests, backups, a systemd timer per transaction | stage, write, verify and commit, roll back | the timer's process beside the server's, deaths between two files |
| connectors (`runtime/openai_control_plane.py`) | remote tunnels, profiles, units, daemons | create, provision, restart, remove | commands that fail or outlive their timeout |
| rental agent (`runtime/rental_agent/`) | SQLite leads, threads, jobs; one browser | search, ingest, refresh, draft; open, input, frame | deaths between transactions, late commands, merged listings |
| others | | | listed in PROJECT.json with the reason they are left out |

Who talks to whom: the worker calls queue and events; the server's tools call
all engines; SAM and the Claude server call hub and events; widgets call the
server; the services stand beside, each behind its own MCP server (mastering
behind two). Shared state is always a file or a database: the queue, the events,
the hub and SUM each under their own lock, SQLite for jobs, leads and the vault,
and no lock at all for the brain inbox, mastering's metadata, the manifests of
critical changes and systemd.

What makes each correct: the queue must give each task to one holder at a time,
count truly and lose no task; the channel must show an event to one widget at a
time, again and again until it is acknowledged and not afterwards; worker and
server together must announce every due brain task; hub and channel together
must wake the model for every unread message and keep every participant who it
is; authentication must accept once and never after a revocation; the services
must not list what is gone, serve what was deleted, leave undone what they
promised to undo, write to a contact twice, or let paid machines run idle.

## 2. Modules

| module | what it is |
| --- | --- |
| `WorkContract` | abstract specification: what a queue of budgeted work promises |
| `TaskQueue` | the queue, one action per command, shown to implement `WorkContract` |
| `PulseChannel` | the event store and its listeners |
| `BrainWake` | extends `TaskQueue` with the worker, the inbox and the server's tools |
| `SumController` | the SUM auto-wake controller, its listeners and the model's turn |
| `MessageHub` | messages and their wakes: hub, event store, two servers and SAM |
| `AgentDirectory` | who a caller becomes in the hub, and its number |
| `AgentAuth` | tokens, signed requests, revocation, replay |
| `RenderContract` | abstract specification: what a render service promises |
| `RenderJobs` | API, daemon and rented worker, shown to implement `RenderContract` |
| `FileVault` | staged uploads, objects, rows and shares |
| `MasteringStore` | metadata written back by two processes |
| `OperatorRecovery` | transactions with a timed rollback |
| `TunnelConnector` | provisioning and removing one connector |
| `RentalLeads` | listings, properties, threads, jobs and drafts |
| `RemoteBrowser` | the browser's thread, its queue, the app that shows frames |
| `MCTaskQueue`, `MCBrainWake`, `MCSumController`, `MCMessageHub`, `MCRenderJobs` | small instances for TLC |
| `MCWake`, `MCIdentity`, `MCFiles`, `MCHost`, `MCRental` | small instances of two modules each |
| `QueueProofs` | theorems about `TaskQueue` and `BrainWake` |
| `HubProofs` | theorems about `AgentDirectory`, `AgentAuth` and `MessageHub` |
| `RenderProofs` | theorems about `RenderJobs`, with the refinement of `RenderContract` |
| `FilesProofs` | theorems about `FileVault` and `MasteringStore` |
| `HostProofs` | theorems about `OperatorRecovery` and `TunnelConnector` |
| `RentalProofs` | theorems about `RentalLeads` and `RemoteBrowser` |
| `PulseChannelProofs`, `SumControllerProofs` | theorems about the module they name |

`MCWake`, `MCIdentity`, `MCFiles`, `MCHost` and `MCRental` put two components
side by side that share no state. A variable (`part` or `service`) is chosen at
the beginning and says which of the two runs while the other rests, so a run
explores the sum of their states and not the product. Nothing is lost by that: a
property of one mentions no variable of the other. In `MCWake` the announcing of
tasks emits events and never looks at them, and the channel takes events from
anybody; fairness is stated for the one that runs. In the same way `MCRental`
runs the leads with two different sets of listings, and `MCMessageHub` the hub
with two mixes of messages: a large instance of either would not be exhausted.

### TaskQueue

Every command runs in `locked_store`: it reads the store under a file lock,
changes it, replaces the file; one that raises writes nothing. So a command is
one atomic action and a refusal is no step. `task` is the mutable part of each
task, `cfg` what it was enqueued with, `order` the order of the list, `held` the
claim answers that clients still remember. A client presents a remembered answer
(a receipt) at any later time, also after its lease ran out or somebody else has
the task: that is how late, duplicated and reordered calls enter. `Crash`
forgets what a client held. `claims` counts the uuid4 tokens drawn for the task,
which stand for the tokens themselves; `faulted` is history.

Clocks are modelled by distances: `run_in` is `run_at - now()`, `lease.left` is
`expires_at - now()`, and `Tick` lowers both; `Horizon` bounds how long a task
is remembered to be overdue (only the order among overdue tasks depends on it).
A claim runs `expire_leases` over the whole store first (`AllReaped`), as do
`Status` and `Maintain`. Texts, histories and results are left out.

`release_brain_signal` (queue.py:477) is not modelled: nothing calls it. It
would put a task back without a new revision, which is just what `NeverMuted`
excludes.

### PulseChannel

`event` holds every event by sequence number, `leader` the lease of each
channel. `Poll` includes taking or renewing the leadership and claiming the
offered event; a poll of a widget that cannot lead changes nothing. `Emit`
includes the trim that `locked_store` applies on every save. `MarkDelivered`
asks only whether the event's last claim is the widget's, not whether it still
runs, so a widget may report at any later time; that, with several widgets and
leader handover, is where the interleavings are. Priorities, visibility delays
and addressees are those of `Kinds`.

### BrainWake

Adds the two processes that share `brain-inbox.json`. `worker` and `server`
hold where the process is and the copy of the file it has read: reading and
replacing the file are separate steps, queue commands and emits are atomic as
above. `woken` is the set of keys (task, revision) of emitted wake events, which
are idempotent per key. The server handles one call at a time (synchronous tools
of FastMCP over stdio). Either process may die at any step; a worker that starts
runs the maintenance pass. All tasks are brain tasks here: local ones do not
meet the inbox. The order in which due tasks are announced is left open.

The operator connector (`claude_operator_mcp_server.py`) exposes the same tools
from a process of its own; its calls on the inbox, beside the server's, are not
modelled.

### SumController

`ctl` is the stored record, and each method of the store a function of it
(`Switched`, `Ticked`, `AckedCurrent`, ...). An action is one section under the
lock: a command sent through `set_state` is the transport guard and then the
command, an exact acknowledgement is its check and then the acknowledgement, and
since two processes serve these tools anything may come in between. `phase` is
where each listener is in `pollSumController`: it asks, gets the record, posts
if the record says so, reports that it did. `chat` holds the posted messages the
model has not taken up, each with the wake it was posted for, which the code
does not know; `turn` is the model's side. A listener may give up anywhere, a
turn may break off anywhere. Deadlines are distances to the clock, `Unset` a
stored 0. `wanted` is history. Not kept: the log, colours, the revision and the
statistics, which nothing reads back; `max_cycles` and `max_runtime_seconds`,
which the code stores and never applies.

### MessageHub

Messages (`msg`) and the wakes that make the model read them (`wake`) are in two
stores. Each call of the hub is one locked section, each call of `events.py`
another; a tool that uses both, or reads first and acts later, takes several
steps (`call` says where the process is) and its process may die between them.
Messages are sent by the first server's tools and by SAM's `wake` command;
`dialog_ack` and the cleaning of the room acknowledge the wakes of what they
read before. SAM's supervisor looks for unread messages without a wake, compares
and emits under the message's own key; `emit` answers such a key with the event
it was used for, acknowledged or not, so SAM revives nothing. The server does
the same for an opened room under a fresh key (`replay`). `hushed` is history:
the messages of which the model acknowledged a wake itself (`ack_event`), without
acknowledging the message.

SAM and the opened room look through `peek` (`Peeked`): messages addressed to
the model itself, in the room (project eiros-hub, thread first-contact), not
claimed and not held back by the pause, and of these only the oldest `PeekLimit`
(50 in the code, `collab.py:925`; SAM asks for 100). SAM then skips silent ones
(`no_wake`, `visual_only`, `sam.py:351`), after they took their places among the
oldest. A kind of message says whether it goes to the room and whether it is
silent. Left out: other projects, each with a control switch of its own; tools
called with another project or thread than their defaults; and the limits of 500
on the events and the history that are read at once.

### AgentDirectory

Who a caller becomes (`Identity`: by name, platform and installation), the phone
number it is given (`Number`, `next`) and the addresses it is reached by
(`Holder`). Every call is one section. `contracts` remembers the
resume identities that clients were given, with which they come back later
beside rooms, heartbeats and the operator, who put records into the same store
under names and platforms of their own. `Suffixed` gives the names `id-2`,
`id-3`, ... tried when an id is taken; `SuffixesLast` says that they do not run
out, which the code's unbounded loop guarantees and an instance must bound.

### AgentAuth

A verification takes the time once, at its start, and goes on in steps: the
signature and the skew, burning the request id, looking at the registry. Several
run at the same time, and registrations, revocations and further requests come
between. Signatures are modelled by what they prove. `Window` is how long the
replay store remembers, `Skew` how old a stamp may be, `Stall` how long a
verification may take: `AuthAssumption` asks for `Window >= 2 * Skew + Stall`,
and with the code's 600 and 120 seconds a verification may take six minutes.

### RenderJobs, RenderContract

The daemon's pass over a job is look, talk to the worker, write: the transaction
names the state that was read, and the API may have cancelled the job meanwhile.
A refused transition (`InvalidTransition`) ends the daemon; systemd starts it
again and what it kept in memory is gone. The worker's volume keeps the evidence
of finished inferences; a cut off one leaves nothing. `RenderContract` says what
a client may rely on: one inference at a time for a job, done only with the
result of one that succeeded, a verdict is final.

### FileVault

The server is one event loop: an upload from the browser awaits each chunk and
lets others run, everything else runs to its end, or to the death of the
process. `section` is what runs between two awaits; moving the object, inserting
its row, deleting the row and removing the object are steps at which it may die.
Other programs take and free space of the same disk.

### MasteringStore

One asset, two processes ("main", "panel") whose calls read the metadata file,
work for seconds or minutes and write everything back. The copies they hold may
be stale when written; what is on disk (audio, derivatives, share files) is kept
apart from what the metadata lists.

### OperatorRecovery

A critical change is staged (backup, manifest, timer), written, verified and
committed, or rolled back. Each tool's steps are `op[p].do`; two servers and the
process that the elapsed timer starts, which goes by the name of its
transaction, work on the same files with no lock. A restore goes file by file.
`lost` and `late` are histories: guards that a reboot, a failed restore or a
death took away, and writes that had read the manifest before the rollback.

### TunnelConnector

Every call is a list of commands to `tunnel-client` and `systemctl` (`Plan`);
each may fail, and one that outlives its timeout (`GiveUp`) may work
nevertheless. Two servers offer the tools. `alone` and `left` are histories: no
other server's call ran beside this one; a removal left its daemon running.

### RentalLeads

A search or refresh is one transaction per listing, queueing contacts one per
thread, job and draft; the server may die between any two. `Items` is what a
source may say (a signature of the property, whether it fits, phone numbers);
a source may say something else when it comes back, and sources of different
properties may share a text, by which `upsert` merges what has no property of
its own signature. `altered` is history: the properties whose signature was
replaced by a known source that said something else or nothing before, or by a
new source that was merged by its text (`db.py:318`). It is kept by comparing
what was said, so a source that repeats itself alters nothing. `cut` remembers
the contacts at whose job the server died.

### RemoteBrowser

A tool puts a command on a queue and waits 45 s for the browser's thread. A
command that was given up stays on the queue and runs later. Pages go through
contents, some of which ask for a human (`Verifying`); the app shows the frames
it hears of and forgets the session when it closes it, whatever becomes of the
call. App and agent call the same tools. The flag `user_gesture` is a parameter
of the input: the app sets it on all it sends, and so does the agent's
`rental_browser_click` (`AgentActs` takes either value), so the flag is not
evidence of a person. Left out: pages opened by popups, and calls of the app
that overlap (it makes one after the other here; a late answer may then come
after its close).

## 3. Runs

| run | question | bounds |
| --- | --- | --- |
| `queue` | leases, revisions, budgets and signals under every order of commands; the refinement; reclaiming and announcing under fairness | 1 task of 3 kinds, 2 claimants of which one is the worker, leases 1-2, delays 0-1, revisions up to 6 |
| `wake` | is every announcement woken, what can the inbox say; exclusive claims, use of keys, the head of the channel is offered again | 1 task, 1 death of either process, revisions up to 2; beside it 1 channel, 2 listeners of 2 generations, 3 events in a store of 2 |
| `brain_lost` | (violated) is every announcement woken also after a restart? | the task of `wake` |
| `sum` | stopped stays stopped, releasable locks, one wake after another, no endless wait | 2 listeners, 2 wakes, 2 attempts, 1 message waiting, a listener of another generation |
| `render` | the contract, the idle stop, a verdict for every job | 2 jobs, 1 retry, grace 1, 1 death of the daemon |
| `hub` | unread messages that SAM watches are woken and nothing else quiets them, handled is final | 2 agents, 1 client, 1 shown by peek; the server, SAM's command and SAM's daemon, calls and orders, 2 of 3 messages kept, 1 death; or the server and SAM's daemon, 2 messages, silent ones and another thread among them |
| `identity` | once accepted, revoked stays out; everybody stays who they are | 2 verifications, 2 installations, 1 token, time to 4, window 3, skew 1, stall 1; beside it 2 names, 2 platforms, 2 installations with one short id and 1 that the hub draws, 3 contracts |
| `files` | listed is stored, causes of orphans, the reserve; deleted audio and dead links stay away | 2 uploads, disk 4 with reserve 1, 2 files, 1 death; beside it 2 renders and 2 links (3 of them together), 1 output kept, 1 link shown, 1 kill |
| `host` | staged changes are guarded, rollbacks complete; ready connectors are the ones asked for | 2 paths, 1 transaction, 2 servers, a reboot; beside it 1 tunnel, 2 urls |
| `commit_stands` | (violated) is a committed change safe from its timer? | as `host` |
| `rental` | where do two properties of one signature come from; contacts are written to once; input without the flag leaves verifications alone, frames are shown and pages closed | 3 sources, 4 listings of which two share a text and two a signature, 3 properties, 1 death; beside it 2 sources, 2 phones, 4 listings, 2 properties, 1 death; beside it 2 pages, 2 commands queued, 2 launches |
| `gesture_of_person` | (violated) is input on a verification page the person's? | as `rental` |

Bounds. Interference in the queue is per task (a command touches the task it
names and reaps the others one by one), so one task with two claimants shows
every race for a lease; selection among several tasks is not run by TLC, and the
proofs, which do not bound the set of tasks, cover the safety side of it. Leases
of one and two ticks are enough for "runs", "about to run out" and "run out"
against each other; budgets of 2 and 3 reach "first", "last" and "spent". In the
channel two generations of widgets give every handover and three events in a
store of two every trim; likewise three messages in a hub of two. One death is
enough to cut any step short. Two installations with one short id and one drawn
by the hub give every way to collide over a name. Two uploads on a disk of four
chunks reach the reserve in every order of chunks and checks; two renders, an
asset that lists one output, and an output that shows one of two links, reach
what the metadata no longer shows. Three sources are what it takes to merge one,
take the property for another, find it once more and come back. One place in
`peek` and two messages show one that waits behind another, silent or not, and
comes into view. In `host`, two servers and the timer's
process are all who can meet over one transaction. `CHECK_DEADLOCK FALSE` in
`host`, `rental` and `files`: the numbers that bound them (files, deaths,
transactions, launches) run out, and the system may then rest. Their tick-free
models have nothing else left to do.

### The properties

Queue. `OneLeaseholder`: a running task has the newest token and an owner, every
other task no lease. `HolderIsNeverStale`: the holder of the live token knows
the present revision, so `cmd_commit` never turns it away as stale.
`NeverMuted`: a queued brain task can still be signalled, an announced one is
announced at its present revision. `KeepsContract`: the refinement of
`WorkContract`. `OrphansReclaimed`, `DueIsAnnounced`: under fairness, leases of
vanished clients are taken back, tasks out of attempts are closed, due brain
tasks are announced or moved.

Channel. `OneUseOfAKey`: two events of one key are never both kept.
`ClaimsAreExclusive`: while a claim runs nobody else gets the event, through
leader handover and late reports. `NeverAbandoned`: the event at the head
of the channel that all listeners may see is offered again and again until
acknowledged. It is stated for the head because the code guarantees no more: an
event of lower priority waits as long as claims on those before it keep running
out.

Wake. `ClaimedEntriesAreSpent`: an entry is marked claimed only if that revision
was claimed. `WokenUnlessCut`: every announcement is woken unless the worker
died between marking and publishing.

SUM. `EnabledByOperator`: after a stop, a reset or a generation change no late
call turns the controller on, though a late acknowledgement does after a
timeout. `LockCanBeReleased`: a locked turn can be completed; otherwise no wake
would ever start again. `OneWakeAtATime`: a wake follows an acknowledged and
completed one, or the operator's arming. `WaitEnds`: what was sent is not waited
on for ever, unless the host reports activity for ever.

Render. `StopSparesOpenJobs`: the idle stop never cuts off the inference of a
job somebody waits for. `KeepsLifecycle`: the refinement of `RenderContract`, and
done only with the result. `IdleWorkerStops`: with no open job the paid worker
is stopped in the end. `EndsOrStrands`: every job comes to a verdict unless its
inference vanished, or it or one before it is stuck at a refused transition.

Hub. `WakeEndsWithMessage`: nothing but the model's own `ack_event` quiets an
unread message. `HandledIsFinal`: what was acknowledged never returns to a
mailbox. `UnreadIsWoken`: an unread message that `peek` shows to SAM, and that is
not silent, gets a wake or leaves that view, although its sender died before
emitting one. It claims nothing of messages behind the oldest `PeekLimit`, of
silent ones, of broadcasts and of other threads, which the code does not look
at (section 4); once the ones before it are handled it covers those behind them.

Identity. `AcceptedOnce`: a signed request yields one context, though the replay
store forgets. `RevokedStaysOut`: a revocation holds against what was issued or
under way before. `ActsAsItself`: whoever acts as a number is, for good, the one
principal bound to it. `ResumesAsItself`: who comes back with the platform and
installation of a contract is the same participant. `NumberReachesHolder`: a
number is never changed nor given twice.

Files. `ListedIsStored`, `OrphansHaveACause`: rows have objects; objects without
rows come from a death in the middle or from refused tags. `ReserveKept`: uploads
together never cross the reserve. `ServedAsListed`: an asset lists only audio it
has and deleted audio is not served, whatever the two processes write back.
`LinkEndsForGood`: a revoked link stays dead though the metadata forgets it.

Host. `WrittenIsGuarded`: a staged change has its timer armed or is being
undone. `RolledBackIsRestored`: rolled_back means that the files are back.
`ReadyRunsItsProfile`: a connector answered ready does not serve an older tunnel
or url. `DaemonHasUnit`: no daemon runs on where no later call would find it.

Rental. `TwinsHaveACause`: two properties have one signature only if one of them
got it from a known source that had said something else or nothing before, or
lost its own to a new source that was merged by its text. `OneDraftPerJob`: a
contact is written to at most once per job. `GestureForVerification`: an input
without the flag, whoever sent it, acts on a verification page only if the page
turned into one after the thread looked, however late it runs and whatever was
opened, closed or captured before. Who sets the flag is not its matter; that is
`OnlyThePersonVerifies`, which the code violates. `ShownOrMissed`: the
app shows the newest frame it has heard of, and no page is left open without a
session.

Each of these is broken by at least one plausible slip in the code; the slips
are the `mutants` of PROJECT.json, and the definitions headed "Fault" in the
modules.

### What the violated runs show

* `brain_lost`: a worker that dies between `mark_brain_due` and
  `publish_brain_due` leaves a task that waits for a model nobody wakes, also
  after the restart.
* `commit_stands`: `commit` stops the timer's unit, not the process that the
  elapsed timer has started: that one restores the files and writes rolled_back
  over committed.
* `gesture_of_person`: `server.py:268` and the design of 2026-08-08 want input
  during a verification to originate from the person at the app. The code asks
  for the flag only, and the agent's `rental_browser_click` sets it
  (`service.py:133`), as any caller of `rental_browser_input` may
  (`server.py:282`): the agent opens a page that asks for a human, and its click
  acts on it.

## 4. Divergences

Where the code does not do what its documents say, beside the three runs above.
Those with a formula are in the modules and belong to no run: TLC finds each
violated when the formula is added to the configuration named.

* Failed without a fault (`TaskQueue!FailureHasAFault`, `MCQueue`).
  `PROTOCOL.md:53` gives repeated failure and spent steps as the reasons to
  stop. Attempts are counted by claims (`queue.py:313`) and never reset by a
  commit, so a task whose every step succeeded is closed as failed
  (`queue.py:180`): with the defaults (12 steps, 3 attempts) after its third
  step.
* Dropped events (`PulseChannel!KeptUntilAcked`, `MCWake`).
  `docs/ARCHITECTURE.md:35` promises durable, at-least-once delivery;
  `locked_store` keeps the newest events whatever their status
  (`events.py:59`). The hub does the same to unread messages (`collab.py:100`).
* A lost inbox entry (`BrainWake!AwaitingIsListed`, `MCWake`). The inbox is
  rewritten without a lock (`server_v2.py:571`, `worker.py:118`), so an entry can
  be lost without any failure. The wake event itself is not.
* Credit to the wrong wake (`SumController!AckProvesDelivery`, `MCSum`). The
  design calls the acknowledgement the authoritative delivery proof;
  `ack_current` acknowledges the pending wake whatever message the model answers
  (`sum_controller.py:471`). In the same module `max_cycles` and
  `max_runtime_seconds` are stored and never compared (`:44`), and
  `complete_current_turn` unlocks the turn as it starts the debounce, so activity
  does not prolong it (`:547`).
* A decision nobody allows (`RenderJobs!DecisionsAreLegal`, `MCRender`). After a
  restart `tick` asks for STAGING to COLLECTING (`reconciler.py:55`), which
  `_ALLOWED` lacks (`store.py:18`): the daemon dies again and again at this job,
  later jobs wait and the worker is not stopped. The design says that evidence
  decides whether to resume, collect, retry or fail. Beside it, a RUNNING job
  whose attempt is missing stays RUNNING (`reconciler.py:78`).
* Deleted, and listed again (`MasteringStore!DeletedStaysDeleted`, `MCFiles`).
  The other process writes back the metadata it read before
  (`mastering.py:88`). Nothing of it is served (`ServedAsListed`).
* Refused although it fits (`FileVault!AcceptsWhatFits`, `MCFiles`).
  `store_stream` checks the size again when the bytes are already on the disk
  (`store.py:346`), so a tool's upload is refused unless twice its size fits.
* Connectors. Two servers that provision one alias at once may answer ready for
  the older profile; `daemon_remove` does not look at the outcome of
  `disable --now` (`openai_control_plane.py:744`); a command that timed out may
  have worked (`:102`); creating with force overwrites protected profiles. The
  design (section 9) has every mutating action audited; starting, stopping and
  restarting a daemon and failed creations are not.
* Critical changes. A write that read the manifest before a rollback comes
  after it; two transactions on one path restore over each other; a reboot
  loses the transient timers.
* Rental. A property that qualifies later is never mentioned to a contact whose
  job exists; a search stays "running" after a death (`db.py:409`); a contact
  whose server died between job and draft never gets a draft.
  `rental_browser_click` is described as clicking only on a detected
  verification page (`server.py:233`); it clicks whatever is shown
  (`service.py:126`). A merge by text overwrites the signature of the property
  (`db.py:318`), so the next new source with the old signature makes a second
  property, and the first source, coming back unchanged, twins of the two; the
  design (5.4) and `test_db_v2.py:33` expect sources of one signature to merge.
* Unread, and not woken. `server_v2.py:400` says "Ensure every unhandled ChatGPT
  message has a live wake event"; it and SAM look at the 50 oldest messages of
  one thread (`collab.py:925`). SAM's silent ones count among these, so 50 of
  them that nobody reads hide all later ones. Messages to everybody and those in
  other threads have only the wake of their sender.
* Directory. `hub_register` for other agents draws a new installation at every
  call, though marked idempotent; the placeholder installation of a room takes
  an id that the real client then does not get; a changed platform moves a
  participant's address; a heartbeat under an alias puts down a record that
  captures the alias (`collab.py:618`, `:656`); the operator is announced under
  two profiles, listed (`collab.py:1315`) and not (`server_v2.py:2119`).
* Worker. `finish_local` raises when the lease ran out during a long action
  (`worker.py:155`), which ends the worker; the action is done again.

## 5. Fairness

* Queue and wake: `WF` of `Tick` and of the worker's two polls or steps. The
  worker's loop makes a pass at least every five seconds (`next_timeout`) and
  systemd restarts it (`deploy/eiros-worker.service`); no client, model turn or
  operator has to act.
* Channel: `WF` of `Tick` and, per channel, of some listener's poll: `poll` in
  `pulse_anchor.html` re-arms its timer on every path. No fairness for emits,
  reports or acknowledgements.
* SUM: `WF` of `TimePasses` and of each listener's steps (`poll` calls
  `pollSumController` on every round), and `SF` of a tick that reports the
  listener well, since a listener that is never well is told to do nothing; none
  for the model, the operator or the host.
* Hub: `WF` of SAM's start and steps and of `Tick`. The supervisor's loop runs
  its cycle every five seconds whatever the cycle raises, and systemd restarts
  it. Nobody has to read, open the room or send again.
* Render: `WF` of the daemon's steps (its loop, and systemd) and of an attempt's
  end, `SF` of a stop that succeeds and of a look that sees a finished
  inference: the rented worker is reached again and again. Neither copying nor
  launching has to succeed, which is what the retries are for.

## 6. Proofs

Eight modules. Every safety property that a run checks, invariant or action
property, is a theorem here, for all values of the constants, and so are both
refinements and the types of every module but the directory. A theorem of the form
`Spec => []Inv` rests on an inductive invariant that is stronger than `Inv`.
Beside the assumptions named below, which the modules declare and TLC evaluates,
nothing is assumed. The results by name are in PROJECT.json.

### Queue and wake (`QueueProofs`)

From `QueueAssumption` (owners, budgets of at least one step and attempt,
positive leases). The inductive invariant of the queue, `IInv`, is `TypeOK`, one
part per task and one per receipt. The invariants of the runs are not inductive
by themselves: that a holder is never stale needs that a remembered token never
exceeds the number drawn, that a waiting task is never muted needs that no
revision is signalled before it exists, and both need that an id not in use was
never claimed. Each command transforms a task by one operator (`Reaped`,
`Claimed`, `Committed`, ...), each operator has a lemma, and a step lemma names
the operators it applies. Every step also satisfies `Moves`, from which follow
`TerminalIsFinal` and the refinement of `WorkContract`. Two invariants that no
run repeats, `StepsWithinClaims` and `StepBudgetLeft`, are proved here.

`BrainWake` does to the queue what `TaskQueue` does, so its proof uses `IInv`
again. The inbox is written back from copies, so the strengthening is about the
copies too: every entry in the file, and in what the worker and the server hold,
has its wake event and is marked claimed only if that revision is spent
(`Sound`), and what the server is about to mark is spent (`ServerSound`).

### Channel (`PulseChannelProofs`)

From `PulseAssumption`. The strengthening says that an acknowledged event has no
claimant (so no late report can touch it) and that numbers not yet given out are
unused. One lemma per transformation of an event. `AckIsFinal` is proved here
beside the properties of the run.

### SUM (`SumControllerProofs`)

From `SumAssumption`. The strengthening (`RecordInv`) relates the fields of the
record: which states are enabled, that in a turn the current wake is the
acknowledged one, that `ACK_TIMEOUT` marks exactly the state from which a late
acknowledgement may return, and that a message is only asked for while attempts
are left. One lemma per method; a step that applies a method and keeps the wake
is covered by `MethodStep`.

### Hub and identity (`HubProofs`)

Directory, from `DirectoryAssumption` (ids that the hub draws are nobody
else's). The theorems have the form `Spec /\ []SuffixesLast => []P`: the code's
search for a free suffix never fails, and an instance with finitely many names
states that. `NumbersInv` (a number has one holder), `AddressesInv` (an address
too) and `Kept` (a contract's holder is unchanged) are inductive together only.

Authentication, from `AuthAssumption`, whose one demand on the numbers is that
the replay window covers twice the skew and the slowest verification. That a
request is accepted at most once needs two facts about what lies between the
steps of a verification: a request that was burnt is in the replay store with a
time at which its stamp passed, or is too old for every verification under way
(`UsedUp`), and of several callers that hold one request at most one has burnt
it (`ReplayInv`). A caller's `now` lags the clock by at most `Stall`
(`UnderWay`), which is where the assumption enters. That a revoked principal
stays out needs that no token carries the epoch of a revoked one (`TokensInv`,
`RegistryInv`).

Messages, from `HubAssumption`. A call that silences wakes acts on a list it
drew up in an earlier step, so the invariant says that everything on such a list
was handled and stays so (`SilencesInv`). That in turn needs that an
acknowledged message holds no claim (`ClaimsInv`), or a release would bring it
back, and that nothing is known of a number before it is given (`NumberedInv`).

### Rendering (`RenderProofs`)

From `RenderAssumption`. The daemon decides, talks to the worker and writes in
separate steps. `PlanInv` says what is still true of its plan when it writes: a
job it holds to be done has its result, one it sends back has no attempt, and
the job is as it was read or has ended since (`BusyInv`). `StoppingInv` carries
the idle stop: whatever came in after the daemon read the table is only queued,
and by `AttemptInv` nothing was launched for it. The refinement is proved action
by action (`RenderImplementsContract`).

### Files (`FilesProofs`)

Vault, from `VaultAssumption`. `RowsInv` says that rows have numbers and objects;
`SectionInv` that the file a call has moved, or is deleting, is on the disk and
not listed.

Mastering, from `MasteringAssumption`. Links have an invariant of their own:
tokens are given once, so what is revoked leads nowhere again (`LinksInv`).
`ServedAsListed` is about the metadata on disk, but any copy that a process read
earlier may become that metadata, so `StoreInv` speaks of every copy. Its parts:
lists hold numbered outputs, each once (`NumberInv`); an output being rendered is
on nobody's record (`RenderInv`); no copy of the other process has a derivative
on record that the panel has not, as only the panel puts them there, so the files
the panel deletes are all that any copy could lead to (`RecordInv`, `PanelInv`);
no copy leads to the audio of a deleted output (`DeletedInv`), which is what makes
a stale write harmless. Lemmas about sequences (`NewestOf`, `AppendOf`,
`WithoutOf`) say what trimming, appending and removing keep, also that an entry
removed from a list without duplicates is gone.

### Host (`HostProofs`)

Recovery. A transaction that is being staged is one process's alone (`Staged`),
and what was staged has a copy of each of its paths (`Backed`). `Midway` says, of
each process in the middle of a restore, that the paths it has done are as they
were, which is what `rolled_back` rests on. `Guarded` relates a staged
transaction to its timer and to the process that the timer started.

Connector, from `TunnelAssumption`. A call is a list of commands still to do, so
the invariant goes by that list (`Standing`): after `init` the profile is the
call's own, after the restart the daemon serves it or nothing. It claims this
only of a call beside which no other ran (`alone`); `AloneInv` says that beside
such a call the other servers have nothing left to do. `HostOK` ties the daemon
to its unit.

### Rental (`RentalProofs`)

Leads, from `LeadsAssumption`. `TwinsHaveACause` is inductive together
with `SaidInv`: as long as a property is not altered its signature is what each
of its sources that gave one said last, so a source that repeats itself changes
nothing. `OpInv` says what the call at work has found out
and entered: a contact's group of properties is in its thread before the job, and
its job is there before the draft.

Browser, from `BrowserAssumption`. A command that was given up stays queued, so
`QueueInv` says of every queued command that it knows of no frame that its
session has not had; `CommandInv` adds that an input is about the session's page,
which the thread has looked at before. `NewestInv` says that the app, while it
looks at the session, has the newest frame or another capture had it first
(`missed`). The app may leave the session while its command waits, so what an
answer does to the view rests on `AwaitInv`: at most one command is awaited, the
last of the queue or the one in hand, and one of the app's is still about the
session it looks at. `PagesInv` and `SessionInv` keep pages and sessions numbered.

### Not proved

Liveness stays with TLC: `OrphansReclaimed`, `DueIsAnnounced`, `NeverAbandoned`,
`WokenUnlessCut`, `WaitEnds`, `IdleWorkerStops`, `EndsOrStrands`, `UnreadIsWoken`.
The prover has no rule for fairness (`ENABLED`), and these hold only under the
fairness of section 5. The formulas of section 4 are false of the code and
neither checked nor proved. Nothing is claimed about recursive data.

## 7. Not modelled

Each with its reason in `components` of PROJECT.json. In short: signal
processing, scraping and ranking (numeric and textual work without protocol),
rendering and browser code, terminals and desktop (state of the operating
system), telemetry, the watchdog and pairing (reports that people read, no
protocol depends on them), the root broker (one request, one answer, no state),
configuration and installation scripts. Within modelled parts: presence, calls
and the timeline of the hub; `release_brain_signal`, which nothing calls; the
operator connector's calls on the inbox; the unlocked read in
`mark_served` of the telemetry.

## 8. What would come next

1. Presence and calls in `AgentDirectory`.
2. Abstract specifications for more components, with the refinements proved: a
   wake cycle (asked, in a turn, at rest) that `SumController` implements, and a
   mailbox (unread, read, gone) that `MessageHub` implements.
3. `KeptUntilAcked` and its like with the exceptions the code makes, as theorems:
   what exactly may drop an event or a message.
4. The queue with two tasks and the wake with three processes on the inbox, if
   symmetry brings them within reach of TLC.
