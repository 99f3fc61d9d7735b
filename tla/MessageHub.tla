----------------------------- MODULE MessageHub ------------------------------
(* The message store of the collaboration hub (runtime/collab.py) and the     *)
(* wakes that make the model read it: the tools of the two MCP servers        *)
(* (runtime/server_v2.py, runtime/claude_server.py) and the SAM supervisor    *)
(* (runtime/sam.py).                                                          *)
(*                                                                            *)
(* Each call of the hub is one read-change-replace of its store under a file  *)
(* lock, each call of runtime/events.py one of the event store.  A tool that  *)
(* uses both stores, or looks first and acts later, takes several steps, and  *)
(* its process may die in between.  A process answers one call at a time.     *)
(* Events are those of PulseChannel, reduced to whether a message has a live  *)
(* one.  Times are kept relative to now(): 0 is "run out".                    *)
(*                                                                            *)
(* A message goes to the room (project eiros-hub, thread first-contact) or to *)
(* another thread of that project: SAM and the cleaning of the room look at   *)
(* the room only.  The tools that take a project and a thread are called with *)
(* their defaults, dialog_inbox also without.  Other projects, which have a   *)
(* control switch of their own, are left out, and so are the limits of 500 on *)
(* the history and the events that are read at once.                          *)
EXTENDS Integers, FiniteSets

CONSTANTS Agents,       \* bootstrapped participants
          Woken,        \* TO_AGENT: the one that is woken through Pulse
          Rico,         \* the operator, who reads the room itself
          Everyone,     \* the broadcast address
          Servers,      \* "server" of server_v2.py, "claude_server", "cli" of sam.py
          Clients,      \* sessions that claim messages
          NoClient,     \* no claim
          AgentOf,      \* the agent a client claims for
          Kinds,        \* what may be sent
          NoKey,        \* a message without idempotency key
          ControlKind,  \* the record that set_control appends
          ClaimSecs,    \* claim_seconds
          Limits,       \* how many messages inbox may claim at once
          PeekLimit,    \* how many messages peek shows, of any limit asked for
          MaxMessages,  \* MAX_MESSAGES: the store keeps the newest ones
          MaxSeq,       \* bound: messages are numbered up to this
          MaxDeaths     \* bound: how often a process dies

\* urgent: sent by Rico, or of kind control or operator; room: sent to the
\* room; silent: marked no_wake or visual_only.
Keys == {k.key : k \in Kinds} \cup {NoKey}
KindRecords == [to : Agents \cup {Rico, Everyone}, urgent : BOOLEAN, key : Keys,
                room : BOOLEAN, silent : BOOLEAN]

ASSUME HubAssumption ==
  /\ "server" \in Servers /\ Servers \subseteq {"server", "claude_server", "cli"}
  /\ Woken \in Agents
  /\ Rico \notin Agents /\ Everyone \notin Agents \cup {Rico}
  /\ NoClient \notin Clients
  /\ AgentOf \in [Clients -> Agents]
  /\ Kinds \cup {ControlKind} \subseteq KindRecords
  /\ ControlKind.key = NoKey
  /\ ClaimSecs \subseteq Nat \ {0} /\ Limits \subseteq Nat \ {0}
  /\ PeekLimit \in Nat \ {0}
  /\ MaxMessages \in Nat \ {0} /\ MaxSeq \in Nat /\ MaxDeaths \in Nat

VARIABLES
  msg,       \* every message by its number, also those not yet or no longer stored
  next_seq,
  running,   \* the control mode of the project: running, or paused and stopped
  wake,      \* the wake events of each message
  call,      \* what each process still has to do
  hushed,    \* history: messages a wake of which the model acknowledged itself
  deaths

vars == <<msg, next_seq, running, wake, call, hushed, deaths>>

Seqs == 1 .. MaxSeq
Unread == {"pending", "claimed"}

Messages == [kind : Kinds \cup {ControlKind},
             status : {"none", "dropped", "acked"} \cup Unread,
             claimant : Clients \cup {NoClient}, left : Nat]

\* The event with the message's own key, and those with a fresh one.
Wakes == [keyed : {"none", "live", "acked"}, replay : {"none", "live", "acked"}]

\* The MCP servers, SAM's wake command and its supervisor.
Processes == Servers \cup {"sam"}

\* "notify" and "unlink" follow a message into the event store, "clean" and
\* "sweep" are room_cleanup_stale, "look", "compare" and "ensure" look for
\* unread messages without a wake.
Calls == [at : {"idle", "notify", "unlink", "clean", "sweep", "look", "compare", "ensure"},
          about : SUBSET Seqs, opening : BOOLEAN]
Idle == [at |-> "idle", about |-> {}, opening |-> FALSE]

Stored(s) == msg[s].status \in Unread \cup {"acked"}
IsUnread(s) == msg[s].status \in Unread
Awake(s) == wake[s].keyed = "live" \/ wake[s].replay = "live"

At(p, place, about) == [call EXCEPT ![p] = [@ EXCEPT !.at = place, !.about = about]]

-----------------------------------------------------------------------------
(* The hub: send_message *)

\* The store keeps its newest messages, whatever became of the others.
Trimmed(m) == [m EXCEPT !.status = IF @ = "none" THEN @ ELSE "dropped",
                        !.claimant = NoClient, !.left = 0]

AppendMessage(m) ==
  /\ next_seq \in Seqs
  /\ msg' = [s \in Seqs |-> IF s = next_seq THEN m
                            ELSE IF s + MaxMessages <= next_seq THEN Trimmed(msg[s])
                            ELSE msg[s]]
  /\ next_seq' = next_seq + 1

Sent(k, status) == [kind |-> k, status |-> status, claimant |-> NoClient, left |-> 0]

\* A key that was used answers with the message it was used for.
Duplicates(k) == {s \in Seqs : Stored(s) /\ k.key # NoKey /\ msg[s].kind.key = k.key}

\* dialog_send, contact_call, mail_send, operator_send, operator_call_contact
\* and SAM's wake.  What is sent to Rico is read at once.
Send(p, k) ==
  /\ call[p].at = "idle"
  /\ IF Duplicates(k) = {}
     THEN /\ AppendMessage(Sent(k, IF k.to = Rico THEN "acked" ELSE "pending"))
          /\ call' = IF k.to = Woken THEN At(p, "notify", {next_seq}) ELSE call
     ELSE /\ call' = IF k.to = Woken THEN At(p, "notify", Duplicates(k)) ELSE call
          /\ UNCHANGED <<msg, next_seq>>
  /\ UNCHANGED <<running, wake, hushed, deaths>>

\* set_control.
SetControl(on) ==
  /\ running' = on
  /\ AppendMessage(Sent(ControlKind, "acked"))
  /\ UNCHANGED <<wake, call, hushed, deaths>>

-----------------------------------------------------------------------------
(* The hub: inbox, acknowledge, release *)

Deliverable(s) == running \/ msg[s].kind.urgent

Oldest(S, n) == {s \in S : Cardinality({u \in S : u < s}) < n}

\* What peek may show an agent: broadcasts are not among it.
Available(a, s) ==
  /\ IsUnread(s) /\ msg[s].left = 0
  /\ Deliverable(s)
  /\ msg[s].kind.to = a

Claimable(c, s) ==
  /\ IsUnread(s) /\ msg[s].left = 0
  /\ Deliverable(s)
  /\ msg[s].kind.to \in {AgentOf[c], Everyone}

\* The oldest ones up to the limit, of the room, of elsewhere or of both.
Inbox(c, places, limit, d) ==
  LET taken == Oldest({s \in Seqs : Claimable(c, s) /\ msg[s].kind.room \in places}, limit)
  IN /\ taken # {}
     /\ msg' = [s \in Seqs |->
          IF s \in taken
          THEN [msg[s] EXCEPT !.status = "claimed", !.claimant = c, !.left = d]
          ELSE msg[s]]
     /\ UNCHANGED <<next_seq, running, wake, call, hushed, deaths>>

\* Fault: the claim stays on the message.
AckedWithClaim(m) == [m EXCEPT !.status = "acked", !.left = 0]

Acked(m) == [m EXCEPT !.status = "acked", !.claimant = NoClient, !.left = 0]

\* dialog_ack asks for the recipient, not for the claim.  Only the first server
\* goes on to the wakes.
Ack(p, a, s) ==
  /\ call[p].at = "idle"
  /\ Stored(s)
  /\ msg[s].kind.to \in {a, Everyone}
  /\ msg' = [msg EXCEPT ![s] = Acked(@)]
  /\ call' = IF p = "server" THEN At(p, "unlink", {s}) ELSE call
  /\ UNCHANGED <<next_seq, running, wake, hushed, deaths>>

Pending(m) == [m EXCEPT !.status = "pending", !.claimant = NoClient, !.left = 0]

ClaimedFor(a, s) == msg[s].claimant \in Clients /\ AgentOf[msg[s].claimant] = a

\* dialog_release asks for the agent of the claim, not for the client.
Release(a, s) ==
  /\ Stored(s)
  /\ ClaimedFor(a, s)
  /\ msg' = [msg EXCEPT ![s] = Pending(@)]
  /\ UNCHANGED <<next_seq, running, wake, call, hushed, deaths>>

-----------------------------------------------------------------------------
(* The wakes *)

Live(state) == IF state = "none" THEN "live" ELSE state
Ended(state) == IF state = "live" THEN "acked" ELSE state

\* emit answers with the event of the same key, acknowledged or not.
Emitted(s) == [wake EXCEPT ![s].keyed = Live(@)]

Quieted(about) == [s \in Seqs |->
  IF s \in about
  THEN [keyed |-> Ended(wake[s].keyed), replay |-> Ended(wake[s].replay)]
  ELSE wake[s]]

\* _notify_chatgpt_message, and _message_event after SAM's own message.
Notify(p) ==
  /\ call[p].at = "notify"
  /\ \E s \in call[p].about : wake' = Emitted(s)
  /\ call' = [call EXCEPT ![p] = Idle]
  /\ UNCHANGED <<msg, next_seq, running, hushed, deaths>>

\* _ack_linked_pulse_events.
Unlink(p) ==
  /\ call[p].at = "unlink"
  /\ wake' = Quieted(call[p].about)
  /\ call' = [call EXCEPT ![p] = Idle]
  /\ UNCHANGED <<msg, next_seq, running, hushed, deaths>>

\* ack_event, called by the model for a wake it was shown.
AckEvent(s) ==
  /\ Awake(s)
  /\ \/ wake[s].keyed = "live" /\ wake' = [wake EXCEPT ![s].keyed = "acked"]
     \/ wake[s].replay = "live" /\ wake' = [wake EXCEPT ![s].replay = "acked"]
  /\ hushed' = hushed \cup {s}
  /\ UNCHANGED <<msg, next_seq, running, call, deaths>>

-----------------------------------------------------------------------------
(* open_collab_room and room_cleanup_stale *)

\* retire_agent_sessions gives up every claim of the agent.
OpenRoom ==
  /\ call["server"].at = "idle"
  /\ msg' = [s \in Seqs |-> IF IsUnread(s) /\ ClaimedFor(Woken, s)
                            THEN Pending(msg[s]) ELSE msg[s]]
  /\ call' = [call EXCEPT !["server"] = [at |-> "clean", about |-> {}, opening |-> TRUE]]
  /\ UNCHANGED <<next_seq, running, wake, hushed, deaths>>

CleanRoom ==
  /\ call["server"].at = "idle"
  /\ call' = At("server", "clean", {})
  /\ UNCHANGED <<msg, next_seq, running, wake, hushed, deaths>>

\* Fault: what the history does not list as unread is taken for handled.
CleanReadsUnread ==
  /\ call["server"].at = "clean"
  /\ call' = At("server", "sweep",
                {s \in Seqs : msg[s].kind.room /\ ~ (IsUnread(s) /\ msg[s].left = 0)})
  /\ UNCHANGED <<msg, next_seq, running, wake, hushed, deaths>>

\* cleanup_room_state keeps unread messages (preserve_pending_messages), then
\* the history of the room is read.
CleanReads ==
  /\ call["server"].at = "clean"
  /\ call' = At("server", "sweep",
                {s \in Seqs : msg[s].kind.room /\ msg[s].status = "acked"})
  /\ UNCHANGED <<msg, next_seq, running, wake, hushed, deaths>>

\* The wakes of the messages that were acknowledged then.  Acknowledging twice
\* changes nothing, so the loop over them is one step.
CleanSweeps ==
  /\ call["server"].at = "sweep"
  /\ wake' = Quieted(call["server"].about)
  /\ call' = IF call["server"].opening THEN At("server", "look", {})
             ELSE [call EXCEPT !["server"] = Idle]
  /\ UNCHANGED <<msg, next_seq, running, hushed, deaths>>

-----------------------------------------------------------------------------
(* _ensure_pending_message_wakes (SAM, with the message's key) and            *)
(* _ensure_pending_chatgpt_wakes (the server, with a fresh one)               *)

SamStarts ==
  /\ call["sam"].at = "idle"
  /\ call' = At("sam", "look", {})
  /\ UNCHANGED <<msg, next_seq, running, wake, hushed, deaths>>

\* The oldest unread messages of the room.
Peeked == Oldest({s \in Seqs : Available(Woken, s) /\ msg[s].kind.room}, PeekLimit)

\* Fault: a claim that ran out is not seen.
LooksAtPending(p) ==
  /\ call[p].at = "look"
  /\ call' = At(p, "compare", {s \in Peeked : msg[s].status = "pending"})
  /\ UNCHANGED <<msg, next_seq, running, wake, hushed, deaths>>

\* peek.
Looks(p) ==
  /\ call[p].at = "look"
  /\ call' = At(p, "compare", Peeked)
  /\ UNCHANGED <<msg, next_seq, running, wake, hushed, deaths>>

\* SAM passes over silent messages, after they counted among the oldest ones.
PassedOver(p, s) == Awake(s) \/ (p = "sam" /\ msg[s].kind.silent)

Compares(p) ==
  /\ call[p].at = "compare"
  /\ call' = At(p, "ensure", {s \in call[p].about : ~ PassedOver(p, s)})
  /\ UNCHANGED <<msg, next_seq, running, wake, hushed, deaths>>

Ensures(p) ==
  /\ call[p].at = "ensure"
  /\ \/ /\ call[p].about = {}
        /\ call' = [call EXCEPT ![p] = Idle]
        /\ UNCHANGED wake
     \/ \E s \in call[p].about :
          /\ wake' = IF p = "sam" THEN Emitted(s)
                     ELSE [wake EXCEPT ![s].replay = "live"]
          /\ call' = At(p, "ensure", call[p].about \ {s})
  /\ UNCHANGED <<msg, next_seq, running, hushed, deaths>>

-----------------------------------------------------------------------------
Tick ==
  /\ \E s \in Seqs : msg[s].left > 0
  /\ msg' = [s \in Seqs |-> [msg[s] EXCEPT !.left = IF @ > 0 THEN @ - 1 ELSE 0]]
  /\ UNCHANGED <<next_seq, running, wake, call, hushed, deaths>>

\* A process dies in the middle of a call and is started again.
Die(p) ==
  /\ deaths < MaxDeaths
  /\ call[p].at # "idle"
  /\ call' = [call EXCEPT ![p] = Idle]
  /\ deaths' = deaths + 1
  /\ UNCHANGED <<msg, next_seq, running, wake, hushed>>

NoMessage == [kind |-> ControlKind, status |-> "none", claimant |-> NoClient, left |-> 0]

Init ==
  /\ msg = [s \in Seqs |-> NoMessage]
  /\ next_seq = 1
  /\ running = TRUE
  /\ wake = [s \in Seqs |-> [keyed |-> "none", replay |-> "none"]]
  /\ call = [p \in Processes |-> Idle]
  /\ hushed = {}
  /\ deaths = 0

ServerTool(p) ==
  \/ \E k \in Kinds : Send(p, k)
  \/ p # "cli" /\ \E a \in Agents, s \in Seqs : Ack(p, a, s)

HubTool ==
  \/ \E c \in Clients, places \in {BOOLEAN, {TRUE}, {FALSE}}, limit \in Limits, d \in ClaimSecs :
       Inbox(c, places, limit, d)
  \/ \E a \in Agents, s \in Seqs : Release(a, s)
  \/ \E on \in BOOLEAN : SetControl(on)
  \/ \E s \in Seqs : AckEvent(s)

Room == OpenRoom \/ CleanRoom \/ CleanReads \/ CleanSweeps

Goes(p) == Notify(p) \/ Unlink(p) \/ Looks(p) \/ Compares(p) \/ Ensures(p)

Next ==
  \/ \E p \in Servers : ServerTool(p)
  \/ HubTool
  \/ Room
  \/ SamStarts
  \/ \E p \in Processes : Goes(p) \/ Die(p)
  \/ Tick

Spec == Init /\ [][Next]_vars

\* SAM's daemon runs its cycle every few seconds whatever happens, and time
\* passes.  Nobody has to read, open the room or send again.
FairSpec == Spec /\ WF_vars(SamStarts) /\ WF_vars(Goes("sam")) /\ WF_vars(Tick)

-----------------------------------------------------------------------------
(* Properties *)

\* Types.
TypeOK ==
  /\ msg \in [Seqs -> Messages]
  /\ next_seq \in 1 .. MaxSeq + 1
  /\ running \in BOOLEAN
  /\ wake \in [Seqs -> Wakes]
  /\ call \in [Processes -> Calls]
  /\ hushed \subseteq Seqs
  /\ deaths \in 0 .. MaxDeaths

\* What was acknowledged is never handed out, released or retired into the
\* mailbox again, by whichever session and whatever claims it had once.
HandledIsFinal ==
  [][\A s \in Seqs : msg[s].status = "acked" => msg'[s].status \in {"acked", "dropped"}]_vars

\* Nothing but the model's own ack_event silences an unread message: the wakes
\* that dialog_ack and the cleaning of the room acknowledge, from what they read
\* before, belong to messages that are acknowledged.
WakeEndsWithMessage ==
  \A s \in Seqs : ("acked" \in {wake[s].keyed, wake[s].replay}) /\ IsUnread(s) => s \in hushed

\* What SAM looks after: of the unread messages for the woken agent that nobody
\* works on and the pause does not hold back, the oldest PeekLimit in the room,
\* unless they are silent.
Watched(s) == s \in Peeked /\ ~ msg[s].kind.silent

\* A watched message gets a wake, though the sender's process died before it
\* emitted one, or a claim ran out, unless the model acknowledged one of its
\* wakes.  Nothing is promised to messages of other threads, to silent ones and
\* to those behind the oldest PeekLimit (silent ones among them) for as long as
\* they are behind: SAM and open_collab_room never look at them.
UnreadIsWoken ==
  \A s \in Seqs :
    Watched(s) /\ s \notin hushed ~> Awake(s) \/ ~ Watched(s) \/ s \in hushed
=============================================================================
