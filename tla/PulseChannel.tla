----------------------------- MODULE PulseChannel -----------------------------
(* The reverse wake channel (runtime/events.py): events that wait in a store  *)
(* until the listener widget that leads their channel is handed them, shows   *)
(* them to the model, and the model acknowledges them.                        *)
(*                                                                            *)
(* Every operation runs inside locked_store, one read-change-replace of the   *)
(* store under a file lock, and is one step here.  What interleaves are the   *)
(* calls of several widgets and of the model, and the time that passes        *)
(* between a widget's poll and its report that it delivered the event.        *)
(* Times are kept relative to now(), as in TaskQueue: 0 is "run out".         *)
EXTENDS Integers

CONSTANTS Widgets,     \* listener widgets that may be mounted
          NoWidget,    \* no widget
          Generation,  \* the age stamp in each widget's id, 0 for legacy ids
          Agents,      \* the agents events may be addressed to
          Anyone,      \* no addressee, or a widget that names no agent
          AgentOf,     \* the agent a widget polls for
          Channels,
          Keys,        \* idempotency keys
          NoKey,       \* an event without idempotency key
          Kinds,       \* what may be emitted
          LeaderSecs,  \* leader leases
          ClaimSecs,   \* delivery claims
          ShownFor,    \* how long a delivered event rests before it is offered again
          MaxEvents,   \* limits.max_events: the store keeps the newest ones
          MaxSeq       \* bound: events are numbered up to this

KindRecords == [channel : Channels, key : Keys \cup {NoKey},
                to : Agents \cup {Anyone}, priority : Int, hidden : Nat]

ASSUME PulseAssumption ==
  /\ NoWidget \notin Widgets
  /\ Generation \in [Widgets -> Nat]
  /\ AgentOf \in [Widgets -> Agents \cup {Anyone}]
  /\ NoKey \notin Keys
  /\ Kinds \subseteq KindRecords
  /\ Kinds # {}
  /\ LeaderSecs \subseteq Nat \ {0}
  /\ ClaimSecs \subseteq Nat \ {0}
  /\ ShownFor \in Nat \ {0}
  /\ MaxEvents \in Nat \ {0}
  /\ MaxSeq \in Nat

VARIABLES
  event,     \* every event by its number, also those not yet or no longer stored
  next_seq,  \* the number of the next event
  leader     \* the leader lease of each channel

channelVars == <<event, next_seq, leader>>

Seqs == 1..MaxSeq
Unstored == {"none", "dropped"}
Unacked == {"pending", "claimed", "delivered"}

Events == [kind : Kinds, status : Unstored \cup Unacked \cup {"acked"},
           hidden : Nat, claimant : Widgets \cup {NoWidget}, left : Nat]
Leaders == [widget : Widgets \cup {NoWidget}, left : Nat]
NoLeader == [widget |-> NoWidget, left |-> 0]

Stored(e) == e.status \notin Unstored
Live(e) == e.status \in Unacked

-----------------------------------------------------------------------------
(* emit *)

\* Fault: an event that was acknowledged does not count.
DuplicateLive(k) ==
  \E s \in Seqs : Live(event[s]) /\ event[s].kind.key = k.key
                  /\ event[s].kind.channel = k.channel

\* The stored event a key was used for before, if there is one.
UsedFor(k, s) ==
  /\ k.key # NoKey
  /\ Stored(event[s])
  /\ event[s].kind.key = k.key
  /\ event[s].kind.channel = k.channel
Duplicate(k) == \E s \in Seqs : UsedFor(k, s)

NewEvent(k) == [kind |-> k, status |-> "pending", hidden |-> k.hidden,
                claimant |-> NoWidget, left |-> 0]

Trimmed(e) == [e EXCEPT !.status = "dropped"]

\* A key that was used is answered with the event it was used for, and nothing
\* changes.  Otherwise the store grows by one, and keeps its newest MaxEvents,
\* whatever became of the others.
Emit(k) ==
  /\ next_seq \in Seqs
  /\ ~Duplicate(k)
  /\ event' = [s \in Seqs |-> IF s = next_seq THEN NewEvent(k)
                              ELSE IF s + MaxEvents <= next_seq THEN Trimmed(event[s])
                              ELSE event[s]]
  /\ next_seq' = next_seq + 1
  /\ UNCHANGED leader

-----------------------------------------------------------------------------
(* poll *)

Age(w) == IF w \in Widgets THEN Generation[w] ELSE 0

\* A widget leads if nobody does, if it did, or if it is newer and ready.
CanLead(w, c, ready) ==
  \/ leader[c].left = 0
  \/ leader[c].widget = w
  \/ ready /\ Age(w) > Age(leader[c].widget)

Sees(w, k) == AgentOf[w] = Anyone \/ k.to \in {Anyone, AgentOf[w]}

\* Fault: claims on the event are not looked at.
OfferableTwice(e, w, c) ==
  /\ Live(e) /\ e.kind.channel = c
  /\ e.hidden = 0
  /\ Sees(w, e.kind)

\* Fault: what was once delivered is not offered again.
OfferableOnce(e, w, c) ==
  /\ e.status \in {"pending", "claimed"} /\ e.kind.channel = c
  /\ e.hidden = 0 /\ e.left = 0
  /\ Sees(w, e.kind)

Offerable(e, w, c) ==
  /\ Live(e) /\ e.kind.channel = c
  /\ e.hidden = 0 /\ e.left = 0
  /\ Sees(w, e.kind)

Offers(w, c) == {s \in Seqs : Offerable(event[s], w, c)}

\* The highest priority, then the lowest number.
Before(s, u) ==
  \/ event[s].kind.priority > event[u].kind.priority
  \/ event[s].kind.priority = event[u].kind.priority /\ s < u

ClaimedBy(e, w, d) == [e EXCEPT !.status = "claimed", !.claimant = w, !.left = d]

\* A widget that cannot lead learns so and changes nothing.
Poll(w, c, ready, lease, d) ==
  /\ CanLead(w, c, ready)
  /\ leader' = [leader EXCEPT ![c] = [widget |-> w, left |-> lease]]
  /\ \/ Offers(w, c) = {} /\ UNCHANGED event
     \/ \E s \in Offers(w, c) :
          /\ \A u \in Offers(w, c) \ {s} : Before(s, u)
          /\ event' = [event EXCEPT ![s] = ClaimedBy(@, w, d)]
  /\ UNCHANGED next_seq

-----------------------------------------------------------------------------
(* mark_delivered, acknowledge, reset_leader, maintenance *)

\* The report is refused unless the last claim on the event was this widget's,
\* so only a widget that was handed the event can make it, at any later time, or
\* never: whether the claim has run out is not asked.
MarkDelivered(w, s) ==
  /\ Stored(event[s])
  /\ event[s].claimant = w
  /\ event' = [event EXCEPT ![s].status = "delivered", ![s].left = ShownFor]
  /\ UNCHANGED <<next_seq, leader>>

Acked(e) == [e EXCEPT !.status = "acked", !.claimant = NoWidget, !.left = 0]

Acknowledge(s) ==
  /\ Stored(event[s])
  /\ event' = [event EXCEPT ![s] = Acked(@)]
  /\ UNCHANGED <<next_seq, leader>>

ResetLeader(c) ==
  /\ leader' = [leader EXCEPT ![c] = NoLeader]
  /\ UNCHANGED <<event, next_seq>>

Reclaimed(e) ==
  IF e.status = "claimed" /\ e.left = 0
  THEN [e EXCEPT !.status = "pending", !.claimant = NoWidget]
  ELSE e

\* run_maintenance, the part about events.
MaintainEvents ==
  /\ leader' = [c \in Channels |-> IF leader[c].left = 0 THEN NoLeader ELSE leader[c]]
  /\ event' = [s \in Seqs |-> Reclaimed(event[s])]
  /\ UNCHANGED next_seq

-----------------------------------------------------------------------------
(* Time *)

Less(n) == IF n > 0 THEN n - 1 ELSE 0

ChannelTick ==
  /\ event' = [s \in Seqs |-> [event[s] EXCEPT !.hidden = Less(@), !.left = Less(@)]]
  /\ leader' = [c \in Channels |-> [leader[c] EXCEPT !.left = Less(@)]]
  /\ UNCHANGED next_seq

-----------------------------------------------------------------------------
NoEvent == [kind |-> CHOOSE k \in Kinds : TRUE, status |-> "none", hidden |-> 0,
            claimant |-> NoWidget, left |-> 0]

ChannelInit ==
  /\ event = [s \in Seqs |-> NoEvent]
  /\ next_seq = 1
  /\ leader = [c \in Channels |-> NoLeader]

SomePoll(c) ==
  \E w \in Widgets, ready \in BOOLEAN, lease \in LeaderSecs, d \in ClaimSecs :
    Poll(w, c, ready, lease, d)

ChannelNext ==
  \/ \E k \in Kinds : Emit(k)
  \/ \E c \in Channels : SomePoll(c)
  \/ \E w \in Widgets, s \in Seqs : MarkDelivered(w, s)
  \/ \E s \in Seqs : Acknowledge(s)
  \/ \E c \in Channels : ResetLeader(c)
  \/ MaintainEvents
  \/ ChannelTick

ChannelSpec == ChannelInit /\ [][ChannelNext]_channelVars

\* Clocks run, and on every channel some listener is mounted and polls every
\* few seconds (poll of pulse_anchor.html re-arms its timer on every path).
ChannelFairness == WF_channelVars(ChannelTick) /\ \A c \in Channels : WF_channelVars(SomePoll(c))

FairChannelSpec == ChannelSpec /\ ChannelFairness

-----------------------------------------------------------------------------
(* Properties *)

ChannelTypeOK ==
  /\ event \in [Seqs -> Events]
  /\ next_seq \in 1..(MaxSeq + 1)
  /\ leader \in [Channels -> Leaders]

\* A retried emit never puts the same key into a channel's store twice, not
\* even after the first event was acknowledged.
OneUseOfAKey ==
  \A s, u \in Seqs : s # u /\ Stored(event[u]) => ~UsedFor(event[u].kind, s)

\* While a claim is running nobody else is handed its event or may report it
\* delivered, whoever leads the channel meanwhile: two widgets never hold live
\* claims on one event.
ClaimsAreExclusive ==
  [][\A s \in Seqs :
       event[s].left > 0 => \/ event'[s].claimant = event[s].claimant
                            \/ ~Live(event'[s])]_channelVars

\* An event that was acknowledged is not offered, claimed or delivered again:
\* a widget's late report does not revive it.
AckIsFinal ==
  [][\A s \in Seqs : ~Live(event[s]) /\ event[s].status # "none" => ~Live(event'[s])]_channelVars

\* The event at the head of a channel, among those its listeners can see, is
\* handed out again and again until it is acknowledged, whichever widgets come,
\* go and lead.  (Behind it an event may wait: a claim on the head may always
\* have run out again by the next poll.)
Visible(s) == \A w \in Widgets : Sees(w, event[s].kind)
AtHead(s) ==
  /\ Live(event[s]) /\ Visible(s)
  /\ \A u \in Seqs \ {s} :
       Live(event[u]) /\ event[u].kind.channel = event[s].kind.channel
         => Before(s, u) \/ ~Visible(u)
NeverAbandoned ==
  \A s \in Seqs : AtHead(s) ~> event[s].left > 0 \/ ~AtHead(s)

\* ARCHITECTURE.md: delivery is durable and at least once, so an event is kept
\* until it is acknowledged.
\* The code does not keep this one (README, Divergences).
KeptUntilAcked ==
  [][\A s \in Seqs : Live(event[s]) => event'[s].status # "dropped"]_channelVars
=============================================================================
