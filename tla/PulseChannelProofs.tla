-------------------------- MODULE PulseChannelProofs --------------------------
(* Proofs about PulseChannel, for all widgets, agents, keys, channels, lease  *)
(* and claim lengths, and every size limit of the store.                      *)
(*                                                                            *)
(* Every operation transforms the record of each event by one of a few        *)
(* operators, so each operator gets one lemma that says what it preserves and *)
(* how it may move an event, and a step only names the operators it applies.  *)
EXTENDS PulseChannel, TLAPS

\* A widget can report the delivery of an event only while it is its claimant,
\* so an acknowledged event must have none; and numbers not yet given out must
\* be fresh for a new event to disturb nothing.
EventInv(e) == e.status \in {"none", "acked"} => e.claimant = NoWidget /\ e.left = 0

IInv ==
  /\ ChannelTypeOK
  /\ \A s \in Seqs : EventInv(event[s])
  /\ \A s \in Seqs : s >= next_seq <=> event[s].status = "none"
  /\ OneUseOfAKey

-----------------------------------------------------------------------------
(* One lemma per transformation of an event *)

\* What no step may do to an event: take it from a claimant whose claim runs,
\* or make it live again after it was acknowledged or dropped.
Allowed(e, f) ==
  /\ e.left > 0 => f.claimant = e.claimant \/ ~Live(f)
  /\ ~Live(e) /\ e.status # "none" => ~Live(f)

\* A step that is not an emit stores nothing new and keeps what an event is.
Kept(e, f) ==
  /\ f.kind = e.kind
  /\ Stored(f) => Stored(e)
  /\ e.status = "none" <=> f.status = "none"

Good(f) == f \in Events /\ EventInv(f)

LEMMA NoWidgetFree == NoWidget \notin Widgets
BY PulseAssumption

LEMMA NewEventGood ==
  ASSUME NEW k \in Kinds, NEW e \in Events, EventInv(e), e.status = "none"
  PROVE  Good(NewEvent(k)) /\ Allowed(e, NewEvent(k))
<1>1. k.hidden \in Nat
  BY PulseAssumption DEF KindRecords
<1>2. NewEvent(k) \in Events
  BY <1>1 DEF NewEvent, Events, Unacked, Unstored
<1>3. QED
  BY <1>2 DEF NewEvent, Good, EventInv, Allowed

LEMMA TrimmedGood ==
  ASSUME NEW e \in Events, EventInv(e), e.status # "none"
  PROVE  Good(Trimmed(e)) /\ Allowed(e, Trimmed(e)) /\ Kept(e, Trimmed(e))
BY DEF Trimmed, Events, Good, EventInv, Allowed, Kept, Stored, Live, Unacked, Unstored

LEMMA ClaimedByGood ==
  ASSUME NEW e \in Events, EventInv(e), Live(e), e.left = 0,
         NEW w \in Widgets, NEW d \in ClaimSecs
  PROVE  Good(ClaimedBy(e, w, d)) /\ Allowed(e, ClaimedBy(e, w, d)) /\ Kept(e, ClaimedBy(e, w, d))
<1> DEFINE f == ClaimedBy(e, w, d)
<1>1. d \in Nat
  BY PulseAssumption
<1>2. f \in Events
  BY <1>1 DEF ClaimedBy, Events, Unacked
<1>3. f.status = "claimed" /\ f.kind = e.kind
  BY DEF ClaimedBy, Events
<1> HIDE DEF f
<1>4. Good(f) /\ Allowed(e, f) /\ Kept(e, f)
  BY <1>2, <1>3 DEF Good, EventInv, Allowed, Kept, Stored, Live, Unacked, Unstored
<1>5. QED
  BY <1>4 DEF f

LEMMA DeliveredGood ==
  ASSUME NEW e \in Events, EventInv(e), Stored(e), e.claimant \in Widgets, NEW f,
         f = [e EXCEPT !.status = "delivered", !.left = ShownFor]
  PROVE  Good(f) /\ Allowed(e, f) /\ Kept(e, f)
<1>1. ShownFor \in Nat /\ e.claimant # NoWidget
  BY PulseAssumption
<1>2. Live(e)
  BY <1>1 DEF EventInv, Events, Stored, Live, Unacked, Unstored
<1>3. f \in Events
  BY <1>1 DEF Events, Unacked
<1>4. QED
  BY <1>1, <1>2, <1>3 DEF Events, Good, EventInv, Allowed, Kept, Stored, Live, Unacked, Unstored

LEMMA AckedGood ==
  ASSUME NEW e \in Events, EventInv(e), Stored(e)
  PROVE  Good(Acked(e)) /\ Allowed(e, Acked(e)) /\ Kept(e, Acked(e))
<1> DEFINE f == Acked(e)
<1>1. f \in Events
  BY DEF Acked, Events
<1>2. f.status = "acked" /\ f.claimant = NoWidget /\ f.left = 0 /\ f.kind = e.kind
  BY DEF Acked, Events
<1> HIDE DEF f
<1>3. Good(f) /\ Allowed(e, f) /\ Kept(e, f)
  BY <1>1, <1>2 DEF Good, EventInv, Allowed, Kept, Stored, Live, Unacked, Unstored
<1>4. QED
  BY <1>3 DEF f

LEMMA SameGood ==
  ASSUME NEW e \in Events, EventInv(e)
  PROVE  Good(e) /\ Allowed(e, e) /\ Kept(e, e)
BY DEF Good, EventInv, Allowed, Kept

LEMMA ReclaimedGood ==
  ASSUME NEW e \in Events, EventInv(e)
  PROVE  Good(Reclaimed(e)) /\ Allowed(e, Reclaimed(e)) /\ Kept(e, Reclaimed(e))
<1>1. CASE e.status = "claimed" /\ e.left = 0
  <2> DEFINE f == [e EXCEPT !.status = "pending", !.claimant = NoWidget]
  <2>1. f \in Events
    BY DEF Events, Unacked
  <2>2. f.status = "pending" /\ f.kind = e.kind
    BY DEF Events
  <2> HIDE DEF f
  <2>3. Good(f) /\ Allowed(e, f) /\ Kept(e, f)
    BY <1>1, <2>1, <2>2 DEF Good, EventInv, Allowed, Kept, Stored, Live, Unacked, Unstored
  <2>4. QED
    BY <1>1, <2>3 DEF f, Reclaimed
<1>2. CASE ~(e.status = "claimed" /\ e.left = 0)
  BY <1>2, SameGood DEF Reclaimed
<1>3. QED
  BY <1>1, <1>2

LEMMA LessGood ==
  ASSUME NEW n \in Nat
  PROVE  Less(n) \in Nat /\ (n = 0 => Less(n) = 0)
BY DEF Less

LEMMA AgedGood ==
  ASSUME NEW e \in Events, EventInv(e), NEW f,
         f = [e EXCEPT !.hidden = Less(@), !.left = Less(@)]
  PROVE  Good(f) /\ Allowed(e, f) /\ Kept(e, f)
<1>1. Less(e.hidden) \in Nat /\ Less(e.left) \in Nat /\ (e.left = 0 => Less(e.left) = 0)
  BY LessGood DEF Events
<1>2. QED
  BY <1>1 DEF Events, Good, EventInv, Allowed, Kept, Stored, Live, Unacked, Unstored

-----------------------------------------------------------------------------
(* The invariant *)

LeadersOK == leader \in [Channels -> Leaders]

\* A step that stores nothing new keeps the invariant.
LEMMA Quiet ==
  ASSUME IInv, LeadersOK', next_seq' = next_seq,
         event' \in [Seqs -> Events],
         \A s \in Seqs : Good(event'[s]) /\ Kept(event[s], event'[s])
  PROVE  IInv'
<1>1. ChannelTypeOK'
  BY DEF IInv, ChannelTypeOK, LeadersOK
<1>2. \A s \in Seqs : EventInv(event'[s])
  BY DEF Good
<1>3. \A s \in Seqs : s >= next_seq' <=> event'[s].status = "none"
  BY DEF IInv, Kept
<1>4. OneUseOfAKey'
  <2> SUFFICES ASSUME NEW s \in Seqs, NEW u \in Seqs, s # u, Stored(event'[u]),
                      event'[u].kind.key # NoKey, Stored(event'[s]),
                      event'[s].kind.key = event'[u].kind.key,
                      event'[s].kind.channel = event'[u].kind.channel
               PROVE  FALSE
    BY DEF OneUseOfAKey, UsedFor
  <2>1. Kept(event[s], event'[s]) /\ Kept(event[u], event'[u])
    OBVIOUS
  <2>2. QED
    BY <2>1 DEF IInv, OneUseOfAKey, UsedFor, Kept
<1>5. QED
  BY <1>1, <1>2, <1>3, <1>4 DEF IInv

AllAllowed == \A s \in Seqs : Allowed(event[s], event'[s])

\* An update of one event.
LEMMA OneChanged ==
  ASSUME IInv, LeadersOK', next_seq' = next_seq, NEW s \in Seqs, NEW f,
         event' = [event EXCEPT ![s] = f],
         Good(f), Allowed(event[s], f), Kept(event[s], f)
  PROVE  IInv' /\ AllAllowed
<1>1. event \in [Seqs -> Events] /\ \A u \in Seqs : event[u] \in Events /\ EventInv(event[u])
  BY DEF IInv, ChannelTypeOK
<1>2. f \in Events
  BY DEF Good
<1>3. event' \in [Seqs -> Events]
  BY <1>1, <1>2
<1>4. \A u \in Seqs : /\ Good(event'[u]) /\ Kept(event[u], event'[u])
                      /\ Allowed(event[u], event'[u])
  <2> SUFFICES ASSUME NEW u \in Seqs
               PROVE  Good(event'[u]) /\ Kept(event[u], event'[u]) /\ Allowed(event[u], event'[u])
    OBVIOUS
  <2>1. CASE u = s
    BY <1>1, <2>1
  <2>2. CASE u # s
    <3>1. event'[u] = event[u]
      BY <1>1, <2>2
    <3>2. QED
      BY <1>1, <3>1, SameGood
  <2>3. QED
    BY <2>1, <2>2
<1>5. QED
  BY <1>3, <1>4, Quiet DEF AllAllowed

\* An update of every event.
LEMMA AllChanged ==
  ASSUME IInv, LeadersOK', next_seq' = next_seq, event' \in [Seqs -> Events],
         \A s \in Seqs : /\ Good(event'[s]) /\ Kept(event[s], event'[s])
                         /\ Allowed(event[s], event'[s])
  PROVE  IInv' /\ AllAllowed
BY Quiet DEF AllAllowed

\* A step of the leaders only.
LEMMA UnchangedEvents ==
  ASSUME IInv, LeadersOK', next_seq' = next_seq, event' = event
  PROVE  IInv' /\ AllAllowed
<1>1. event \in [Seqs -> Events] /\ \A s \in Seqs : event[s] \in Events /\ EventInv(event[s])
  BY DEF IInv, ChannelTypeOK
<1>2. \A s \in Seqs : /\ Good(event'[s]) /\ Kept(event[s], event'[s])
                       /\ Allowed(event[s], event'[s])
  BY <1>1, SameGood
<1>3. QED
  BY <1>1, <1>2, AllChanged

LEMMA InitInv == ChannelInit => IInv
<1> SUFFICES ASSUME ChannelInit PROVE IInv
  OBVIOUS
<1>1. NoEvent \in Events /\ NoEvent.status = "none" /\ EventInv(NoEvent)
  <2>1. (CHOOSE k \in Kinds : TRUE) \in Kinds
    BY PulseAssumption
  <2>2. QED
    BY <2>1 DEF NoEvent, Events, Unstored, EventInv
<1>2. NoLeader \in Leaders
  BY DEF NoLeader, Leaders
<1>3. ChannelTypeOK
  BY <1>1, <1>2, PulseAssumption DEF ChannelInit, ChannelTypeOK
<1>4. OneUseOfAKey
  BY <1>1 DEF ChannelInit, OneUseOfAKey, Stored, Unstored
<1>5. \A s \in Seqs : s >= next_seq <=> event[s].status = "none"
  BY <1>1, PulseAssumption DEF ChannelInit, Seqs
<1>6. QED
  BY <1>1, <1>3, <1>4, <1>5 DEF ChannelInit, IInv

-----------------------------------------------------------------------------
(* One lemma per operation *)

LEMMA EmitStep ==
  ASSUME IInv, NEW k \in Kinds, Emit(k)
  PROVE  IInv' /\ AllAllowed
<1>1. /\ event \in [Seqs -> Events] /\ next_seq \in Seqs /\ next_seq \in Nat /\ MaxSeq \in Nat
      /\ MaxEvents \in Nat \ {0}
      /\ \A u \in Seqs : event[u] \in Events /\ EventInv(event[u])
  BY PulseAssumption DEF IInv, ChannelTypeOK, Emit, Seqs
<1>2. /\ event'[next_seq] = NewEvent(k)
      /\ Good(NewEvent(k)) /\ Allowed(event[next_seq], NewEvent(k))
  BY <1>1, NewEventGood DEF Emit, IInv
<1>3. \A s \in Seqs \ {next_seq} :
        /\ event'[s] \in {event[s], Trimmed(event[s])}
        /\ s > next_seq => event'[s] = event[s]
  BY <1>1 DEF Emit, Seqs
<1>4. \A s \in Seqs \ {next_seq} :
        Good(event'[s]) /\ Kept(event[s], event'[s]) /\ Allowed(event[s], event'[s])
  <2> SUFFICES ASSUME NEW s \in Seqs \ {next_seq}
               PROVE  Good(event'[s]) /\ Kept(event[s], event'[s]) /\ Allowed(event[s], event'[s])
    OBVIOUS
  <2>1. CASE event'[s] = event[s]
    BY <1>1, <2>1, SameGood
  <2>2. CASE event'[s] # event[s]
    <3>1. event'[s] = Trimmed(event[s]) /\ s < next_seq
      BY <1>1, <1>3, <2>2 DEF Seqs
    <3>2. event[s].status # "none"
      BY <1>1, <3>1 DEF IInv, Seqs
    <3>3. QED
      BY <1>1, <3>1, <3>2, TrimmedGood
  <2>3. QED
    BY <2>1, <2>2
<1>5. ChannelTypeOK'
  <2>1. event' \in [Seqs -> Events]
    <3>1. \A s \in Seqs : event'[s] \in Events
      BY <1>2, <1>4 DEF Good
    <3>2. QED
      BY <3>1 DEF Emit
  <2>2. QED
    BY <1>1, <2>1 DEF IInv, ChannelTypeOK, Emit, Seqs
<1>6. \A s \in Seqs : s >= next_seq' <=> event'[s].status = "none"
  <2>1. event'[next_seq].status # "none" /\ next_seq' = next_seq + 1
    BY <1>2 DEF NewEvent, Emit
  <2>2. \A s \in Seqs \ {next_seq} : event'[s].status = "none" <=> s >= next_seq
    BY <1>4 DEF Kept, IInv
  <2>3. QED
    BY <1>1, <2>1, <2>2 DEF Seqs
<1>7. OneUseOfAKey'
  <2> SUFFICES ASSUME NEW s \in Seqs, NEW u \in Seqs, s # u, Stored(event'[u]),
                      event'[u].kind.key # NoKey, Stored(event'[s]),
                      event'[s].kind.key = event'[u].kind.key,
                      event'[s].kind.channel = event'[u].kind.channel
               PROVE  FALSE
    BY DEF OneUseOfAKey, UsedFor
  <2>1. event'[next_seq].kind = k
    BY <1>2 DEF NewEvent
  <2>2. CASE s = next_seq
    <3>1. Kept(event[u], event'[u])
      BY <1>4, <2>2
    <3>2. QED
      BY <2>1, <2>2, <3>1 DEF Kept, Emit, Duplicate, UsedFor
  <2>3. CASE u = next_seq
    <3>1. Kept(event[s], event'[s])
      BY <1>4, <2>3
    <3>2. QED
      BY <2>1, <2>3, <3>1 DEF Kept, Emit, Duplicate, UsedFor
  <2>4. CASE s # next_seq /\ u # next_seq
    <3>1. Kept(event[s], event'[s]) /\ Kept(event[u], event'[u])
      BY <1>4, <2>4
    <3>2. QED
      BY <3>1 DEF IInv, OneUseOfAKey, UsedFor, Kept
  <2>5. QED
    BY <2>2, <2>3, <2>4
<1>8. QED
  BY <1>1, <1>2, <1>4, <1>5, <1>6, <1>7 DEF IInv, AllAllowed, Good

LEMMA PollStep ==
  ASSUME IInv, NEW w \in Widgets, NEW c \in Channels, NEW ready \in BOOLEAN,
         NEW lease \in LeaderSecs, NEW d \in ClaimSecs, Poll(w, c, ready, lease, d)
  PROVE  IInv' /\ AllAllowed
<1>1. LeadersOK'
  <2>1. lease \in Nat
    BY PulseAssumption
  <2>2. QED
    BY <2>1 DEF IInv, ChannelTypeOK, Poll, LeadersOK, Leaders
<1>2. CASE UNCHANGED event
  BY <1>1, <1>2, UnchangedEvents DEF Poll
<1>3. CASE \E s \in Offers(w, c) : event' = [event EXCEPT ![s] = ClaimedBy(@, w, d)]
  <2>1. PICK s \in Seqs : /\ Offerable(event[s], w, c)
                          /\ event' = [event EXCEPT ![s] = ClaimedBy(@, w, d)]
    BY <1>3 DEF Offers
  <2>2. event[s] \in Events /\ EventInv(event[s]) /\ Live(event[s]) /\ event[s].left = 0
    BY <2>1 DEF IInv, ChannelTypeOK, Offerable
  <2>3. /\ Good(ClaimedBy(event[s], w, d)) /\ Allowed(event[s], ClaimedBy(event[s], w, d))
        /\ Kept(event[s], ClaimedBy(event[s], w, d))
    BY <2>2, ClaimedByGood
  <2>4. event' = [event EXCEPT ![s] = ClaimedBy(event[s], w, d)]
    BY <2>1 DEF IInv, ChannelTypeOK
  <2>5. QED
    BY <1>1, <2>3, <2>4, OneChanged DEF Poll
<1>4. QED
  BY <1>2, <1>3 DEF Poll

LEMMA MarkDeliveredStep ==
  ASSUME IInv, NEW w \in Widgets, NEW s \in Seqs, MarkDelivered(w, s)
  PROVE  IInv' /\ AllAllowed
<1> DEFINE f == [event[s] EXCEPT !.status = "delivered", !.left = ShownFor]
<1>1. event[s] \in Events /\ EventInv(event[s]) /\ event \in [Seqs -> Events]
  BY DEF IInv, ChannelTypeOK
<1>2. Good(f) /\ Allowed(event[s], f) /\ Kept(event[s], f)
  BY <1>1, DeliveredGood DEF MarkDelivered
<1>3. event' = [event EXCEPT ![s] = f]
  BY <1>1 DEF MarkDelivered
<1>4. LeadersOK' /\ next_seq' = next_seq
  BY DEF MarkDelivered, IInv, ChannelTypeOK, LeadersOK
<1> HIDE DEF f
<1>5. QED
  BY <1>2, <1>3, <1>4, OneChanged

LEMMA AcknowledgeStep ==
  ASSUME IInv, NEW s \in Seqs, Acknowledge(s)
  PROVE  IInv' /\ AllAllowed
<1>1. event[s] \in Events /\ EventInv(event[s]) /\ event \in [Seqs -> Events]
  BY DEF IInv, ChannelTypeOK
<1>2. Good(Acked(event[s])) /\ Allowed(event[s], Acked(event[s])) /\ Kept(event[s], Acked(event[s]))
  BY <1>1, AckedGood DEF Acknowledge
<1>3. event' = [event EXCEPT ![s] = Acked(event[s])]
  BY <1>1 DEF Acknowledge
<1>4. LeadersOK' /\ next_seq' = next_seq
  BY DEF Acknowledge, IInv, ChannelTypeOK, LeadersOK
<1>5. QED
  BY <1>2, <1>3, <1>4, OneChanged

LEMMA MaintainStep ==
  ASSUME IInv, MaintainEvents
  PROVE  IInv' /\ AllAllowed
<1>1. \A s \in Seqs : event[s] \in Events /\ EventInv(event[s])
  BY DEF IInv, ChannelTypeOK
<1>2. \A s \in Seqs : event'[s] = Reclaimed(event[s])
  BY DEF MaintainEvents
<1>3. \A s \in Seqs : /\ Good(event'[s]) /\ Kept(event[s], event'[s])
                       /\ Allowed(event[s], event'[s])
  BY <1>1, <1>2, ReclaimedGood
<1>4. event' \in [Seqs -> Events]
  BY <1>3 DEF MaintainEvents, Good
<1>5. LeadersOK' /\ next_seq' = next_seq
  <2>1. NoLeader \in Leaders
    BY DEF NoLeader, Leaders
  <2>2. QED
    BY <2>1 DEF MaintainEvents, IInv, ChannelTypeOK, LeadersOK
<1>6. QED
  BY <1>3, <1>4, <1>5, AllChanged

LEMMA TickStep ==
  ASSUME IInv, ChannelTick
  PROVE  IInv' /\ AllAllowed
<1>1. \A s \in Seqs : event[s] \in Events /\ EventInv(event[s])
  BY DEF IInv, ChannelTypeOK
<1>2. \A s \in Seqs : event'[s] = [event[s] EXCEPT !.hidden = Less(@), !.left = Less(@)]
  BY DEF ChannelTick
<1>3. \A s \in Seqs : /\ Good(event'[s]) /\ Kept(event[s], event'[s])
                       /\ Allowed(event[s], event'[s])
  BY <1>1, <1>2, AgedGood
<1>4. event' \in [Seqs -> Events]
  BY <1>3 DEF ChannelTick, Good
<1>5. LeadersOK' /\ next_seq' = next_seq
  <2>1. \A c \in Channels : leader[c] \in Leaders /\ Less(leader[c].left) \in Nat
    BY LessGood DEF IInv, ChannelTypeOK, Leaders
  <2>2. QED
    BY <2>1 DEF ChannelTick, LeadersOK, Leaders
<1>6. QED
  BY <1>3, <1>4, <1>5, AllChanged

LEMMA ResetLeaderStep ==
  ASSUME IInv, NEW c \in Channels, ResetLeader(c)
  PROVE  IInv' /\ AllAllowed
<1>1. LeadersOK'
  <2>1. NoLeader \in Leaders
    BY DEF NoLeader, Leaders
  <2>2. QED
    BY <2>1 DEF ResetLeader, IInv, ChannelTypeOK, LeadersOK
<1>2. QED
  BY <1>1, UnchangedEvents DEF ResetLeader

\* Every step keeps the invariant and moves every event as it may.
THEOREM NextInv == IInv /\ [ChannelNext]_channelVars => IInv' /\ AllAllowed
<1> SUFFICES ASSUME IInv, [ChannelNext]_channelVars PROVE IInv' /\ AllAllowed
  OBVIOUS
<1>1. ASSUME NEW k \in Kinds, Emit(k) PROVE IInv' /\ AllAllowed
  BY <1>1, EmitStep
<1>2. ASSUME NEW c \in Channels, SomePoll(c) PROVE IInv' /\ AllAllowed
  BY <1>2, PollStep DEF SomePoll
<1>3. ASSUME NEW w \in Widgets, NEW s \in Seqs, MarkDelivered(w, s) PROVE IInv' /\ AllAllowed
  BY <1>3, MarkDeliveredStep
<1>4. ASSUME NEW s \in Seqs, Acknowledge(s) PROVE IInv' /\ AllAllowed
  BY <1>4, AcknowledgeStep
<1>5. ASSUME NEW c \in Channels, ResetLeader(c) PROVE IInv' /\ AllAllowed
  BY <1>5, ResetLeaderStep
<1>6. CASE MaintainEvents
  BY <1>6, MaintainStep
<1>7. CASE ChannelTick
  BY <1>7, TickStep
<1>8. CASE UNCHANGED channelVars
  <2>1. LeadersOK'
    BY <1>8 DEF channelVars, IInv, ChannelTypeOK, LeadersOK
  <2>2. QED
    BY <1>8, <2>1, UnchangedEvents DEF channelVars
<1>9. QED
  BY <1>1, <1>2, <1>3, <1>4, <1>5, <1>6, <1>7, <1>8 DEF ChannelNext

\* The inductive invariant holds throughout.
THEOREM PulseInvariance == ChannelSpec => []IInv
<1>1. QED
  BY InitInv, NextInv, PTL DEF ChannelSpec

-----------------------------------------------------------------------------
(* The properties *)

\* The store keeps its types.
THEOREM PulseTypeCorrect == ChannelSpec => []ChannelTypeOK
<1>1. IInv => ChannelTypeOK
  BY DEF IInv
<1>2. QED
  BY <1>1, PulseInvariance, PTL

\* An idempotency key is never stored twice in a channel.
THEOREM OneUseOfAKeyThm == ChannelSpec => []OneUseOfAKey
<1>1. IInv => OneUseOfAKey
  BY DEF IInv
<1>2. QED
  BY <1>1, PulseInvariance, PTL

\* Nobody else is handed an event while a claim on it runs.
THEOREM ClaimsAreExclusiveThm == ChannelSpec => ClaimsAreExclusive
<1> DEFINE Mine == \A s \in Seqs :
                     event[s].left > 0 => \/ event'[s].claimant = event[s].claimant
                                          \/ ~Live(event'[s])
<1>1. IInv /\ [ChannelNext]_channelVars => [Mine]_channelVars
  BY NextInv DEF AllAllowed, Allowed
<1>2. QED
  BY <1>1, PulseInvariance, PTL DEF ChannelSpec, ClaimsAreExclusive

\* What was acknowledged, or dropped, is not offered again.
THEOREM AckIsFinalThm == ChannelSpec => AckIsFinal
<1> DEFINE Final == \A s \in Seqs :
                      ~Live(event[s]) /\ event[s].status # "none" => ~Live(event'[s])
<1>1. IInv /\ [ChannelNext]_channelVars => [Final]_channelVars
  BY NextInv DEF AllAllowed, Allowed
<1>2. QED
  BY <1>1, PulseInvariance, PTL DEF ChannelSpec, AckIsFinal
=============================================================================
