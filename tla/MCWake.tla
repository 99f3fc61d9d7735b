-------------------------------- MODULE MCWake --------------------------------
(* How a wake comes about (MCBrainWake) and how it reaches the conversation   *)
(* (PulseChannel).  The first emits into the event store and never looks at   *)
(* it, and the second takes events from anybody, so each is run while the     *)
(* other rests.  The channel has two listeners of different age, and a legacy *)
(* event without a key, a keyed and addressed one, and one for another agent. *)
EXTENDS MCBrainWake, PulseChannel

CONSTANTS old, new

VARIABLE part    \* the one that runs

MCGeneration == [w \in {old, new} |-> IF w = old THEN 1 ELSE 2]
MCAgentOf == [w \in {old, new} |-> "chatgpt"]

Plain == [channel |-> "main", key |-> NoKey, to |-> Anyone, priority |-> 0, hidden |-> 0]
Wake == [channel |-> "main", key |-> "wake", to |-> "chatgpt", priority |-> 1, hidden |-> 1]
Foreign == [channel |-> "main", key |-> "mail", to |-> "claude", priority |-> 1, hidden |-> 0]

OneChannel == {Plain, Wake, Foreign}

BothInit ==
  /\ part \in {"announce", "deliver"}
  /\ WakeInit
  /\ ChannelInit

Announces(A) == part = "announce" /\ A /\ UNCHANGED <<part, channelVars>>
Delivers(A) == part = "deliver" /\ A /\ UNCHANGED <<part, allVars>>

BothNext == Announces(WakeNext) \/ Delivers(ChannelNext)

bothVars == <<part, allVars, channelVars>>

\* The fairness of FairWakeSpec and ChannelFairness, for the one that runs.
BothSpec ==
  /\ BothInit /\ [][BothNext]_bothVars
  /\ WF_bothVars(Announces(WorkerStep)) /\ WF_bothVars(Announces(Tick /\ UNCHANGED wakeVars))
  /\ WF_bothVars(Delivers(ChannelTick))
  /\ \A c \in Channels : WF_bothVars(Delivers(SomePoll(c)))
===============================================================================
