---------------------------- MODULE MCMessageHub -----------------------------
(* A small instance of MessageHub: one session of the woken agent, which      *)
(* shares the room with another agent.  Either the server and SAM's command   *)
(* send calls and orders, more than the store keeps; or the server alone      *)
(* sends, no more than the store keeps and no orders of its own, also silent  *)
(* messages, which may take the only place that peek has, and notes in        *)
(* another thread.                                                            *)
EXTENDS MessageHub

CONSTANTS chatgpt, claude, c1, k1

VARIABLE mix    \* which of the two

Owner == [c \in {c1} |-> chatgpt]
Call == [to |-> chatgpt, urgent |-> FALSE, key |-> k1, room |-> TRUE, silent |-> FALSE]
Quiet == [to |-> chatgpt, urgent |-> TRUE, key |-> NoKey, room |-> TRUE, silent |-> TRUE]
Note == [to |-> chatgpt, urgent |-> FALSE, key |-> NoKey, room |-> FALSE, silent |-> FALSE]
Order == [to |-> Everyone, urgent |-> TRUE, key |-> NoKey, room |-> TRUE, silent |-> FALSE]
SentKinds == {Call, Quiet, Note, Order}

Many == \A s \in Seqs : msg'[s].kind \in {Call, Order}
\* Nothing dies here: a server that stops in the middle of a call is as silent.
Mixed ==
  /\ next_seq' <= MaxMessages + 1 /\ deaths' = 0 /\ call'["cli"] = Idle
  /\ \A s \in Seqs : msg'[s].kind = Order => msg'[s].status \notin Unread

HubNext ==
  /\ Next
  /\ \/ mix = "many" /\ Many
     \/ mix = "mixed" /\ Mixed
  /\ UNCHANGED mix

HubInit ==
  /\ mix \in {"many", "mixed"}
  /\ Init

\* The fairness of FairSpec.
HubSpec ==
  /\ HubInit
  /\ [][HubNext]_<<vars, mix>>
  /\ WF_vars(SamStarts) /\ WF_vars(Goes("sam")) /\ WF_vars(Tick)
=============================================================================
