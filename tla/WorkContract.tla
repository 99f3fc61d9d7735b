---------------------------- MODULE WorkContract ----------------------------
(* What the task queue promises to those who submit and those who do work,    *)
(* without leases, clocks, modes or budgets: a task is submitted once, handed *)
(* out under ever newer tokens, advances at most one step per token, and      *)
(* never moves again once it is done.                                         *)
EXTENDS Naturals

CONSTANT Tasks

VARIABLES phase,  \* where each task stands
          token,  \* the newest token handed out for each task, 0 if none
          steps   \* the steps each task has been credited with

vars == <<phase, token, steps>>

Phases == {"none", "open", "held", "done"}

Keeps(f, t) == f'[t] = f[t]

Submit(t) ==
  /\ phase[t] = "none" /\ phase'[t] = "open"
  /\ Keeps(token, t) /\ Keeps(steps, t)

\* A task may be handed on at once: its holder is late, the next one waits.
Take(t) ==
  /\ phase[t] \in {"open", "held"} /\ phase'[t] = "held"
  /\ token'[t] = token[t] + 1
  /\ Keeps(steps, t)

Credit(t) ==
  /\ phase[t] = "held" /\ phase'[t] \in {"open", "done"}
  /\ steps'[t] = steps[t] + 1
  /\ Keeps(token, t)

GiveBack(t) ==
  /\ phase[t] = "held" /\ phase'[t] \in {"open", "done"}
  /\ Keeps(token, t) /\ Keeps(steps, t)

Withdraw(t) ==
  /\ phase[t] = "open" /\ phase'[t] = "done"
  /\ Keeps(token, t) /\ Keeps(steps, t)

Stays(t) == Keeps(phase, t) /\ Keeps(token, t) /\ Keeps(steps, t)

Init ==
  /\ phase = [t \in Tasks |-> "none"]
  /\ token = [t \in Tasks |-> 0]
  /\ steps = [t \in Tasks |-> 0]

\* One command may move several tasks: expiry is checked for all of them.
Next ==
  /\ phase' \in [Tasks -> Phases]
  /\ token' \in [Tasks -> Nat]
  /\ steps' \in [Tasks -> Nat]
  /\ \A t \in Tasks : \/ Submit(t) \/ Take(t) \/ Credit(t) \/ GiveBack(t)
                      \/ Withdraw(t) \/ Stays(t)

Spec == Init /\ [][Next]_vars
=============================================================================
