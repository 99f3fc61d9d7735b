------------------------------- MODULE MCHost --------------------------------
(* What the operator's servers do to the host: critical changes with a timed  *)
(* rollback (OperatorRecovery), and the connectors of the control plane       *)
(* (TunnelConnector).  The two have no file, unit or variable in common, so   *)
(* each is run while the other rests: one behaviour has steps of one of them. *)
EXTENDS OperatorRecovery, TunnelConnector

CONSTANTS p, q, t1, s1, s2

VARIABLE part    \* the one that runs

HostInit ==
  /\ part \in {"recovery", "connector"}
  /\ Init
  /\ TunnelInit
  /\ part = "connector" => \A x \in Paths : disk[x] = x

HostNext ==
  \/ part = "recovery" /\ Next /\ UNCHANGED <<part, tunnelVars>>
  \/ part = "connector" /\ TunnelNext /\ UNCHANGED <<part, vars>>

HostSpec == HostInit /\ [][HostNext]_<<part, vars, tunnelVars>>
=============================================================================
