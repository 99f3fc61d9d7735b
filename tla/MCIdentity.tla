----------------------------- MODULE MCIdentity ------------------------------
(* Who a caller is: by what it signs (AgentAuth) and by what it says of       *)
(* itself (AgentDirectory).  The registry of the one and the directory of the *)
(* other have nothing in common, so each is run while the other rests.        *)
EXTENDS AgentAuth, AgentDirectory, TLC

CONSTANTS i1, i2

VARIABLE part    \* the one that runs

\* Installations are alike in both parts, and so are callers.
Alike == Permutations(Installations) \cup Permutations(Instances) \cup Permutations(Callers)

\* The Claude server is paired with the client that keeps i1: it comes back as
\* HubBootstrap(n, "claude", i1) would, so installations are still alike.
Paired == {[name |-> "claude", platform |-> "claude", instance |-> i1]}

\* The two profiles of the operator, and the rooms'.
OperatorSending == [platform |-> "human", instance |-> "rico-operator"]
OperatorCalling == [platform |-> "human-operator", instance |-> "rico-founder"]
Rooms == "claude" :> [platform |-> "claude", instance |-> "claude-room-placeholder"]
      @@ "work" :> [platform |-> "room", instance |-> "room-work"]

\* All Instances begin with the same 12 characters.
Everywhere == Instances \cup Uuids \cup {OperatorSending.instance, OperatorCalling.instance}
                \cup {Rooms[n].instance : n \in DOMAIN Rooms}
ShortIds == [x \in (Platforms \cup {"room", "human", "human-operator"}) \X Everywhere |->
               x[1] \o "-" \o (IF x[2] \in Instances THEN "i" ELSE x[2])]
Suffixes == [id \in {ShortIds[x] : x \in DOMAIN ShortIds} |-> <<id \o "-2", id \o "-3">>]

ASSUME NamesAreKeptApart == DirectoryAssumption

IdentityInit == AuthInit /\ DirectoryInit /\ part \in {"auth", "directory"}

IdentityNext ==
  \/ part = "auth" /\ AuthNext /\ UNCHANGED <<part, directoryVars>>
  \/ part = "directory" /\ DirectoryNext /\ UNCHANGED <<part, authVars>>

IdentitySpec == IdentityInit /\ [][IdentityNext]_<<part, authVars, directoryVars>>
=============================================================================
