--------------------------- MODULE AgentDirectory ---------------------------
(* The directory of the hub (runtime/collab.py): which participant a caller   *)
(* becomes, the numbers and addresses it is reached by, and the records that  *)
(* its heartbeats keep.                                                       *)
(*                                                                            *)
(* Every call is one section under the store's lock, whichever server makes   *)
(* it.  Names, platforms and installations are values; time, and with it the  *)
(* presence that is computed when the directory is read, is left out, and so  *)
(* are profiles and capabilities, which no rule looks at.                     *)
EXTENDS Integers, FiniteSets, Sequences

CONSTANTS Names,       \* agent ids that callers ask for
          NoName,      \* the empty agent_id
          Platforms,   \* platform classes of the callers
          Instances,   \* installation ids that callers keep
          Uuids,       \* installation ids that the hub may draw
          NoInstance,  \* the empty instance_id
          Canonical,   \* <<platform, instance>> |-> id, from 12 characters of it
          Suffixed,    \* id |-> the ids "id-2", "id-3", ...
          Pairings,    \* name, platform and instance that a server is configured with
          RoomOf,      \* name |-> platform and instance that a room gives it
          Operator,    \* the id of the person at the controls
          SendsAs,     \* platform and instance under which it sends
          CallsAs,     \* platform and instance under which it calls
          Listings,    \* values of discoverable that clients ask for
          FirstNumber, \* 100001
          MaxContracts \* bound: contracts issued

VARIABLES
  agents,     \* store["agents"]
  next,       \* next_phone_number
  drawn,      \* uuids that were drawn
  contracts   \* history: resume_identity of the contracts issued

directoryVars == <<agents, next, drawn, contracts>>

\* Nobody calls itself by an id that the hub has not drawn yet.
Given == Instances \cup {RoomOf[n].instance : n \in Names}
           \cup {d.instance : d \in Pairings}
           \cup {SendsAs.instance, CallsAs.instance}

DirectoryAssumption ==
  /\ FirstNumber \in Nat \ {0}
  /\ NoInstance \notin Given \cup Uuids
  /\ Given \cap Uuids = {}

Unnumbered == 0

Known == DOMAIN agents

\* What heartbeat and session_heartbeat put down for an id nobody has.
Heard == [platform |-> "", instance |-> NoInstance, number |-> Unnumbered,
          bootstrapped |-> FALSE, aliases |-> {}, listed |-> TRUE]

-----------------------------------------------------------------------------
(* References *)

\* The participants that a name stands for; with several the code takes the
\* first in the order of the store.
Resolve(n) == IF n \in Known THEN {n} ELSE {a \in Known : n \in agents[a].aliases}

\* require_bootstrapped.
Admitted(n) == \E a \in Resolve(n) : agents[a].bootstrapped

\* A number or an address reaches whoever has it.
Dial(m) == {a \in Known : agents[a].number = m}
Address(p, i) == {a \in Known : agents[a].platform = p /\ agents[a].instance = i}

\* directory: what a participant finds in the phone book.
PhoneBook == {a \in Known : agents[a].bootstrapped /\ agents[a].listed}

-----------------------------------------------------------------------------
(* bootstrap_agent *)

\* The record that the caller takes up again, if there is one.  An installation
\* that the hub has just drawn proves nothing.
Holder(n, p, i, given) ==
  IF given /\ Address(p, i) # {} THEN Address(p, i)
  ELSE IF n \in Known /\ agents[n].instance \in (IF given THEN {NoInstance, i} ELSE {NoInstance})
       THEN {n}
  ELSE {}

\* A new participant gets the name it asks for unless it is taken.
Wanted(n, p, i) == IF n = NoName \/ n \in Known THEN Canonical[p, i] ELSE n

\* "id-2", "id-3", ... until one is free; the code never runs out of them.
SuffixesLast ==
  \A id \in Known : \E k \in DOMAIN Suffixed[id] :
    Suffixed[id][k] \notin Known /\ \A j \in 1 .. k - 1 : Suffixed[id][j] \in Known

FirstFree(ids) == ids[CHOOSE k \in DOMAIN ids : /\ ids[k] \notin Known
                                                /\ \A j \in 1 .. k - 1 : ids[j] \in Known]

\* Fault: two installations with the same short id are taken for one.
IdentityShort(n, p, i, given) ==
  IF Holder(n, p, i, given) # {} THEN CHOOSE a \in Holder(n, p, i, given) : TRUE
  ELSE Wanted(n, p, i)

Identity(n, p, i, given) ==
  IF Holder(n, p, i, given) # {} THEN CHOOSE a \in Holder(n, p, i, given) : TRUE
  ELSE LET id == Wanted(n, p, i)
       IN  IF id \in Known /\ agents[id].instance # i THEN FirstFree(Suffixed[id]) ELSE id

\* Fault: whoever comes back gets a number again.
NumberAnew(id) == next

\* _allocate_phone_number, for who has none.
Number(id) == IF id \in Known /\ agents[id].number # Unnumbered THEN agents[id].number ELSE next

\* The record id is put down, or taken up again.
Enter(id, n, p, i, listed) ==
  LET number == Number(id)
      also == (IF id \in Known THEN agents[id].aliases ELSE {}) \cup ({n} \ {NoName, id})
      agent == [platform |-> p, instance |-> i, number |-> number,
                bootstrapped |-> TRUE, aliases |-> also, listed |-> listed]
      contract == [platform |-> p, instance |-> i, id |-> id, number |-> number]
  IN  /\ contract \in contracts \/ Cardinality(contracts) < MaxContracts
      /\ agents' = [a \in Known \cup {id} |-> IF a = id THEN agent ELSE agents[a]]
      /\ next' = IF number = next THEN next + 1 ELSE next
      /\ contracts' = contracts \cup {contract}

Bootstrap(n, p, i, given, listed) ==
  \E id \in {Identity(n, p, i, given)} : Enter(id, n, p, i, listed)

\* hub_bootstrap of a client that kept its installation, its own or one that the
\* hub has drawn for it.
HubBootstrap(n, p, i, listed) == Bootstrap(n, p, i, TRUE, listed) /\ UNCHANGED drawn

\* hub_bootstrap of a client without one, on the platform that the server is
\* paired with: such clients are all one participant.
PairedBootstrap(n, d, listed) ==
  /\ Bootstrap(IF n = NoName THEN d.name ELSE n, d.platform, d.instance, TRUE, listed)
  /\ UNCHANGED drawn

\* hub_bootstrap without one elsewhere, and hub_register for any id but the server's own:
\* every such call draws a new installation.
HubRegister(n, p, listed) ==
  \E u \in Uuids \ drawn :
    /\ Bootstrap(n, p, u, FALSE, listed)
    /\ drawn' = drawn \cup {u}

\* _ensure_room_agent: the main server's room announces whom it is open for.
Announce(n) ==
  Bootstrap(n, RoomOf[n].platform, RoomOf[n].instance, TRUE, TRUE) /\ UNCHANGED drawn

\* The id is in the store once it is announced, so session_heartbeat, the call
\* that comes next, only refreshes its presence.
RoomHeartbeat(n) == Announce(n)

\* operator_send and operator_call_contact announce the operator in two ways.
OperatorSends ==
  Bootstrap(Operator, SendsAs.platform, SendsAs.instance, TRUE, TRUE) /\ UNCHANGED drawn

OperatorCalls ==
  Bootstrap(Operator, CallsAs.platform, CallsAs.instance, TRUE, FALSE) /\ UNCHANGED drawn

\* A heartbeat of an id that is not in the store puts it there.
Hear(n) ==
  /\ agents' = [a \in Known \cup {n} |-> IF a \in Known THEN agents[a] ELSE Heard]
  /\ UNCHANGED <<next, drawn, contracts>>

\* hub_heartbeat of the Claude server.
Heartbeat(n) == Hear(n)

\* session_heartbeat as the other room servers call it: an alias admits the
\* caller, and the record is then put down under the alias itself.
SessionHeartbeat(n) == Admitted(n) /\ Hear(n)

-----------------------------------------------------------------------------
DirectoryInit ==
  /\ agents = [a \in {} |-> Heard]
  /\ next = FirstNumber
  /\ drawn = {}
  /\ contracts = {}

DirectoryNext ==
  \/ \E n \in Names \cup {NoName}, p \in Platforms, listed \in Listings :
       \/ \E i \in Instances \cup drawn : HubBootstrap(n, p, i, listed)
       \/ HubRegister(n, p, listed)
       \/ \E d \in Pairings : PairedBootstrap(n, d, listed)
  \/ \E n \in Names : RoomHeartbeat(n) \/ Heartbeat(n) \/ SessionHeartbeat(n)
  \/ OperatorSends
  \/ OperatorCalls

DirectorySpec == DirectoryInit /\ [][DirectoryNext]_directoryVars

-----------------------------------------------------------------------------
(* Properties *)

\* A contract was moved when its installation came back on another platform.
Moved(c) == \E d \in contracts : d.id = c.id /\ d.platform # c.platform

\* Who comes back with the platform and installation of a contract is the same
\* participant, whatever name it asks for and whoever bootstrapped, was put down
\* by a heartbeat or got the same short id since (resume_identity).
ResumesAsItself ==
  \A c \in contracts : ~Moved(c) =>
    \A n \in Names \cup {NoName} : Identity(n, c.platform, c.instance, TRUE) = c.id

\* The number in a contract reaches the holder of the contract and nobody else,
\* for good, and so does every number in the phone book: numbers are neither
\* changed nor given twice, next to records that have none (bootstrap_agent,
\* _allocate_phone_number, directory).
NumberReachesHolder ==
  /\ \A c \in contracts : Dial(c.number) = {c.id} /\ agents[c.id].instance = c.instance
  /\ \A a \in PhoneBook : Dial(agents[a].number) = {a}
=============================================================================
