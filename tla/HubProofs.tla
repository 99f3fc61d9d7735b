----------------------------- MODULE HubProofs ------------------------------
(* Proofs about the three components of the hub, each for itself and for any  *)
(* agents, installations, clients and messages: the directory of agents       *)
(* (AgentDirectory), authentication (AgentAuth) and the message store with    *)
(* its wakes (MessageHub).                                                    *)
EXTENDS AgentDirectory, AgentAuth, MessageHub, TLAPS

-----------------------------------------------------------------------------
(* The directory: an installation that comes back is who it was, and the      *)
(* number in its contract reaches it.  The installations must be kept apart   *)
(* (DirectoryAssumption) and the loop over suffixes must end (SuffixesLast).  *)

\* Numbers are given in order and belong to one record.
NumbersInv ==
  /\ next \in Nat \ {Unnumbered}
  /\ \A a \in Known : agents[a].number \in Nat /\ agents[a].number < next
  /\ \A a, b \in Known :
       agents[a].number = agents[b].number /\ agents[a].number # Unnumbered => a = b
  /\ \A a \in Known : agents[a].bootstrapped => agents[a].number # Unnumbered

\* An address belongs to one record, and none has what was not drawn yet.
AddressesInv ==
  /\ \A a, b \in Known :
       /\ agents[a].platform = agents[b].platform
       /\ agents[a].instance = agents[b].instance
       /\ agents[a].instance # NoInstance
       => a = b
  /\ \A a \in Known : agents[a].instance \notin Uuids \ drawn
  /\ drawn \subseteq Uuids

\* A contract is kept by its record.
Kept(c) ==
  /\ c.id \in Known
  /\ agents[c.id].number = c.number /\ c.number # Unnumbered
  /\ agents[c.id].instance = c.instance /\ c.instance # NoInstance
  /\ agents[c.id].platform = c.platform \/ Moved(c)

DirectoryInv == NumbersInv /\ AddressesInv /\ \A c \in contracts : Kept(c)

-----------------------------------------------------------------------------
(* Whom a caller becomes *)

\* The name with a suffix is free.
LEMMA FreeName ==
  ASSUME SuffixesLast, NEW id \in Known
  PROVE  FirstFree(Suffixed[id]) \notin Known
<1>1. PICK k \in DOMAIN Suffixed[id] :
        Suffixed[id][k] \notin Known /\ \A j \in 1 .. k - 1 : Suffixed[id][j] \in Known
  BY DEF SuffixesLast
<1>2. QED
  BY <1>1 DEF FirstFree

\* A record is taken over only by who has its address or finds it without an
\* installation; whoever has the caller's address is the one it becomes.
LEMMA BecomesItself ==
  ASSUME DirectoryInv, SuffixesLast, NEW n, NEW p, NEW i, NEW given \in BOOLEAN,
         i # NoInstance, ~ given => i \in Uuids \ drawn
  PROVE  LET id == Identity(n, p, i, given)
         IN  /\ id \in Known => agents[id].instance \in {NoInstance, i}
             /\ \A a \in Address(p, i) : a = id
<1> DEFINE id == Identity(n, p, i, given)
           H == Holder(n, p, i, given)
<1>1. \A a, b \in Address(p, i) : a = b
  BY DEF Address, DirectoryInv, AddressesInv
<1>2. ~ given => Address(p, i) = {}
  BY DEF Address, DirectoryInv, AddressesInv
<1>3. H \subseteq Known /\ \A a \in H : agents[a].instance \in {NoInstance, i}
  BY DEF Holder, Address
<1>4. Address(p, i) # {} => H = Address(p, i)
  BY <1>2 DEF Holder
<1>5. CASE H # {}
  <2>1. id \in H
    BY <1>5 DEF Identity
  <2>2. QED
    BY <1>1, <1>3, <1>4, <2>1
<1>6. CASE H = {}
  <2>1. Address(p, i) = {}
    BY <1>4, <1>6
  <2> DEFINE w == Wanted(n, p, i)
  <2>2. id = IF w \in Known /\ agents[w].instance # i THEN FirstFree(Suffixed[w]) ELSE w
    BY <1>6 DEF Identity
  <2>3. id \in Known => agents[id].instance = i
    BY <2>2, FreeName
  <2>4. QED
    BY <2>1, <2>3
<1>7. QED
  BY <1>5, <1>6

-----------------------------------------------------------------------------
(* The steps *)

LEMMA InitDirectory ==
  ASSUME DirectoryAssumption, DirectoryInit
  PROVE  DirectoryInv
<1>1. Known = {} /\ contracts = {} /\ drawn = {}
  BY DEF DirectoryInit, Known
<1>2. next \in Nat \ {Unnumbered}
  BY DEF DirectoryInit, DirectoryAssumption, Unnumbered
<1>3. QED
  BY <1>1, <1>2 DEF DirectoryInv, NumbersInv, AddressesInv

LEMMA BootstrapStep ==
  ASSUME DirectoryInv, SuffixesLast, NEW n, NEW p, NEW i, NEW given \in BOOLEAN, NEW listed,
         i # NoInstance, ~ given => i \in Uuids \ drawn,
         Bootstrap(n, p, i, given, listed),
         i \notin Uuids \ drawn', drawn \subseteq drawn', drawn' \subseteq Uuids
  PROVE  DirectoryInv'
<1> DEFINE id == Identity(n, p, i, given)
           number == Number(id)
           new == [platform |-> p, instance |-> i, id |-> id, number |-> number]
\* What the step does, as far as the invariant looks at it.
<1>1. /\ Known' = Known \cup {id}
      /\ agents'[id].platform = p /\ agents'[id].instance = i /\ agents'[id].number = number
      /\ \A a \in Known \ {id} : agents'[a] = agents[a]
      /\ next' = IF number = next THEN next + 1 ELSE next
      /\ contracts' = contracts \cup {new}
  BY DEF Bootstrap, Enter, Known
<1>2. /\ id \in Known => agents[id].instance \in {NoInstance, i}
      /\ \A a \in Address(p, i) : a = id
  BY BecomesItself
<1>3. \/ id \in Known /\ agents[id].number # Unnumbered /\ number = agents[id].number
      \/ number = next /\ (id \in Known => agents[id].number = Unnumbered)
  BY DEF Number
<1> HIDE DEF id, number
<1>4. next \in Nat \ {Unnumbered}
  BY DEF DirectoryInv, NumbersInv
<1>5. number \in Nat \ {Unnumbered} /\ number < next' /\ next' \in Nat /\ next <= next'
  BY <1>1, <1>3, <1>4 DEF DirectoryInv, NumbersInv, Unnumbered
\* Nobody else has the number.
<1>6. \A a \in Known \ {id} : agents[a].number # number
  BY <1>3, <1>4 DEF DirectoryInv, NumbersInv
<1>7. NumbersInv'
  <2>1. \A a \in Known' : agents'[a].number \in Nat /\ agents'[a].number < next'
    BY <1>1, <1>4, <1>5 DEF DirectoryInv, NumbersInv
  <2>2. \A a, b \in Known' :
          agents'[a].number = agents'[b].number /\ agents'[a].number # Unnumbered => a = b
    BY <1>1, <1>6 DEF DirectoryInv, NumbersInv
  <2>3. \A a \in Known' : agents'[a].bootstrapped => agents'[a].number # Unnumbered
    BY <1>1, <1>5 DEF DirectoryInv, NumbersInv
  <2>4. next' \in Nat \ {Unnumbered}
    BY <1>4, <1>5 DEF Unnumbered
  <2>5. QED
    BY <2>1, <2>2, <2>3, <2>4 DEF NumbersInv, Unnumbered
<1>8. AddressesInv'
  <2>1. \A a \in Known \ {id} : ~ (agents[a].platform = p /\ agents[a].instance = i)
    BY <1>2 DEF Address
  <2>2. QED
    BY <1>1, <2>1 DEF DirectoryInv, AddressesInv
<1>9. \A c \in contracts : Moved(c) => Moved(c)'
  BY <1>1 DEF Moved
<1>10. ASSUME NEW c \in contracts PROVE Kept(c)'
  <2>0. Kept(c)
    BY DEF DirectoryInv
  <2>1. CASE c.id # id
    BY <1>1, <1>9, <2>0, <2>1 DEF Kept
  <2>2. CASE c.id = id
    <3>1. number = c.number /\ i = c.instance /\ c.number # Unnumbered
      BY <1>2, <1>3, <2>0, <2>2 DEF Kept
    <3>2. ASSUME p # c.platform PROVE Moved(c)'
      <4>1. new \in contracts'
        BY <1>1
      <4>2. new.id = c.id /\ new.platform # c.platform
        BY <2>2, <3>2
      <4> HIDE DEF new
      <4>3. QED
        BY <4>1, <4>2 DEF Moved
    <3>3. c.id \in Known' /\ agents'[c.id].number = c.number
          /\ agents'[c.id].instance = c.instance /\ agents'[c.id].platform = p
      BY <1>1, <2>2, <3>1
    <3>4. QED
      BY <3>1, <3>2, <3>3 DEF Kept, Unnumbered
  <2>3. QED
    BY <2>1, <2>2
<1>11. ASSUME NEW c, c = new PROVE Kept(c)'
  <2>1. c.id = id /\ c.number = number /\ c.instance = i /\ c.platform = p
    BY <1>11
  <2>2. QED
    BY <1>1, <1>5, <2>1 DEF Kept, Unnumbered
<1>12. \A c \in contracts' : Kept(c)'
  BY <1>1, <1>10, <1>11
<1>13. QED
  BY <1>7, <1>8, <1>12 DEF DirectoryInv

\* What a heartbeat puts down has no number and no address.
LEMMA HearStep ==
  ASSUME DirectoryAssumption, DirectoryInv, NEW n, Hear(n)
  PROVE  DirectoryInv'
<1>1. /\ Known' = Known \cup {n}
      /\ \A a \in Known : agents'[a] = agents[a]
      /\ \A a \in Known' \ Known :
           /\ agents'[a].number = Unnumbered /\ ~ agents'[a].bootstrapped
           /\ agents'[a].instance = NoInstance
      /\ UNCHANGED <<next, drawn, contracts>>
  BY DEF Hear, Known, Heard
<1>2. NumbersInv'
  BY <1>1 DEF DirectoryInv, NumbersInv, Unnumbered
<1>3. AddressesInv'
  BY <1>1 DEF DirectoryAssumption, DirectoryInv, AddressesInv
<1>4. ASSUME NEW c \in contracts' PROVE Kept(c)'
  <2>1. Kept(c)
    BY <1>1 DEF DirectoryInv
  <2>2. Moved(c) => Moved(c)'
    BY <1>1 DEF Moved
  <2>3. QED
    BY <1>1, <2>1, <2>2 DEF Kept, Unnumbered
<1>5. QED
  BY <1>2, <1>3, <1>4 DEF DirectoryInv

LEMMA NextDirectory ==
  ASSUME DirectoryAssumption, DirectoryInv, SuffixesLast, [DirectoryNext]_directoryVars
  PROVE  DirectoryInv'
<1>1. ASSUME NEW n \in Names \cup {NoName}, NEW p \in Platforms, NEW listed \in Listings,
             NEW i \in Instances \cup drawn, HubBootstrap(n, p, i, listed)
      PROVE  DirectoryInv'
  <2>1. i # NoInstance /\ i \notin Uuids \ drawn /\ drawn \subseteq Uuids
    BY DEF DirectoryAssumption, Given, DirectoryInv, AddressesInv
  <2>2. Bootstrap(n, p, i, TRUE, listed) /\ drawn' = drawn
    BY <1>1 DEF HubBootstrap
  <2>3. QED
    BY <2>1, <2>2, BootstrapStep
<1>8. ASSUME NEW n \in Names \cup {NoName}, NEW listed \in Listings,
              NEW d \in Pairings, PairedBootstrap(n, d, listed)
       PROVE  DirectoryInv'
  <2> DEFINE m == IF n = NoName THEN d.name ELSE n
  <2>1. d.instance # NoInstance /\ d.instance \notin Uuids /\ drawn \subseteq Uuids
    BY DEF DirectoryAssumption, Given, DirectoryInv, AddressesInv
  <2>2. Bootstrap(m, d.platform, d.instance, TRUE, listed) /\ drawn' = drawn
    BY <1>8 DEF PairedBootstrap
  <2> HIDE DEF m
  <2>3. QED
    BY <2>1, <2>2, BootstrapStep
<1>2. ASSUME NEW n \in Names \cup {NoName}, NEW p \in Platforms, NEW listed \in Listings,
             HubRegister(n, p, listed)
      PROVE  DirectoryInv'
  <2>1. PICK u \in Uuids \ drawn :
          Bootstrap(n, p, u, FALSE, listed) /\ drawn' = drawn \cup {u}
    BY <1>2 DEF HubRegister
  <2>2. u # NoInstance /\ drawn \subseteq Uuids
    BY DEF DirectoryAssumption, DirectoryInv, AddressesInv
  <2>3. QED
    BY <2>1, <2>2, BootstrapStep
<1>3. ASSUME NEW n \in Names, Announce(n) PROVE DirectoryInv'
  <2> DEFINE i == RoomOf[n].instance
  <2>1. i # NoInstance /\ i \notin Uuids /\ drawn \subseteq Uuids
    BY DEF DirectoryAssumption, Given, DirectoryInv, AddressesInv
  <2>2. Bootstrap(n, RoomOf[n].platform, i, TRUE, TRUE) /\ drawn' = drawn
    BY <1>3 DEF Announce
  <2>3. QED
    BY <2>1, <2>2, BootstrapStep
<1>4. ASSUME NEW n \in Names, Hear(n) PROVE DirectoryInv'
  BY <1>4, HearStep
<1>5. CASE OperatorSends \/ OperatorCalls
  <2>1. \A i \in {SendsAs.instance, CallsAs.instance} :
          i # NoInstance /\ i \notin Uuids
    BY DEF DirectoryAssumption, Given
  <2>2. drawn \subseteq Uuids
    BY DEF DirectoryInv, AddressesInv
  <2>3. PICK w \in {SendsAs, CallsAs}, listed \in BOOLEAN :
          Bootstrap(Operator, w.platform, w.instance, TRUE, listed) /\ drawn' = drawn
    BY <1>5 DEF OperatorSends, OperatorCalls
  <2>4. QED
    BY <2>1, <2>2, <2>3, BootstrapStep
<1>6. CASE UNCHANGED directoryVars
  BY <1>6 DEF directoryVars, DirectoryInv, NumbersInv, AddressesInv, Known, Kept, Moved
<1>7. QED
  BY <1>1, <1>2, <1>8, <1>3, <1>4, <1>5, <1>6
  DEF DirectoryNext, RoomHeartbeat, Heartbeat, SessionHeartbeat

-----------------------------------------------------------------------------
(* The theorems *)

\* The invariant holds always, if the suffixes last.
THEOREM Invariance ==
  ASSUME DirectoryAssumption
  PROVE  DirectorySpec /\ []SuffixesLast => []DirectoryInv
<1>1. DirectoryInit => DirectoryInv
  BY InitDirectory
<1>2. SuffixesLast /\ DirectoryInv /\ [DirectoryNext]_directoryVars => DirectoryInv'
  BY NextDirectory
<1>3. QED
  BY <1>1, <1>2, PTL DEF DirectorySpec

LEMMA ResumesFromInv ==
  ASSUME DirectoryInv PROVE ResumesAsItself
<1> SUFFICES ASSUME NEW c \in contracts, ~ Moved(c), NEW n \in Names \cup {NoName}
             PROVE  Identity(n, c.platform, c.instance, TRUE) = c.id
  BY DEF ResumesAsItself
<1>1. Address(c.platform, c.instance) = {c.id}
  BY DEF DirectoryInv, AddressesInv, Kept, Address
<1>2. Holder(n, c.platform, c.instance, TRUE) = {c.id}
  BY <1>1 DEF Holder
<1>3. QED
  BY <1>2 DEF Identity

\* Who comes back with the platform and installation of a contract is the same
\* participant, whatever name it asks for (bootstrap_agent).
THEOREM ResumesAsItselfThm ==
  ASSUME DirectoryAssumption
  PROVE  DirectorySpec /\ []SuffixesLast => []ResumesAsItself
<1>1. DirectoryInv => ResumesAsItself
  BY ResumesFromInv
<1>2. QED
  BY <1>1, Invariance, PTL

LEMMA ReachesFromInv ==
  ASSUME DirectoryInv PROVE NumberReachesHolder
<1>1. ASSUME NEW c \in contracts
      PROVE  Dial(c.number) = {c.id} /\ agents[c.id].instance = c.instance
  BY DEF DirectoryInv, NumbersInv, Kept, Dial
<1>2. ASSUME NEW a \in PhoneBook PROVE Dial(agents[a].number) = {a}
  BY DEF DirectoryInv, NumbersInv, Dial, PhoneBook
<1>3. QED
  BY <1>1, <1>2 DEF NumberReachesHolder

\* A number reaches its holder and nobody else, for good
\* (_allocate_phone_number, directory).
THEOREM NumberReachesHolderThm ==
  ASSUME DirectoryAssumption
  PROVE  DirectorySpec /\ []SuffixesLast => []NumberReachesHolder
<1>1. DirectoryInv => NumberReachesHolder
  BY ReachesFromInv
<1>2. QED
  BY <1>1, Invariance, PTL

-----------------------------------------------------------------------------
(* Authentication: the inductive invariant.  The replay store forgets a       *)
(* request only when it is too old for every verification under way, and of   *)
(* several that hold the same request only one burns it.                      *)

\* A number belongs to one installation that is registered; who was revoked
\* stays registered, with an epoch that no token carries.
RegistryInv ==
  /\ \A p \in Principals : reg[p].number # NoNumber => reg[p].known /\ p \in Installations
  /\ \A p, q \in Principals : reg[p].number = reg[q].number /\ reg[p].number # NoNumber => p = q
  /\ \A p \in revoked : reg[p].known /\ reg[p].epoch = 1
  /\ \A a \in acted : reg[a[1]].number = a[2]

TokensInv ==
  /\ \A t \in tokens : t.epoch = 0
  /\ \A c \in Callers : caller[c].phase = "issuing"
                          => caller[c].principal \in Principals /\ caller[c].epoch = 0

\* A request that was burnt is kept in the replay store, with a time at which
\* its timestamp passed, until no verification under way can let it pass.
UsedUp(p, id) ==
  /\ signed[p][id].sent
  /\ \/ seen[p][id] # Never /\ InSkew(seen[p][id], signed[p][id].stamp)
     \/ clock > signed[p][id].stamp + Skew + Stall

\* What is known of a verification between its steps.
UnderWay(k) ==
  k.phase \in {"fresh", "burnt"} =>
    /\ k.principal \in Principals /\ k.id \in Ids
    /\ signed[k.principal][k.id].sent
    /\ InSkew(k.now, signed[k.principal][k.id].stamp)
    /\ k.now <= clock /\ clock <= k.now + Stall

Burnt(k, p, id) == k.phase = "burnt" /\ k.principal = p /\ k.id = id

ReplayInv ==
  /\ \A c \in Callers : UnderWay(caller[c])
  /\ \A p \in Principals, id \in Ids :
       /\ accepted[p][id] \in {0, 1}
       /\ accepted[p][id] = 1 => UsedUp(p, id)
  /\ \A p \in Principals, id \in Ids, c \in Callers : Burnt(caller[c], p, id) =>
       /\ accepted[p][id] = 0
       /\ UsedUp(p, id)
       /\ \A d \in Callers : Burnt(caller[d], p, id) => c = d

AuthInv == AuthTypeOK /\ RegistryInv /\ TokensInv /\ ReplayInv

-----------------------------------------------------------------------------
(* Authentication: types *)

LEMMA AuthInitInv ==
  ASSUME AuthInit
  PROVE  AuthInv
<1> USE AuthAssumption
<1>1. \A c \in Callers : caller[c] = AtRest /\ AtRest \in CallerStates
  BY DEF AuthInit, AtRest, InPhase, CallerStates, Times
<1>2. AuthTypeOK
  <2>1. Unregistered \in Registrations /\ Unsigned \in Signatures
    BY DEF Unregistered, Registrations, Unsigned, Signatures, Claims
  <2>2. QED
    BY <1>1, <2>1 DEF AuthInit, AuthTypeOK, Times
<1>3. RegistryInv
  BY DEF AuthInit, RegistryInv, Unregistered
<1>4. TokensInv
  BY <1>1 DEF AuthInit, TokensInv, AtRest, InPhase
<1>5. ReplayInv
  BY <1>1 DEF AuthInit, ReplayInv, AtRest, InPhase, UnderWay, Burnt
<1>6. QED
  BY <1>2, <1>3, <1>4, <1>5 DEF AuthInv

\* One entry of a table is changed.
LEMMA EntryChanged ==
  ASSUME NEW S, NEW T, NEW V, NEW f \in [S -> [T -> V]], NEW x \in S, NEW y \in T, NEW v \in V
  PROVE  /\ [f EXCEPT ![x][y] = v] \in [S -> [T -> V]]
         /\ \A a \in S, b \in T :
              [f EXCEPT ![x][y] = v][a][b] = IF a = x /\ b = y THEN v ELSE f[a][b]
OBVIOUS

LEMMA TimesAreNaturals ==
  0 \in Times /\ Times \subseteq Nat
BY AuthAssumption DEF Times

\* What a caller is about after a step that begins something.
LEMMA PhaseType ==
  ASSUME NEW phase \in {"idle", "fresh", "burnt", "holding"},
         NEW p \in Principals \cup {NoOne}, NEW id \in Ids \cup {NoOne}, NEW now \in Times
  PROVE  InPhase(phase, p, id, now) \in CallerStates
BY DEF InPhase, CallerStates

LEMMA AuthTypeStep ==
  ASSUME AuthInv, [AuthNext]_authVars
  PROVE  AuthTypeOK'
<1> USE AuthAssumption DEF AuthInv, AuthTypeOK
<1>0. AtRest \in CallerStates
  BY DEF AtRest, InPhase, CallerStates, Times
<1>1. ASSUME NEW p \in Principals, NEW n \in Claims, Register(p, n) PROVE AuthTypeOK'
  BY <1>1 DEF Register, Registrations
<1>2. ASSUME NEW p \in Principals, Revoke(p) PROVE AuthTypeOK'
  BY <1>2 DEF Revoke, Registrations
<1>3. ASSUME NEW p \in Principals, NEW id \in Ids, NEW n \in Claims, NEW stamp \in Stamps,
             Sign(p, id, n, stamp)
      PROVE  AuthTypeOK'
  BY <1>3 DEF Sign, Signatures
<1>4. ASSUME NEW c \in Callers, NEW p \in Principals, IssueRead(c, p) PROVE AuthTypeOK'
  BY <1>4 DEF IssueRead, CallerStates, AtRest, InPhase, Registrations
<1>5. ASSUME NEW c \in Callers, IssueStore(c) PROVE AuthTypeOK'
  <2>1. caller[c].principal \in Principals /\ caller[c].epoch \in {0, 1} /\ caller[c].now \in Nat
    BY <1>5 DEF IssueStore, TokensInv, CallerStates, Times
  <2>2. tokens' \subseteq Tokens
    BY <1>5, <2>1 DEF IssueStore, Tokens
  <2>3. caller' \in [Callers -> CallerStates]
    BY <1>0, <1>5 DEF IssueStore
  <2>4. QED
    BY <1>5, <2>2, <2>3 DEF IssueStore
<1>6. ASSUME NEW c \in Callers, NEW t \in tokens, VerifyToken(c, t) PROVE AuthTypeOK'
  <2>1. t.principal \in Principals
    BY DEF Tokens
  <2>2. QED
    BY <1>6, <2>1, PhaseType, TimesAreNaturals DEF VerifyToken, Holding
<1>7. ASSUME NEW c \in Callers, NEW p \in Principals, NEW id \in Ids, Receive(c, p, id)
      PROVE  AuthTypeOK'
  BY <1>7 DEF Receive, CallerStates, AtRest, InPhase
<1>8. ASSUME NEW c \in Callers, Burn(c) PROVE AuthTypeOK'
  <2> DEFINE p == caller[c].principal  id == caller[c].id  now == caller[c].now
  <2>1. p \in Principals /\ id \in Ids /\ now \in Times
    BY <1>8 DEF Burn, ReplayInv, UnderWay, CallerStates
  <2>2. Pruned(now) \in [Principals -> [Ids -> {Never} \cup Times]]
    BY DEF Pruned
  <2>3. \/ seen' = Pruned(now)
        \/ seen' = [Pruned(now) EXCEPT ![p][id] = now]
    BY <1>8 DEF Burn
  <2> HIDE DEF p, id, now
  <2>4. seen' \in [Principals -> [Ids -> {Never} \cup Times]]
    <3>1. [Pruned(now) EXCEPT ![p][id] = now] \in [Principals -> [Ids -> {Never} \cup Times]]
      BY <2>1, <2>2, EntryChanged
    <3>2. QED
      BY <2>2, <2>3, <3>1
  <2>5. caller' \in [Callers -> CallerStates]
    BY <1>0, <1>8 DEF Burn, CallerStates
  <2>6. QED
    BY <1>8, <2>4, <2>5 DEF Burn
<1>9. ASSUME NEW c \in Callers, Judge(c) PROVE AuthTypeOK'
  <2>1. caller[c].principal \in Principals /\ caller[c].id \in Ids
    BY <1>9 DEF Judge, ReplayInv, UnderWay
  <2> DEFINE p == caller[c].principal  id == caller[c].id
  <2>2. \/ accepted' = [accepted EXCEPT ![p][id] = @ + 1] /\ caller' = Holding(c, p)
        \/ accepted' = accepted /\ caller' = [caller EXCEPT ![c] = AtRest]
    BY <1>9 DEF Judge
  <2>3. p \in Principals /\ id \in Ids
    BY <2>1
  <2> HIDE DEF p, id
  <2>4. accepted' \in [Principals -> [Ids -> Nat]]
    <3>1. accepted[p][id] + 1 \in Nat
      BY <2>3
    <3>2. [accepted EXCEPT ![p][id] = accepted[p][id] + 1] \in [Principals -> [Ids -> Nat]]
      BY <2>3, <3>1, EntryChanged
    <3>3. QED
      BY <2>2, <3>2
  <2>5. caller' \in [Callers -> CallerStates]
    <3>1. InPhase("holding", p, NoOne, 0) \in CallerStates
      BY <2>3, PhaseType, TimesAreNaturals
    <3>2. QED
      BY <1>0, <2>2, <3>1 DEF Holding
  <2>6. QED
    BY <1>9, <2>4, <2>5 DEF Judge
<1>10. ASSUME NEW c \in Callers, NEW n \in Numbers, Act(c, n) PROVE AuthTypeOK'
  <2>1. caller[c].principal \in Principals
    BY <1>10 DEF Act, Subscriber, Principals
  <2>2. QED
    BY <1>0, <1>10, <2>1 DEF Act
<1>11. ASSUME NEW c \in Callers, Drop(c) PROVE AuthTypeOK'
  BY <1>0, <1>11 DEF Drop
<1>12. CASE AuthTick
  BY <1>12 DEF AuthTick, Times
<1>13. CASE UNCHANGED authVars
  BY <1>13 DEF authVars
<1>14. QED
  BY <1>1, <1>2, <1>3, <1>4, <1>5, <1>6, <1>7, <1>8, <1>9, <1>10, <1>11, <1>12, <1>13
  DEF AuthNext, Registry, Calling

-----------------------------------------------------------------------------
(* Authentication: the registry and the tokens *)

\* Nobody but Register and Revoke writes the registry, nobody but Act the
\* history of who acted.
LEMMA RegistryStep ==
  ASSUME AuthInv, [AuthNext]_authVars
  PROVE  RegistryInv'
<1> USE DEF AuthInv, RegistryInv
<1>1. ASSUME NEW p \in Principals, NEW n \in Claims, Register(p, n) PROVE RegistryInv'
  <2>1. /\ ~ reg[p].known /\ UNCHANGED <<revoked, acted>>
        /\ n # NoNumber => p \in Installations /\ \A q \in Principals : ~ (reg[q].known /\ reg[q].number = n)
    BY <1>1 DEF Register, MayBind, Members, IsKnown
  <2>2. /\ reg' \in [Principals -> Registrations]
        /\ reg'[p].known /\ reg'[p].number = n
        /\ \A q \in Principals \ {p} : reg'[q] = reg[q]
    BY <1>1, AuthTypeStep DEF Register, AuthTypeOK
  <2>3. \A q \in Principals : reg[q].number # NoNumber => reg[q].known
    OBVIOUS
  <2>4. \A q \in revoked : q # p
    BY <2>1
  <2>5. \A a \in acted : a[1] \in Principals \ {p}
    BY <2>1, <2>3, AuthAssumption DEF AuthTypeOK
  <2>6. revoked \subseteq Principals
    BY DEF AuthTypeOK
  <2>7. QED
    BY <2>1, <2>2, <2>3, <2>4, <2>5, <2>6
<1>2. ASSUME NEW p \in Principals, Revoke(p) PROVE RegistryInv'
  <2>1. /\ reg[p].known /\ acted' = acted /\ revoked' = revoked \cup {p}
        /\ reg' = [reg EXCEPT ![p].epoch = 1]
    BY <1>2 DEF Revoke, IsKnown
  <2>2. /\ \A q \in Principals : reg'[q].known = reg[q].known /\ reg'[q].number = reg[q].number
        /\ reg'[p].epoch = 1
        /\ \A q \in Principals \ {p} : reg'[q] = reg[q]
    BY <2>1 DEF AuthTypeOK, Registrations
  <2>3. \A a \in acted : a[1] \in Principals
    BY DEF AuthTypeOK
  <2>4. revoked \subseteq Principals
    BY DEF AuthTypeOK
  <2>5. QED
    BY <2>1, <2>2, <2>3, <2>4
<1>3. ASSUME NEW c \in Callers, NEW n \in Numbers, Act(c, n) PROVE RegistryInv'
  <2> DEFINE p == caller[c].principal
  <2>1. /\ reg[p].number = n /\ acted' = acted \cup {<<p, n>>}
        /\ UNCHANGED <<reg, revoked>>
    BY <1>3 DEF Act, Subscriber
  <2> HIDE DEF p
  <2>2. QED
    BY <2>1
<1>4. CASE UNCHANGED <<reg, revoked, acted>>
  BY <1>4
<1>5. QED
  BY <1>1, <1>2, <1>3, <1>4
  DEF AuthNext, Registry, Calling, Sign, IssueRead, IssueStore, VerifyToken, Receive, Burn,
      Judge, Drop, AuthTick, authVars

LEMMA TokensStep ==
  ASSUME AuthInv, [AuthNext]_authVars
  PROVE  TokensInv'
<1> USE DEF AuthInv, TokensInv
<1>1. ASSUME NEW c \in Callers, NEW p \in Principals, IssueRead(c, p) PROVE TokensInv'
  BY <1>1 DEF IssueRead, AuthTypeOK
<1>2. ASSUME NEW c \in Callers, IssueStore(c) PROVE TokensInv'
  BY <1>2 DEF IssueStore, AuthTypeOK, AtRest, InPhase
\* Whoever else moves is not issuing afterwards.
<1>3. ASSUME NEW c \in Callers, tokens' = tokens, caller'[c].phase # "issuing",
             \A d \in Callers \ {c} : caller'[d] = caller[d]
      PROVE  TokensInv'
  BY <1>3
<1>4. ASSUME NEW c \in Callers,
             \/ \E t \in tokens : VerifyToken(c, t)
             \/ \E p \in Principals, id \in Ids : Receive(c, p, id)
             \/ Burn(c) \/ Judge(c) \/ Drop(c)
             \/ \E n \in Numbers : Act(c, n)
      PROVE  /\ tokens' = tokens /\ caller'[c].phase # "issuing"
             /\ \A d \in Callers \ {c} : caller'[d] = caller[d]
  BY <1>4 DEF AuthTypeOK, CallerStates, VerifyToken, Receive, Burn, Judge, Act, Drop, Holding, AtRest, InPhase
<1>5. CASE UNCHANGED <<tokens, caller>>
  BY <1>5
<1>6. QED
  BY <1>1, <1>2, <1>3, <1>4, <1>5
  DEF AuthNext, Registry, Calling, Register, Revoke, Sign, AuthTick, authVars

-----------------------------------------------------------------------------
(* Authentication: the replay store *)

\* The numbers that are compared.
LEMMA AuthNumbers ==
  ASSUME AuthTypeOK
  PROVE  /\ Skew \in Nat /\ Stall \in Nat /\ Window \in Nat /\ Window >= 2 * Skew + Stall
         /\ clock \in Nat
         /\ \A c \in Callers : caller[c].now \in Nat
         /\ \A p \in Principals, id \in Ids :
              /\ signed[p][id].stamp \in Nat
              /\ seen[p][id] # Never => seen[p][id] \in Nat
<1> USE TimesAreNaturals DEF AuthTypeOK
<1>1. /\ Skew \in Nat /\ Stall \in Nat /\ Window \in Nat /\ Window >= 2 * Skew + Stall
      /\ clock \in Nat
  BY AuthAssumption
<1>2. \A c \in Callers : caller[c].now \in Nat
  BY DEF CallerStates
<1>3. ASSUME NEW p \in Principals, NEW id \in Ids
      PROVE  signed[p][id].stamp \in Nat /\ (seen[p][id] # Never => seen[p][id] \in Nat)
  <2>1. signed[p][id] \in Signatures /\ seen[p][id] \in {Never} \cup Times
    OBVIOUS
  <2>2. QED
    BY <2>1 DEF Signatures
<1>4. QED
  BY <1>1, <1>2, <1>3

\* What is forgotten is too old for every verification under way.
LEMMA PrunedKeeps ==
  ASSUME AuthInv, NEW c \in Callers, caller[c].phase = "fresh",
         NEW p \in Principals, NEW id \in Ids, UsedUp(p, id)
  PROVE  \/ /\ Pruned(caller[c].now)[p][id] # Never
            /\ Pruned(caller[c].now)[p][id] = seen[p][id]
            /\ InSkew(seen[p][id], signed[p][id].stamp)
         \/ clock > signed[p][id].stamp + Skew + Stall
<1> DEFINE now == caller[c].now  v == seen[p][id]  s == signed[p][id].stamp
<1>1. Pruned(now)[p][id] = IF v # Never /\ now - v > Window THEN Never ELSE v
  BY DEF Pruned
<1>2. /\ Skew \in Nat /\ Stall \in Nat /\ Window \in Nat /\ Window >= 2 * Skew + Stall
      /\ clock \in Nat /\ now \in Nat /\ s \in Nat
      /\ v # Never => v \in Nat
  BY AuthNumbers DEF AuthInv
<1>3. now <= clock
  BY DEF AuthInv, ReplayInv, UnderWay
<1>4. \/ v # Never /\ v - s <= Skew /\ s - v <= Skew
      \/ clock > s + Skew + Stall
  BY DEF UsedUp, InSkew
<1> HIDE DEF now, v, s
<1>5. CASE clock > s + Skew + Stall
  BY <1>5 DEF s
<1>6. CASE v # Never /\ v - s <= Skew /\ s - v <= Skew /\ now - v > Window
  <2>1. clock > s + Skew + Stall
    BY <1>2, <1>3, <1>6
  <2>2. QED
    BY <2>1 DEF s
<1>7. CASE v # Never /\ v - s <= Skew /\ s - v <= Skew /\ ~ (now - v > Window)
  <2>1. Pruned(now)[p][id] = v
    BY <1>1, <1>7
  <2>2. QED
    BY <1>7, <2>1 DEF InSkew, now, v, s
<1>8. QED
  BY <1>4, <1>5, <1>6, <1>7

\* A request that is used up is found in the store by whoever may still pass it.
LEMMA UsedUpIsSeen ==
  ASSUME AuthInv, NEW c \in Callers, caller[c].phase = "fresh",
         UsedUp(caller[c].principal, caller[c].id)
  PROVE  Seen(Pruned(caller[c].now), caller[c].principal, caller[c].id, caller[c].now)
<1> DEFINE p == caller[c].principal  id == caller[c].id  now == caller[c].now
           v == seen[p][id]  s == signed[p][id].stamp
<1>1. /\ p \in Principals /\ id \in Ids
      /\ now - s <= Skew /\ s - now <= Skew /\ clock <= now + Stall
  BY DEF AuthInv, ReplayInv, UnderWay, InSkew
<1>2. \/ /\ Pruned(now)[p][id] # Never
         /\ Pruned(now)[p][id] = v
         /\ v - s <= Skew /\ s - v <= Skew
      \/ clock > s + Skew + Stall
  BY <1>1, PrunedKeeps DEF InSkew
<1>3. /\ Skew \in Nat /\ Stall \in Nat /\ Window \in Nat /\ Window >= 2 * Skew + Stall
      /\ clock \in Nat /\ now \in Nat /\ s \in Nat
      /\ v # Never => v \in Nat
  BY <1>1, AuthNumbers DEF AuthInv
<1> HIDE DEF p, id, now, v, s
<1>4. ~ (clock > s + Skew + Stall)
  BY <1>1, <1>3
<1>5. Pruned(now)[p][id] # Never /\ now - Pruned(now)[p][id] <= Window
  BY <1>1, <1>2, <1>3, <1>4
<1>6. Seen(Pruned(now), p, id, now)
  BY <1>5 DEF Seen
<1>7. QED
  BY <1>6 DEF p, id, now

LEMMA BurnKeepsReplay ==
  ASSUME AuthInv, AuthTypeOK', NEW c \in Callers, Burn(c)
  PROVE  ReplayInv'
<1>0. PICK p \in Principals, id \in Ids, now \in Times :
        p = caller[c].principal /\ id = caller[c].id /\ now = caller[c].now
  <2>1. caller[c].principal \in Principals /\ caller[c].id \in Ids /\ caller[c].now \in Times
    BY DEF Burn, AuthInv, AuthTypeOK, CallerStates, ReplayInv, UnderWay
  <2>2. QED
    BY <2>1
<1>1. /\ caller[c].phase = "fresh"
      /\ UNCHANGED <<signed, clock, accepted>>
      /\ \/ seen' = Pruned(now) /\ caller' = [caller EXCEPT ![c] = AtRest]
         \/ /\ ~ Seen(Pruned(now), p, id, now)
            /\ seen' = [Pruned(now) EXCEPT ![p][id] = now]
            /\ caller' = [caller EXCEPT ![c].phase = "burnt"]
  BY <1>0 DEF Burn
<1>2. /\ signed[p][id].sent
      /\ InSkew(now, signed[p][id].stamp)
      /\ now <= clock /\ clock <= now + Stall /\ now \in Nat
  BY <1>0, <1>1, AuthNumbers DEF AuthInv, ReplayInv, UnderWay
<1>3. Pruned(now) \in [Principals -> [Ids -> {Never} \cup Times]]
  BY DEF Pruned, AuthInv, AuthTypeOK, CallerStates
<1>4. \A q \in Principals, i \in Ids :
        seen'[q][i] = Pruned(now)[q][i] \/ (q = p /\ i = id /\ seen'[q][i] = now)
  <2> DEFINE store == Pruned(now)
  <2>1. store \in [Principals -> [Ids -> {Never} \cup Times]]
    BY <1>3
  <2>2. seen' = store \/ seen' = [store EXCEPT ![p][id] = now]
    BY <1>1
  <2> HIDE DEF store
  <2>3. \A q \in Principals, i \in Ids : [store EXCEPT ![p][id] = now][q][i]
           = IF q = p /\ i = id THEN now ELSE store[q][i]
    BY <1>2, <1>3, <2>1, EntryChanged
  <2>4. \A q \in Principals, i \in Ids :
          seen'[q][i] = store[q][i] \/ (q = p /\ i = id /\ seen'[q][i] = now)
    BY <2>2, <2>3
  <2>5. QED
    BY <2>4 DEF store
\* What was used up stays so.
<1>5. ASSUME NEW q \in Principals, NEW i \in Ids, UsedUp(q, i) PROVE UsedUp(q, i)'
  <2>1. \/ /\ Pruned(now)[q][i] # Never
           /\ InSkew(Pruned(now)[q][i], signed[q][i].stamp)
        \/ clock > signed[q][i].stamp + Skew + Stall
    BY <1>0, <1>1, <1>5, PrunedKeeps
  <2>2. now # Never
    BY <1>2 DEF Never
  <2>3. signed[q][i].sent
    BY <1>5 DEF UsedUp
  <2>4. QED
    BY <1>1, <1>2, <1>4, <2>1, <2>2, <2>3 DEF UsedUp, InSkew
\* Who goes on is the only one.
<1>6. ASSUME caller'[c].phase = "burnt"
      PROVE  /\ accepted[p][id] = 0
             /\ \A d \in Callers : ~ Burnt(caller[d], p, id)
             /\ UsedUp(p, id)'
  <2>1. /\ ~ Seen(Pruned(now), p, id, now)
        /\ seen' = [Pruned(now) EXCEPT ![p][id] = now]
    BY <1>1, <1>6 DEF AuthInv, AuthTypeOK, AtRest, InPhase
  <2>2. ~ UsedUp(p, id)
    BY <1>0, <1>1, <2>1, UsedUpIsSeen
  <2>3. accepted[p][id] = 0 /\ \A d \in Callers : ~ Burnt(caller[d], p, id)
    BY <1>2, <2>2 DEF AuthInv, ReplayInv
  <2>4. seen'[p][id] = now /\ now # Never
    BY <1>2, <1>3, <2>1, EntryChanged DEF Never
  <2>5. UsedUp(p, id)'
    BY <1>1, <1>2, <2>4 DEF UsedUp, InSkew
  <2>6. QED
    BY <2>3, <2>5
<1>7. /\ \A d \in Callers \ {c} : caller'[d] = caller[d]
      /\ caller'[c].phase \in {"idle", "burnt"}
      /\ caller'[c].phase = "burnt" =>
           /\ caller'[c].principal = p /\ caller'[c].id = id /\ caller'[c].now = now
  BY <1>0, <1>1 DEF AuthInv, AuthTypeOK, CallerStates, AtRest, InPhase
<1>8. \A d \in Callers : UnderWay(caller[d])
  BY DEF AuthInv, ReplayInv
<1>9. \A d \in Callers : UnderWay(caller[d])'
  BY <1>1, <1>2, <1>7, <1>8 DEF UnderWay, InSkew
<1>10. \A q \in Principals, i \in Ids :
         accepted'[q][i] \in {0, 1} /\ (accepted'[q][i] = 1 => UsedUp(q, i)')
  BY <1>1, <1>5 DEF AuthInv, ReplayInv
<1>11. ASSUME NEW q \in Principals, NEW i \in Ids, NEW d \in Callers, Burnt(caller'[d], q, i)
       PROVE  accepted'[q][i] = 0 /\ UsedUp(q, i)' /\ \A e \in Callers : Burnt(caller'[e], q, i) => d = e
  <2>1. CASE d = c
    <3>1. caller'[c].phase = "burnt" /\ q = p /\ i = id
      BY <1>7, <1>11, <2>1 DEF Burnt
    <3>2. \A e \in Callers \ {c} : ~ Burnt(caller'[e], q, i)
      BY <1>6, <1>7, <3>1
    <3>3. QED
      BY <1>1, <1>6, <2>1, <3>1, <3>2
  <2>2. CASE d # c
    <3>1. /\ Burnt(caller[d], q, i) /\ accepted[q][i] = 0 /\ UsedUp(q, i)
          /\ \A e \in Callers : Burnt(caller[e], q, i) => d = e
      BY <1>7, <1>11, <2>2 DEF AuthInv, ReplayInv
    <3>2. ~ Burnt(caller'[c], q, i)
      BY <1>6, <1>7, <3>1 DEF Burnt
    <3>3. QED
      BY <1>1, <1>5, <1>7, <3>1, <3>2
  <2>3. QED
    BY <2>1, <2>2
<1>12. QED
  BY <1>9, <1>10, <1>11 DEF ReplayInv, Burnt

\* A caller goes on with something else, or begins with a request that passed
\* the clock skew.
Begins(k) == k.phase \notin {"fresh", "burnt"} \/ (k.phase = "fresh" /\ UnderWay(k))

LEMMA CallerKeepsReplay ==
  ASSUME AuthInv, UNCHANGED <<signed, seen, clock, accepted>>,
         \A d \in Callers : caller'[d] = caller[d] \/ Begins(caller'[d])
  PROVE  ReplayInv'
<1> USE DEF AuthInv, ReplayInv
<1>1. \A d \in Callers : UnderWay(caller[d])'
  BY DEF UnderWay, Begins
<1>2. \A p \in Principals, id \in Ids : UsedUp(p, id)' = UsedUp(p, id)
  BY DEF UsedUp
<1>3. \A d \in Callers : caller'[d].phase = "burnt" => caller'[d] = caller[d]
  BY DEF Begins
<1>4. \A p \in Principals, id \in Ids :
        accepted'[p][id] \in {0, 1} /\ (accepted'[p][id] = 1 => UsedUp(p, id)')
  BY <1>2
<1>5. ASSUME NEW p \in Principals, NEW id \in Ids, NEW d \in Callers, Burnt(caller'[d], p, id)
      PROVE  /\ accepted'[p][id] = 0 /\ UsedUp(p, id)'
             /\ \A e \in Callers : Burnt(caller'[e], p, id) => d = e
  BY <1>2, <1>3, <1>5 DEF Burnt
<1>6. QED
  BY <1>1, <1>4, <1>5 DEF Burnt

\* Only what was not sent yet gets a signature.
LEMMA SignKeepsReplay ==
  ASSUME AuthInv, NEW p \in Principals, NEW id \in Ids, NEW n \in Claims, NEW stamp \in Stamps,
         Sign(p, id, n, stamp)
  PROVE  ReplayInv'
<1> USE DEF AuthInv, ReplayInv
<1>1. UNCHANGED <<seen, caller, clock, accepted>> /\ ~ signed[p][id].sent
  BY DEF Sign
<1>2. \A q \in Principals, i \in Ids : signed[q][i].sent => signed'[q][i] = signed[q][i]
  BY DEF Sign, AuthTypeOK
<1>3. \A d \in Callers : UnderWay(caller[d])'
  BY <1>1, <1>2 DEF UnderWay
<1>4. \A q \in Principals, i \in Ids : UsedUp(q, i) => UsedUp(q, i)'
  BY <1>1, <1>2 DEF UsedUp
<1>5. QED
  BY <1>1, <1>3, <1>4 DEF Burnt

\* Whoever has burnt the request is the only one, and it was never accepted.
LEMMA JudgeKeepsReplay ==
  ASSUME AuthInv, AuthTypeOK', NEW c \in Callers, Judge(c)
  PROVE  ReplayInv'
<1> USE DEF AuthInv, ReplayInv
<1>1. PICK p \in Principals, id \in Ids : p = caller[c].principal /\ id = caller[c].id
  BY DEF Judge, UnderWay
<1>2. /\ caller[c].phase = "burnt" /\ UNCHANGED <<signed, seen, clock>>
      /\ accepted' = accepted \/ accepted' = [accepted EXCEPT ![p][id] = accepted[p][id] + 1]
      /\ \/ caller' = [caller EXCEPT ![c] = InPhase("holding", p, NoOne, 0)]
         \/ caller' = [caller EXCEPT ![c] = AtRest]
  BY <1>1 DEF Judge, Holding
<1>3. /\ \A d \in Callers \ {c} : caller'[d] = caller[d]
      /\ caller'[c].phase \notin {"fresh", "burnt"}
  BY <1>2 DEF AuthTypeOK, AtRest, InPhase
<1>4. accepted[p][id] = 0 /\ UsedUp(p, id) /\ \A d \in Callers \ {c} : ~ Burnt(caller[d], p, id)
  BY <1>1, <1>2 DEF Burnt
<1>5. \A q \in Principals, i \in Ids :
        accepted'[q][i] = accepted[q][i] \/ (q = p /\ i = id /\ accepted'[q][i] = 1)
  <2>1. \A q \in Principals, i \in Ids : [accepted EXCEPT ![p][id] = 1][q][i]
          = IF q = p /\ i = id THEN 1 ELSE accepted[q][i]
    <3>1. accepted \in [Principals -> [Ids -> Nat]] /\ 1 \in Nat
      BY DEF AuthTypeOK
    <3> HIDE DEF AuthInv, ReplayInv
    <3>2. QED
      BY <3>1, EntryChanged
  <2>2. accepted' = accepted \/ accepted' = [accepted EXCEPT ![p][id] = 1]
    BY <1>2, <1>4
  <2> HIDE DEF AuthInv, ReplayInv
  <2>3. ASSUME NEW q \in Principals, NEW i \in Ids, accepted' = [accepted EXCEPT ![p][id] = 1]
        PROVE  accepted'[q][i] = accepted[q][i] \/ (q = p /\ i = id /\ accepted'[q][i] = 1)
    <3>1. accepted'[q][i] = [accepted EXCEPT ![p][id] = 1][q][i]
      BY <2>3
    <3>2. accepted'[q][i] = IF q = p /\ i = id THEN 1 ELSE accepted[q][i]
      BY <2>1, <3>1, Zenon
    <3>3. QED
      BY <3>2
  <2>4. QED
    BY <2>2, <2>3
<1>6. \A q \in Principals, i \in Ids : UsedUp(q, i)' = UsedUp(q, i)
  BY <1>2 DEF UsedUp
<1>7. \A d \in Callers : UnderWay(caller[d])'
  BY <1>2, <1>3 DEF UnderWay
<1>8. ASSUME NEW q \in Principals, NEW i \in Ids, NEW d \in Callers, Burnt(caller'[d], q, i)
      PROVE  /\ accepted'[q][i] = 0 /\ UsedUp(q, i)'
             /\ \A e \in Callers : Burnt(caller'[e], q, i) => d = e
  <2>1. d # c /\ Burnt(caller[d], q, i)
    BY <1>3, <1>8 DEF Burnt
  <2>2. accepted[q][i] = 0 /\ UsedUp(q, i) /\ \A e \in Callers : Burnt(caller[e], q, i) => d = e
    BY <2>1
  <2>3. ~ (q = p /\ i = id)
    BY <1>4, <2>1
  <2>4. QED
    BY <1>3, <1>5, <1>6, <2>2, <2>3 DEF Burnt
<1>9. \A q \in Principals, i \in Ids :
        accepted'[q][i] \in {0, 1} /\ (accepted'[q][i] = 1 => UsedUp(q, i)')
  BY <1>4, <1>5, <1>6
<1>10. QED
  BY <1>7, <1>8, <1>9 DEF Burnt

LEMMA TickKeepsReplay ==
  ASSUME AuthInv, AuthTick
  PROVE  ReplayInv'
<1> USE DEF AuthInv, ReplayInv
<1>1. /\ clock' = clock + 1 /\ UNCHANGED <<signed, seen, caller, accepted>>
      /\ \A c \in Callers : caller[c].phase \in {"fresh", "burnt"} => clock - caller[c].now < Stall
  BY DEF AuthTick
<1>2. /\ Skew \in Nat /\ Stall \in Nat /\ clock \in Nat
      /\ \A c \in Callers : caller[c].now \in Nat
      /\ \A p \in Principals, id \in Ids : signed[p][id].stamp \in Nat
  BY AuthNumbers
<1>3. \A d \in Callers : UnderWay(caller[d])'
  BY <1>1, <1>2 DEF UnderWay
<1>4. \A p \in Principals, id \in Ids : UsedUp(p, id) => UsedUp(p, id)'
  BY <1>1, <1>2 DEF UsedUp
<1>5. QED
  BY <1>1, <1>3, <1>4 DEF Burnt

LEMMA ReplayStep ==
  ASSUME AuthInv, [AuthNext]_authVars
  PROVE  ReplayInv'
<1>1. AuthTypeOK'
  BY AuthTypeStep
<1>2. ASSUME NEW p \in Principals, (\E n \in Claims : Register(p, n)) \/ Revoke(p) PROVE ReplayInv'
  BY <1>2, CallerKeepsReplay DEF Register, Revoke
<1>3. ASSUME NEW c \in Callers,
             \/ \E p \in Principals : IssueRead(c, p)
             \/ IssueStore(c) \/ Drop(c)
             \/ \E t \in tokens : VerifyToken(c, t)
             \/ \E n \in Numbers : Act(c, n)
      PROVE  ReplayInv'
  <2>1. /\ UNCHANGED <<signed, seen, clock, accepted>>
        /\ \A d \in Callers : caller'[d] = caller[d] \/ Begins(caller'[d])
    BY <1>3 DEF Begins, AuthInv, AuthTypeOK, IssueRead, IssueStore, Drop, VerifyToken, Act, Holding, AtRest, InPhase
  <2>2. QED
    BY <2>1, CallerKeepsReplay
<1>4. ASSUME NEW c \in Callers, NEW p \in Principals, NEW id \in Ids, Receive(c, p, id)
      PROVE  ReplayInv'
  <2>1. /\ UNCHANGED <<signed, seen, clock, accepted>>
        /\ \A d \in Callers \ {c} : caller'[d] = caller[d]
        /\ caller'[c] = InPhase("fresh", p, id, clock)
        /\ signed[p][id].sent /\ InSkew(clock, signed[p][id].stamp)
    BY <1>4 DEF AuthInv, AuthTypeOK, Receive
  <2>2. clock \in Nat /\ Stall \in Nat
    BY AuthNumbers DEF AuthInv
  <2>3. Begins(caller'[c])
    BY <2>1, <2>2 DEF Begins, UnderWay, InPhase
  <2>4. QED
    BY <2>1, <2>3, CallerKeepsReplay
<1>5. CASE UNCHANGED authVars
  BY <1>5, CallerKeepsReplay DEF authVars
<1>6. QED
  BY <1>1, <1>2, <1>3, <1>4, <1>5, SignKeepsReplay, BurnKeepsReplay, JudgeKeepsReplay, TickKeepsReplay
  DEF AuthNext, Registry, Calling

LEMMA AuthInvariant == AuthSpec => []AuthInv
<1>1. AuthInit => AuthInv
  BY AuthInitInv
<1>2. AuthInv /\ [AuthNext]_authVars => AuthInv'
  BY AuthTypeStep, RegistryStep, TokensStep, ReplayStep DEF AuthInv
<1>3. QED
  BY <1>1, <1>2, PTL DEF AuthSpec

\* Authentication (agent_auth.py) keeps its types.
THEOREM AuthTypeCorrect == AuthSpec => []AuthTypeOK
<1>1. AuthInv => AuthTypeOK
  BY DEF AuthInv
<1>2. QED
  BY <1>1, AuthInvariant, PTL

\* verify_signed_request lets a request through at most once, whatever the
\* number of stores and threads, for every skew, window and duration of a
\* verification that the window covers.
THEOREM AcceptedOnceThm == AuthSpec => []AcceptedOnce
<1>1. AuthInv => AcceptedOnce
  BY DEF AuthInv, ReplayInv, AcceptedOnce
<1>2. QED
  BY <1>1, AuthInvariant, PTL

\* Whoever acted as a number (authenticated_collab.py) is, then and later, the
\* only principal bound to it.
THEOREM ActsAsItselfThm == AuthSpec => []ActsAsItself
<1>1. AuthInv => ActsAsItself
  <2>1. SUFFICES ASSUME AuthInv, NEW a \in acted
                 PROVE  a[1] \in Installations /\ Members(a[2]) = {a[1]}
    BY DEF ActsAsItself
  <2>2. a[1] \in Principals /\ reg[a[1]].number = a[2] /\ a[2] # NoNumber
    BY <2>1, AuthAssumption DEF AuthInv, AuthTypeOK, RegistryInv
  <2>3. a[1] \in Installations /\ reg[a[1]].known
    BY <2>1, <2>2 DEF AuthInv, RegistryInv
  <2>4. \A q \in Principals : reg[q].number = a[2] => q = a[1]
    BY <2>1, <2>2 DEF AuthInv, RegistryInv
  <2>5. QED
    BY <2>2, <2>3, <2>4 DEF Members, IsKnown
<1>2. QED
  BY <1>1, AuthInvariant, PTL

\* No step of a verification gives a context to a principal that was revoked.
LEMMA RevokedStep ==
  ASSUME AuthInv, [AuthNext]_authVars, NEW c \in Callers,
         caller[c].phase # "holding", caller'[c].phase = "holding"
  PROVE  caller'[c].principal \notin revoked
<1> USE DEF AuthInv
<1>1. (\E t \in tokens : VerifyToken(c, t)) \/ Judge(c)
  <2>1. ASSUME NEW d \in Callers, Calling(d), d # c PROVE caller'[c] = caller[c]
    BY <2>1 DEF Calling, AuthTypeOK, IssueRead, IssueStore, VerifyToken, Receive, Burn, Judge, Act, Drop, Holding
  <2>2. (\E d \in Callers : Calling(d)) \/ UNCHANGED caller
    BY DEF AuthNext, Registry, Register, Revoke, Sign, AuthTick, authVars
  <2>3. Calling(c)
    BY <2>1, <2>2
  <2>4. QED
    BY <2>3 DEF Calling, AuthTypeOK, CallerStates, IssueRead, IssueStore, Receive, Burn, Act, Drop, AtRest, InPhase
<1>2. ASSUME NEW t \in tokens, VerifyToken(c, t) PROVE caller'[c].principal \notin revoked
  <2>1. caller'[c].principal = t.principal /\ reg[t.principal].epoch = t.epoch /\ t.epoch = 0
    BY <1>2 DEF VerifyToken, AuthTypeOK, Holding, InPhase, TokensInv
  <2>2. QED
    BY <2>1 DEF RegistryInv
<1>3. CASE Judge(c)
  <2>1. caller'[c].principal = caller[c].principal /\ reg[caller[c].principal].epoch = 0
    BY <1>3 DEF Judge, AuthTypeOK, Holding, AtRest, InPhase
  <2>2. QED
    BY <2>1 DEF RegistryInv
<1>4. QED
  BY <1>1, <1>2, <1>3

\* After revoke_principal neither a token nor a signed request of that
\* principal, issued or under way before or after, yields a context.
THEOREM RevokedStaysOutThm == AuthSpec => RevokedStaysOut
<1>1. AuthInv /\ [AuthNext]_authVars
        => [\A c \in Callers :
              caller[c].phase # "holding" /\ caller'[c].phase = "holding"
                => caller'[c].principal \notin revoked]_authVars
  BY RevokedStep
<1>2. QED
  BY <1>1, AuthInvariant, PTL DEF AuthSpec, RevokedStaysOut

-----------------------------------------------------------------------------
(* The message store: the inductive invariant.  What a call has collected in  *)
(* order to silence it was acknowledged by then, and stays so.                *)

\* What was acknowledged holds no claim any more.
ClaimsInv == \A s \in Seqs : msg[s].status = "acked" => msg[s].claimant = NoClient

\* Nothing is known of a message before it is sent.
NumberedInv ==
  /\ \A s \in Seqs : s < next_seq <=> msg[s].status # "none"
  /\ \A s \in Seqs : s >= next_seq => wake[s].keyed = "none" /\ wake[s].replay = "none"
  /\ \A p \in Processes : \A s \in call[p].about : s < next_seq

\* What unlink and sweep are about to silence stays handled, whatever happens
\* before they do.
Handled(s) == msg[s].status \in {"acked", "dropped"}
SilencesInv ==
  \A p \in Processes : call[p].at \in {"unlink", "sweep"} => \A s \in call[p].about : Handled(s)

HubInv == TypeOK /\ ClaimsInv /\ NumberedInv /\ SilencesInv /\ WakeEndsWithMessage

LEMMA HubInitInv ==
  ASSUME Init
  PROVE  HubInv
<1> USE HubAssumption
<1>1. \A p \in Processes : call[p] = Idle /\ Idle \in Calls
  BY DEF Init, Idle, Calls
<1>2. NoMessage \in Messages
  BY DEF NoMessage, Messages
<1>3. TypeOK
  BY <1>1, <1>2 DEF Init, TypeOK, Wakes
<1>4. ClaimsInv /\ SilencesInv /\ NumberedInv
  BY <1>1 DEF Init, ClaimsInv, SilencesInv, NumberedInv, Idle, NoMessage, Seqs
<1>5. WakeEndsWithMessage
  BY DEF Init, WakeEndsWithMessage
<1>6. QED
  BY <1>3, <1>4, <1>5 DEF HubInv

\* What At makes of the calls.
LEMMA AtMoves ==
  ASSUME TypeOK, NEW p \in Processes, NEW about \in SUBSET Seqs,
         NEW place \in {"notify", "unlink", "clean", "sweep", "look", "compare", "ensure"}
  PROVE  /\ At(p, place, about)[p].at = place /\ At(p, place, about)[p].about = about
         /\ \A q \in Processes \ {p} : At(p, place, about)[q] = call[q]
         /\ At(p, place, about) \in [Processes -> Calls]
BY DEF TypeOK, At, Calls

\* A message that is sent.
LEMMA AppendStep ==
  ASSUME HubInv, NEW m \in Messages, m.status \in {"pending", "acked"}, m.claimant = NoClient,
         AppendMessage(m)
  PROVE  /\ msg' \in [Seqs -> Messages] /\ next_seq' \in 1 .. MaxSeq + 1
         /\ next_seq \in Seqs /\ next_seq' = next_seq + 1 /\ next_seq \in Nat
         /\ msg'[next_seq] = m
         /\ \A s \in Seqs \ {next_seq} :
              msg'[s] = msg[s] \/ (msg[s].status # "none" /\ msg'[s].status = "dropped")
<1> USE HubAssumption DEF HubInv, TypeOK
<1>1. /\ next_seq \in Seqs /\ next_seq' = next_seq + 1
      /\ msg' = [s \in Seqs |-> IF s = next_seq THEN m
                            ELSE IF s + MaxMessages <= next_seq THEN Trimmed(msg[s])
                            ELSE msg[s]]
  BY DEF AppendMessage
<1>2. \A s \in Seqs : Trimmed(msg[s]) \in Messages
  BY DEF Trimmed, Messages
<1>3. \A s \in Seqs : Trimmed(msg[s]).status = IF msg[s].status = "none" THEN "none" ELSE "dropped"
  BY DEF Trimmed, Messages
<1>4. msg' \in [Seqs -> Messages]
  BY <1>1, <1>2
<1>5. next_seq' \in 1 .. MaxSeq + 1 /\ next_seq \in Nat
  BY <1>1 DEF Seqs
<1>6. \A s \in Seqs : s + MaxMessages <= next_seq => msg[s].status # "none"
  BY <1>5 DEF NumberedInv, Seqs
<1>7. QED
  BY <1>1, <1>3, <1>4, <1>5, <1>6

-----------------------------------------------------------------------------
(* What a step may do to a message, to its wakes and to a call *)

MessageMoves(s) ==
  \/ msg'[s].status = msg[s].status /\ msg'[s].claimant = msg[s].claimant
  \/ msg[s].status # "none" /\ msg'[s].status = "dropped"
  \/ IsUnread(s) /\ msg'[s].status \in Unread
  \/ msg[s].status # "none" /\ msg'[s].status = "acked" /\ msg'[s].claimant = NoClient
  \/ /\ s = next_seq /\ next_seq' = next_seq + 1
     /\ msg'[s].status \in {"pending", "acked"} /\ msg'[s].claimant = NoClient

WasHushed(s) == "acked" \in {wake[s].keyed, wake[s].replay}

WakeMoves(s) ==
  \/ wake'[s] = wake[s]
  \/ s < next_seq /\ (WasHushed(s)' => WasHushed(s) \/ Handled(s) \/ s \in hushed')

CallMoves(p) ==
  \/ call'[p] = call[p]
  \/ /\ \A s \in call'[p].about : s < next_seq'
     /\ call'[p].at \in {"unlink", "sweep"} => \A s \in call'[p].about : Handled(s)'

Moves ==
  /\ next_seq' \in {next_seq, next_seq + 1}
  /\ next_seq' = next_seq + 1 => \A s \in Seqs : s = next_seq => msg'[s].status # "none"
  /\ hushed \subseteq hushed'
  /\ \A s \in Seqs : MessageMoves(s) /\ WakeMoves(s)
  /\ \A p \in Processes : CallMoves(p)

LEMMA MovesKeep ==
  ASSUME HubInv, TypeOK', Moves
  PROVE  HubInv'
<1> USE DEF HubInv, Moves
<1>1. next_seq \in Nat /\ next_seq' \in Nat /\ Seqs \subseteq Nat
  BY DEF TypeOK, Seqs
<1>2. \A s \in Seqs : s < next_seq <=> msg[s].status # "none"
  BY DEF NumberedInv
<1>3. ASSUME NEW s \in Seqs, Handled(s) PROVE Handled(s)'
  <2>1. s < next_seq /\ s # next_seq
    BY <1>1, <1>2, <1>3 DEF Handled
  <2>2. QED
    BY <1>3, <2>1 DEF MessageMoves, Handled, IsUnread, Unread
<1>4. ClaimsInv'
  <2>1. SUFFICES ASSUME NEW s \in Seqs, msg'[s].status = "acked" PROVE msg'[s].claimant = NoClient
    BY DEF ClaimsInv
  <2>2. QED
    BY <2>1 DEF ClaimsInv, MessageMoves, Unread
<1>5. NumberedInv'
  <2>1. ASSUME NEW s \in Seqs, s >= next_seq'
        PROVE  ~ (s < next_seq') /\ msg'[s].status = "none" /\ wake'[s].keyed = "none" /\ wake'[s].replay = "none"
    <3>1. s >= next_seq /\ ~ (s < next_seq)
      BY <1>1, <2>1
    <3>2. msg[s].status = "none" /\ wake[s].keyed = "none" /\ wake[s].replay = "none"
      BY <3>1 DEF NumberedInv
    <3>3. wake'[s] = wake[s]
      BY <3>1 DEF WakeMoves
    <3>4. ~ (s = next_seq /\ next_seq' = next_seq + 1)
      BY <1>1, <2>1
    <3>5. msg'[s].status = msg[s].status
      BY <3>2, <3>4 DEF MessageMoves, IsUnread, Unread
    <3>6. QED
      BY <1>1, <2>1, <3>2, <3>3, <3>5
  <2>4. ASSUME NEW s \in Seqs, s < next_seq' PROVE msg'[s].status # "none"
    <3>1. CASE s = next_seq
      BY <1>1, <2>4, <3>1
    <3>2. CASE s # next_seq
      <4>1. msg[s].status # "none"
        BY <1>1, <1>2, <2>4, <3>2
      <4>2. QED
        BY <3>2, <4>1 DEF MessageMoves, Unread
    <3>3. QED
      BY <3>1, <3>2
  <2>5. \A s \in Seqs : s < next_seq' \/ s >= next_seq'
    BY <1>1
  <2>2. ASSUME NEW p \in Processes, NEW s \in call'[p].about PROVE s < next_seq'
    <3>1. CASE call'[p] = call[p]
      <4>1. s \in Seqs /\ s < next_seq
        BY <2>2, <3>1 DEF NumberedInv, TypeOK, Calls
      <4>2. QED
        BY <1>1, <4>1
    <3>2. QED
      BY <2>2, <3>1 DEF CallMoves
  <2>3. QED
    BY <2>1, <2>2, <2>4, <2>5 DEF NumberedInv
<1>6. SilencesInv'
  <2>1. SUFFICES ASSUME NEW p \in Processes, call'[p].at \in {"unlink", "sweep"}, NEW s \in call'[p].about
                 PROVE  Handled(s)'
    BY DEF SilencesInv
  <2>2. CASE call'[p] = call[p]
    <3>1. Handled(s) /\ s \in Seqs
      BY <2>1, <2>2 DEF SilencesInv, TypeOK, Calls
    <3>2. QED
      BY <1>3, <3>1
  <2>3. QED
    BY <2>1, <2>2 DEF CallMoves
<1>7. WakeEndsWithMessage'
  <2>1. SUFFICES ASSUME NEW s \in Seqs, WasHushed(s)', IsUnread(s)' PROVE s \in hushed'
    BY DEF WakeEndsWithMessage, WasHushed
  <2>2. ~ Handled(s)'
    BY <2>1 DEF Handled, IsUnread, Unread
  <2>3. ~ Handled(s)
    BY <1>3, <2>2
  <2>4. CASE IsUnread(s)
    <3>1. WasHushed(s) => s \in hushed
      BY <2>4 DEF WakeEndsWithMessage, WasHushed
    <3>2. WasHushed(s) \/ s \in hushed'
      BY <2>1, <2>3 DEF WakeMoves, WasHushed
    <3>3. QED
      BY <3>1, <3>2
  <2>5. CASE ~ IsUnread(s)
    <3>1. msg[s].status = "none"
      BY <2>3, <2>5 DEF Handled, IsUnread, Unread, TypeOK, Messages
    <3>2. s = next_seq
      BY <2>1, <3>1 DEF MessageMoves, IsUnread, Unread
    <3>3. ~ (s < next_seq) /\ s >= next_seq
      BY <1>1, <3>2
    <3>4. wake'[s] = wake[s] /\ wake[s].keyed = "none" /\ wake[s].replay = "none"
      BY <3>3 DEF WakeMoves, NumberedInv
    <3>5. QED
      BY <2>1, <3>4 DEF WasHushed
  <2>6. QED
    BY <2>4, <2>5
<1>8. QED
  BY <1>4, <1>5, <1>6, <1>7

-----------------------------------------------------------------------------
(* The steps of the hub *)

\* Messages and calls of their types, and Moves: what HubInv needs of a step.
HubMoves == TypeOK' /\ Moves

LEMMA SendMoves ==
  ASSUME HubInv, NEW p \in Servers, NEW k \in Kinds, Send(p, k)
  PROVE  HubMoves
<1> USE HubAssumption DEF HubInv
<1>1. p \in Processes
  BY DEF Processes
<1>2. /\ UNCHANGED <<running, wake, hushed, deaths>>
      /\ \/ AppendMessage(Sent(k, IF k.to = Rico THEN "acked" ELSE "pending"))
            /\ call' = (IF k.to = Woken THEN At(p, "notify", {next_seq}) ELSE call)
         \/ UNCHANGED <<msg, next_seq>>
            /\ call' = (IF k.to = Woken THEN At(p, "notify", Duplicates(k)) ELSE call)
  BY DEF Send
<1>3. next_seq \in Nat /\ next_seq' \in Nat /\ Seqs \subseteq Nat
  BY <1>2 DEF TypeOK, Seqs, AppendMessage
<1>4. CASE UNCHANGED <<msg, next_seq>> /\ call' = (IF k.to = Woken THEN At(p, "notify", Duplicates(k)) ELSE call)
  <2>1. Duplicates(k) \subseteq Seqs /\ \A s \in Duplicates(k) : s < next_seq
    BY <1>3 DEF Duplicates, Stored, NumberedInv, Unread
  <2>2. /\ call' \in [Processes -> Calls]
        /\ \A q \in Processes : call'[q] = call[q] \/ (call'[q].at = "notify" /\ call'[q].about = Duplicates(k))
    BY <1>1, <1>4, <2>1, AtMoves DEF TypeOK
  <2>3. \A q \in Processes : CallMoves(q)
    BY <1>4, <2>1, <2>2 DEF CallMoves
  <2>4. QED
    BY <1>2, <1>4, <2>2, <2>3 DEF HubMoves, Moves, TypeOK, MessageMoves, WakeMoves
<1>5. CASE /\ AppendMessage(Sent(k, IF k.to = Rico THEN "acked" ELSE "pending"))
           /\ call' = (IF k.to = Woken THEN At(p, "notify", {next_seq}) ELSE call)
  <2> DEFINE m == Sent(k, IF k.to = Rico THEN "acked" ELSE "pending")
  <2>1. m \in Messages /\ m.status \in {"pending", "acked"} /\ m.claimant = NoClient
    BY DEF Sent, Messages, Unread
  <2> HIDE DEF m
  <2>2. /\ msg' \in [Seqs -> Messages] /\ next_seq' \in 1 .. MaxSeq + 1
        /\ next_seq \in Seqs /\ next_seq' = next_seq + 1 /\ msg'[next_seq] = m
        /\ \A s \in Seqs \ {next_seq} :
              msg'[s] = msg[s] \/ (msg[s].status # "none" /\ msg'[s].status = "dropped")
    BY <1>5, <2>1, AppendStep DEF m
  <2>3. \A s \in Seqs : MessageMoves(s) /\ WakeMoves(s)
    BY <1>2, <2>1, <2>2 DEF MessageMoves, WakeMoves
  <2>4. /\ call' \in [Processes -> Calls]
        /\ \A q \in Processes : call'[q] = call[q] \/ (call'[q].at = "notify" /\ call'[q].about = {next_seq})
    BY <1>1, <1>5, <2>2, AtMoves DEF TypeOK
  <2>5. \A q \in Processes : CallMoves(q)
    BY <1>3, <2>2, <2>4 DEF CallMoves
  <2>6. QED
    BY <1>2, <2>1, <2>2, <2>3, <2>4, <2>5 DEF HubMoves, Moves, TypeOK
<1>6. QED
  BY <1>2, <1>4, <1>5

LEMMA SetControlMoves ==
  ASSUME HubInv, NEW on \in BOOLEAN, SetControl(on)
  PROVE  HubMoves
<1> USE HubAssumption DEF HubInv
<1> DEFINE m == Sent(ControlKind, "acked")
<1>1. m \in Messages /\ m.status \in {"pending", "acked"} /\ m.claimant = NoClient
  BY DEF Sent, Messages
<1>2. AppendMessage(m) /\ running' \in BOOLEAN /\ UNCHANGED <<wake, call, hushed, deaths>>
  BY DEF SetControl
<1> HIDE DEF m
<1>3. /\ msg' \in [Seqs -> Messages] /\ next_seq' \in 1 .. MaxSeq + 1
      /\ next_seq \in Seqs /\ next_seq' = next_seq + 1 /\ msg'[next_seq] = m
      /\ \A s \in Seqs \ {next_seq} :
            msg'[s] = msg[s] \/ (msg[s].status # "none" /\ msg'[s].status = "dropped")
  BY <1>1, <1>2, AppendStep
<1>4. \A s \in Seqs : MessageMoves(s) /\ WakeMoves(s)
  BY <1>1, <1>2, <1>3 DEF MessageMoves, WakeMoves
<1>5. QED
  BY <1>1, <1>2, <1>3, <1>4 DEF HubMoves, Moves, TypeOK, CallMoves

\* The mailbox: each message is left alone, stays unread or is acknowledged.
LEMMA MailboxMoves ==
  ASSUME HubInv, UNCHANGED <<next_seq, wake, hushed>>,
         TypeOK', \A s \in Seqs : MessageMoves(s),
         \A p \in Processes : CallMoves(p)
  PROVE  HubMoves
BY DEF HubInv, TypeOK, HubMoves, Moves, WakeMoves

LEMMA InboxMoves ==
  ASSUME HubInv, NEW c \in Clients, NEW places \in {BOOLEAN, {TRUE}, {FALSE}}, NEW limit \in Limits,
         NEW d \in ClaimSecs, Inbox(c, places, limit, d)
  PROVE  HubMoves
<1> USE HubAssumption DEF HubInv, TypeOK
<1> DEFINE taken == Oldest({s \in Seqs : Claimable(c, s) /\ msg[s].kind.room \in places}, limit)
<1>1. /\ msg' = [s \in Seqs |->
                   IF s \in taken
                   THEN [msg[s] EXCEPT !.status = "claimed", !.claimant = c, !.left = d]
                   ELSE msg[s]]
      /\ UNCHANGED <<next_seq, running, wake, call, hushed, deaths>>
  BY DEF Inbox
<1>2. \A s \in taken : s \in Seqs /\ IsUnread(s)
  BY DEF Claimable, Oldest
<1> HIDE DEF taken
<1>3. msg' \in [Seqs -> Messages]
  <2>1. \A s \in Seqs : [msg[s] EXCEPT !.status = "claimed", !.claimant = c, !.left = d] \in Messages
    BY DEF Messages, Unread
  <2>2. QED
    BY <1>1, <2>1
<1>4. \A s \in Seqs : msg'[s] = msg[s] \/ (IsUnread(s) /\ msg'[s].status = "claimed")
  <2>1. \A s \in Seqs : [msg[s] EXCEPT !.status = "claimed", !.claimant = c, !.left = d].status = "claimed"
    BY DEF Messages
  <2>2. QED
    BY <1>1, <1>2, <2>1
<1>5. QED
  BY <1>1, <1>3, <1>4, MailboxMoves DEF MessageMoves, CallMoves, Unread

LEMMA AckMoves ==
  ASSUME HubInv, NEW p \in Servers, NEW a \in Agents, NEW s \in Seqs, Ack(p, a, s)
  PROVE  HubMoves
<1> USE HubAssumption DEF HubInv
<1>1. /\ Stored(s) /\ msg' = [msg EXCEPT ![s] = Acked(msg[s])]
      /\ call' = (IF p = "server" THEN At(p, "unlink", {s}) ELSE call)
      /\ UNCHANGED <<next_seq, running, wake, hushed, deaths>>
  BY DEF Ack
<1>2. Acked(msg[s]) \in Messages /\ Acked(msg[s]).status = "acked" /\ Acked(msg[s]).claimant = NoClient
  BY DEF Acked, Messages, TypeOK
<1>3. msg[s].status # "none" /\ s < next_seq
  BY DEF NumberedInv, Seqs, TypeOK, Unread, Stored, Ack
<1>4. /\ msg' \in [Seqs -> Messages] /\ msg'[s] = Acked(msg[s])
      /\ \A u \in Seqs \ {s} : msg'[u] = msg[u]
  BY <1>1, <1>2 DEF TypeOK
<1>5. /\ call' \in [Processes -> Calls]
      /\ \A q \in Processes : call'[q] = call[q] \/ (call'[q].at = "unlink" /\ call'[q].about = {s})
  BY <1>1, AtMoves DEF TypeOK, Processes
<1>6. \A q \in Processes : CallMoves(q)
  <2>1. Handled(s)' /\ s < next_seq'
    BY <1>1, <1>2, <1>3, <1>4 DEF Handled
  <2>2. QED
    BY <1>5, <2>1 DEF CallMoves
<1>7. \A u \in Seqs : MessageMoves(u)
  BY <1>2, <1>3, <1>4 DEF MessageMoves
<1>8. TypeOK'
  BY <1>1, <1>4, <1>5 DEF TypeOK
<1>9. QED
  BY <1>1, <1>6, <1>7, <1>8, MailboxMoves

LEMMA ReleaseMoves ==
  ASSUME HubInv, NEW a \in Agents, NEW s \in Seqs, Release(a, s)
  PROVE  HubMoves
<1> USE HubAssumption DEF HubInv, TypeOK
<1>1. /\ Stored(s) /\ msg[s].claimant \in Clients /\ msg' = [msg EXCEPT ![s] = Pending(msg[s])]
      /\ UNCHANGED <<next_seq, running, wake, call, hushed, deaths>>
  BY DEF Release, ClaimedFor
<1>2. IsUnread(s)
  BY <1>1 DEF Stored, ClaimsInv, IsUnread
<1>3. Pending(msg[s]) \in Messages /\ Pending(msg[s]).status = "pending"
  BY DEF Pending, Messages, Unread
<1>4. /\ msg' \in [Seqs -> Messages] /\ msg'[s] = Pending(msg[s])
      /\ \A u \in Seqs \ {s} : msg'[u] = msg[u]
  BY <1>1, <1>3
<1>5. \A u \in Seqs : MessageMoves(u)
  BY <1>2, <1>3, <1>4 DEF MessageMoves, Unread
<1>6. QED
  BY <1>1, <1>4, <1>5, MailboxMoves DEF CallMoves

\* Nothing but wakes and calls move.
LEMMA QuietMoves ==
  ASSUME HubInv, TypeOK', UNCHANGED <<msg, next_seq>>, hushed \subseteq hushed',
         \A s \in Seqs : WakeMoves(s), \A p \in Processes : CallMoves(p)
  PROVE  HubMoves
<1>1. next_seq \in Nat
  BY DEF HubInv, TypeOK
<1>2. QED
  BY <1>1 DEF HubMoves, Moves, MessageMoves

\* emit revives nothing that was acknowledged.
LEMMA EmittedMoves ==
  ASSUME HubInv, NEW s \in Seqs, s < next_seq, UNCHANGED hushed, wake' = Emitted(s)
  PROVE  wake' \in [Seqs -> Wakes] /\ \A u \in Seqs : WakeMoves(u)
<1> USE DEF HubInv, TypeOK
<1>1. wake[s].keyed \in {"none", "live", "acked"}
  BY DEF Wakes
<1>2. Live(wake[s].keyed) \in {"none", "live", "acked"}
      /\ (Live(wake[s].keyed) = "acked" => wake[s].keyed = "acked")
  BY <1>1 DEF Live
<1>3. wake' = [wake EXCEPT ![s] = [wake[s] EXCEPT !.keyed = Live(wake[s].keyed)]]
  BY DEF Emitted
<1>4. wake' \in [Seqs -> Wakes] /\ \A u \in Seqs \ {s} : wake'[u] = wake[u]
  BY <1>2, <1>3 DEF Wakes
<1>5. wake'[s].keyed = Live(wake[s].keyed) /\ wake'[s].replay = wake[s].replay
  BY <1>3 DEF Wakes
<1>6. WasHushed(s)' => WasHushed(s)
  BY <1>2, <1>5 DEF WasHushed
<1>7. QED
  BY <1>4, <1>6 DEF WakeMoves

LEMMA ReplayMoves ==
  ASSUME HubInv, NEW s \in Seqs, s < next_seq, wake' = [wake EXCEPT ![s].replay = "live"]
  PROVE  wake' \in [Seqs -> Wakes] /\ \A u \in Seqs : WakeMoves(u)
<1>1. wake \in [Seqs -> Wakes]
  BY DEF HubInv, TypeOK
<1>2. wake' \in [Seqs -> Wakes] /\ \A u \in Seqs \ {s} : wake'[u] = wake[u]
  BY <1>1 DEF Wakes
<1>3. wake'[s].replay = "live" /\ wake'[s].keyed = wake[s].keyed
  BY <1>1 DEF Wakes
<1>4. WasHushed(s)' => WasHushed(s)
  BY <1>3 DEF WasHushed
<1>5. QED
  BY <1>2, <1>4 DEF WakeMoves

LEMMA QuietedMoves ==
  ASSUME HubInv, NEW about \in SUBSET Seqs, \A s \in about : s < next_seq /\ Handled(s),
         wake' = Quieted(about)
  PROVE  wake' \in [Seqs -> Wakes] /\ \A u \in Seqs : WakeMoves(u)
<1> USE DEF HubInv, TypeOK
<1>1. \A s \in Seqs : [keyed |-> Ended(wake[s].keyed), replay |-> Ended(wake[s].replay)] \in Wakes
  BY DEF Wakes, Ended
<1>2. wake' \in [Seqs -> Wakes] /\ \A u \in Seqs \ about : wake'[u] = wake[u]
  BY <1>1 DEF Quieted
<1>3. QED
  BY <1>2 DEF WakeMoves

\* A process comes to rest, or to a place where it silences nothing.
LEMMA Rests ==
  ASSUME HubInv, NEW p \in Processes, call' = [call EXCEPT ![p] = Idle]
  PROVE  call' \in [Processes -> Calls] /\ \A q \in Processes : CallMoves(q)
<1>1. Idle \in Calls
  BY DEF Idle, Calls
<1>2. call' \in [Processes -> Calls] /\ call'[p] = Idle /\ \A q \in Processes \ {p} : call'[q] = call[q]
  BY <1>1 DEF HubInv, TypeOK
<1>3. CallMoves(p)
  BY <1>2 DEF CallMoves, Idle
<1>4. QED
  BY <1>2, <1>3 DEF CallMoves

LEMMA Calmly ==
  ASSUME HubInv, UNCHANGED next_seq, NEW p \in Processes, NEW about \in SUBSET Seqs,
         \A s \in about : s < next_seq,
         NEW place \in {"notify", "clean", "look", "compare", "ensure"},
         call' = At(p, place, about)
  PROVE  call' \in [Processes -> Calls] /\ \A q \in Processes : CallMoves(q)
<1>1. call' \in [Processes -> Calls] /\ call'[p].at = place /\ call'[p].about = about
      /\ \A q \in Processes \ {p} : call'[q] = call[q]
  BY AtMoves DEF HubInv
<1>2. CallMoves(p)
  BY <1>1 DEF CallMoves
<1>3. QED
  BY <1>1, <1>2 DEF CallMoves

LEMMA GoesMoves ==
  ASSUME HubInv, NEW p \in Processes, Goes(p)
  PROVE  HubMoves
<1> USE HubAssumption DEF HubInv
<1>1. call[p].about \in SUBSET Seqs /\ \A s \in call[p].about : s < next_seq
  BY DEF TypeOK, Calls, NumberedInv
<1>2. UNCHANGED <<msg, next_seq, running, hushed, deaths>>
  BY DEF Goes, Notify, Unlink, Looks, Compares, Ensures
<1>3. CASE Notify(p)
  <2>1. wake' \in [Seqs -> Wakes] /\ \A u \in Seqs : WakeMoves(u)
    BY <1>1, <1>2, <1>3, EmittedMoves DEF Notify
  <2>2. call' \in [Processes -> Calls] /\ \A q \in Processes : CallMoves(q)
    BY <1>3, Rests DEF Notify
  <2>3. QED
    BY <1>2, <2>1, <2>2, QuietMoves DEF TypeOK
<1>4. CASE Unlink(p)
  <2>1. wake' \in [Seqs -> Wakes] /\ \A u \in Seqs : WakeMoves(u)
    BY <1>1, <1>4, QuietedMoves DEF Unlink, SilencesInv
  <2>2. call' \in [Processes -> Calls] /\ \A q \in Processes : CallMoves(q)
    BY <1>4, Rests DEF Unlink
  <2>3. QED
    BY <1>2, <2>1, <2>2, QuietMoves DEF TypeOK
<1>5. CASE Looks(p)
  <2>1. Peeked \in SUBSET Seqs /\ \A s \in Peeked : s < next_seq
    BY DEF Peeked, Oldest, Available, IsUnread, Unread, NumberedInv
  <2>2. call' \in [Processes -> Calls] /\ \A q \in Processes : CallMoves(q)
    BY <1>2, <1>5, <2>1, Calmly DEF Looks
  <2>3. QED
    BY <1>2, <1>5, <2>2, QuietMoves DEF Looks, TypeOK, WakeMoves
<1>6. CASE Compares(p)
  <2>1. call' \in [Processes -> Calls] /\ \A q \in Processes : CallMoves(q)
    BY <1>1, <1>2, <1>6, Calmly DEF Compares
  <2>2. QED
    BY <1>2, <1>6, <2>1, QuietMoves DEF Compares, TypeOK, WakeMoves
<1>7. CASE Ensures(p)
  <2>1. ASSUME NEW s \in call[p].about, wake' = IF p = "sam" THEN Emitted(s) ELSE [wake EXCEPT ![s].replay = "live"]
        PROVE  wake' \in [Seqs -> Wakes] /\ \A u \in Seqs : WakeMoves(u)
    <3>1. CASE p = "sam"
      BY <1>1, <1>2, <2>1, <3>1, EmittedMoves
    <3>2. CASE p # "sam"
      BY <1>1, <1>2, <2>1, <3>2, ReplayMoves
    <3>3. QED
      BY <3>1, <3>2
  <2>2. call' \in [Processes -> Calls] /\ \A q \in Processes : CallMoves(q)
    <3>1. ASSUME NEW s \in call[p].about
          PROVE  call[p].about \ {s} \in SUBSET Seqs /\ \A u \in call[p].about \ {s} : u < next_seq
      BY <1>1
    <3>2. CASE call' = [call EXCEPT ![p] = Idle]
      BY <3>2, Rests
    <3>3. CASE \E s \in call[p].about : call' = At(p, "ensure", call[p].about \ {s})
      BY <1>2, <3>1, <3>3, Calmly
    <3>4. QED
      BY <1>7, <3>2, <3>3 DEF Ensures
  <2>3. wake' \in [Seqs -> Wakes] /\ \A u \in Seqs : WakeMoves(u)
    BY <1>7, <2>1 DEF Ensures, TypeOK, WakeMoves
  <2>4. QED
    BY <1>2, <2>2, <2>3, QuietMoves DEF TypeOK
<1>8. QED
  BY <1>3, <1>4, <1>5, <1>6, <1>7 DEF Goes

\* The cleaning silences what was acknowledged when it read the history.
LEMMA RoomMoves ==
  ASSUME HubInv, Room
  PROVE  HubMoves
<1> USE HubAssumption DEF HubInv
<1>1. "server" \in Processes
  BY DEF Processes
<1>2. CASE OpenRoom
  <2>1. /\ UNCHANGED <<next_seq, running, wake, hushed, deaths>>
        /\ msg' = [s \in Seqs |-> IF IsUnread(s) /\ ClaimedFor(Woken, s) THEN Pending(msg[s]) ELSE msg[s]]
        /\ call' = [call EXCEPT !["server"] = [at |-> "clean", about |-> {}, opening |-> TRUE]]
    BY <1>2 DEF OpenRoom
  <2>2. \A s \in Seqs : Pending(msg[s]) \in Messages /\ Pending(msg[s]).status = "pending"
    BY DEF Pending, Messages, Unread, TypeOK
  <2>3. msg' \in [Seqs -> Messages] /\ \A s \in Seqs : MessageMoves(s)
    BY <2>1, <2>2 DEF TypeOK, MessageMoves, Unread
  <2>4. call' \in [Processes -> Calls] /\ \A q \in Processes : CallMoves(q)
    BY <1>1, <2>1 DEF TypeOK, Calls, CallMoves
  <2>5. QED
    BY <2>1, <2>3, <2>4, MailboxMoves DEF TypeOK
<1>3. CASE CleanRoom
  <2>1. call' \in [Processes -> Calls] /\ \A q \in Processes : CallMoves(q)
    BY <1>1, <1>3, Calmly DEF CleanRoom
  <2>2. QED
    BY <1>3, <2>1, QuietMoves DEF CleanRoom, TypeOK, WakeMoves
<1>4. CASE CleanReads
  <2> DEFINE about == {s \in Seqs : msg[s].kind.room /\ msg[s].status = "acked"}
  <2>1. call' = At("server", "sweep", about) /\ UNCHANGED <<msg, next_seq, running, wake, hushed, deaths>>
    BY <1>4 DEF CleanReads
  <2>2. about \in SUBSET Seqs /\ \A s \in about : s < next_seq /\ Handled(s)'
    BY <2>1 DEF NumberedInv, Handled
  <2> HIDE DEF about
  <2>3. /\ call' \in [Processes -> Calls] /\ call'["server"].about = about
        /\ \A q \in Processes \ {"server"} : call'[q] = call[q]
    BY <1>1, <2>1, <2>2, AtMoves
  <2>4. \A q \in Processes : CallMoves(q)
    BY <2>1, <2>2, <2>3 DEF CallMoves
  <2>5. QED
    BY <2>1, <2>3, <2>4, QuietMoves DEF TypeOK, WakeMoves
<1>5. CASE CleanSweeps
  <2>1. /\ call["server"].at = "sweep" /\ wake' = Quieted(call["server"].about)
        /\ call' \in {At("server", "look", {}), [call EXCEPT !["server"] = Idle]}
        /\ UNCHANGED <<msg, next_seq, running, hushed, deaths>>
    BY <1>5 DEF CleanSweeps
  <2>2. /\ call["server"].about \in SUBSET Seqs
        /\ \A s \in call["server"].about : s < next_seq /\ Handled(s)
    BY <1>1, <2>1 DEF TypeOK, Calls, NumberedInv, SilencesInv
  <2>3. wake' \in [Seqs -> Wakes] /\ \A u \in Seqs : WakeMoves(u)
    BY <2>1, <2>2, QuietedMoves
  <2>4. call' \in [Processes -> Calls] /\ \A q \in Processes : CallMoves(q)
    BY <1>1, <2>1, Calmly, Rests
  <2>5. QED
    BY <2>1, <2>3, <2>4, QuietMoves DEF TypeOK
<1>6. QED
  BY <1>2, <1>3, <1>4, <1>5 DEF Room

LEMMA AckEventMoves ==
  ASSUME HubInv, NEW s \in Seqs, AckEvent(s)
  PROVE  HubMoves
<1> USE DEF HubInv, TypeOK
<1>1. /\ Awake(s) /\ hushed' = hushed \cup {s} /\ UNCHANGED <<msg, next_seq, running, call, deaths>>
      /\ \/ wake' = [wake EXCEPT ![s].keyed = "acked"]
         \/ wake' = [wake EXCEPT ![s].replay = "acked"]
  BY DEF AckEvent
<1>2. wake' \in [Seqs -> Wakes] /\ \A u \in Seqs \ {s} : wake'[u] = wake[u]
  BY <1>1 DEF Wakes
<1>3. s < next_seq
  BY <1>1 DEF Awake, NumberedInv, Seqs
<1>4. \A u \in Seqs : WakeMoves(u)
  BY <1>1, <1>2, <1>3 DEF WakeMoves
<1>5. QED
  BY <1>1, <1>2, <1>4, QuietMoves DEF CallMoves

LEMMA HubStep ==
  ASSUME HubInv, [Next]_vars
  PROVE  HubMoves
<1> USE HubAssumption
<1>1. CASE SamStarts
  <2>1. call' \in [Processes -> Calls] /\ \A q \in Processes : CallMoves(q)
    BY <1>1, Calmly DEF SamStarts, Processes
  <2>2. QED
    BY <1>1, <2>1, QuietMoves DEF SamStarts, HubInv, TypeOK, WakeMoves
<1>2. CASE Tick
  <2> DEFINE older(s) == [msg[s] EXCEPT !.left = IF @ > 0 THEN @ - 1 ELSE 0]
  <2>1. msg' = [s \in Seqs |-> older(s)] /\ UNCHANGED <<next_seq, running, wake, call, hushed, deaths>>
    BY <1>2 DEF Tick
  <2>2. \A s \in Seqs : /\ older(s) \in Messages
                        /\ older(s).status = msg[s].status /\ older(s).claimant = msg[s].claimant
    BY DEF HubInv, TypeOK, Messages
  <2> HIDE DEF older
  <2>3. msg' \in [Seqs -> Messages] /\ \A s \in Seqs : MessageMoves(s)
    BY <2>1, <2>2 DEF MessageMoves
  <2>4. QED
    BY <2>1, <2>3, MailboxMoves DEF HubInv, TypeOK, CallMoves
<1>3. ASSUME NEW p \in Processes, Die(p) PROVE HubMoves
  <2>1. call' \in [Processes -> Calls] /\ \A q \in Processes : CallMoves(q)
    BY <1>3, Rests DEF Die
  <2>2. QED
    BY <1>3, <2>1, QuietMoves DEF Die, HubInv, TypeOK, WakeMoves
<1>4. CASE UNCHANGED vars
  BY <1>4, QuietMoves DEF vars, HubInv, TypeOK, WakeMoves, CallMoves
<1>5. QED
  BY <1>1, <1>2, <1>3, <1>4, SendMoves, SetControlMoves, InboxMoves, AckMoves, ReleaseMoves,
     AckEventMoves, RoomMoves, GoesMoves
  DEF Next, ServerTool, HubTool

LEMMA HubInvariant == Spec => []HubInv
<1>1. Init => HubInv
  BY HubInitInv
<1>2. HubInv /\ [Next]_vars => HubInv'
  BY HubStep, MovesKeep DEF HubMoves
<1>3. QED
  BY <1>1, <1>2, PTL DEF Spec

\* The message store, the wakes and the calls keep their types.
THEOREM HubTypeCorrect == Spec => []TypeOK
<1>1. HubInv => TypeOK
  BY DEF HubInv
<1>2. QED
  BY <1>1, HubInvariant, PTL

\* Whatever dialog_ack and room_cleanup_stale silence, however late, belongs to
\* a message that was acknowledged: an unread one loses a wake only to the
\* model's own ack_event.
THEOREM WakeEndsWithMessageThm == Spec => []WakeEndsWithMessage
<1>1. HubInv => WakeEndsWithMessage
  BY DEF HubInv
<1>2. QED
  BY <1>1, HubInvariant, PTL

\* An acknowledged message never comes back into the mailbox.
THEOREM HandledIsFinalThm == Spec => HandledIsFinal
<1>1. HubInv /\ [Next]_vars
        => [\A s \in Seqs : msg[s].status = "acked" => msg'[s].status \in {"acked", "dropped"}]_vars
  <2>1. SUFFICES ASSUME HubInv, [Next]_vars, NEW s \in Seqs, msg[s].status = "acked"
                 PROVE  msg'[s].status \in {"acked", "dropped"}
    OBVIOUS
  <2>2. MessageMoves(s)
    BY <2>1, HubStep DEF HubMoves, Moves
  <2>3. s < next_seq /\ next_seq \in Nat /\ s \in Nat
    BY <2>1 DEF HubInv, NumberedInv, TypeOK, Seqs
  <2>4. QED
    BY <2>1, <2>2, <2>3 DEF MessageMoves, IsUnread, Unread
<1>2. QED
  BY <1>1, HubInvariant, PTL DEF Spec, HandledIsFinal
=============================================================================
