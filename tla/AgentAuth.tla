----------------------------- MODULE AgentAuth ------------------------------
(* Caller authentication (runtime/agent_auth.py) and the facade that lets an  *)
(* authenticated caller act in the hub (runtime/authenticated_collab.py).     *)
(*                                                                            *)
(* The registry binds a principal to a public number and counts revocations.  *)
(* Several callers (threads, AuthStores over one registry and one replay      *)
(* store) verify at the same time.  A verification takes the time once, at    *)
(* its start, and goes on with it: its check of the clock skew, its burning   *)
(* of the request id and its look at the registry are steps others may come   *)
(* between.  Signatures are modelled by what they prove: only what a          *)
(* principal signed, unaltered, gets past them.                               *)
EXTENDS Integers, FiniteSets

CONSTANTS Installations,  \* principals of type interactive_installation
          Services,       \* principals of every other type
          Numbers,        \* public subscriber numbers
          NoNumber,       \* the empty agent_number
          Ids,            \* request ids
          Callers,        \* verifications going on at a time
          NoOne,          \* no principal
          Skew,           \* ALLOWED_CLOCK_SKEW_SECONDS
          Window,         \* REPLAY_WINDOW_SECONDS
          Stall,          \* the longest a verification takes
          Ttls,           \* ttl_seconds of issued tokens
          Stamps,         \* bound: timestamps that get signed
          MaxTokens,      \* bound: bearer tokens issued
          MaxTime         \* bound: the clock

Principals == Installations \cup Services

\* The constants of the code are 120 and 600 seconds, so a verification may take
\* up to six minutes.
ASSUME AuthAssumption ==
  /\ Installations \cap Services = {}
  /\ NoNumber \notin Numbers
  /\ NoOne \notin Principals
  /\ {Skew, Window, Stall, MaxTime} \subseteq Nat
  /\ Ttls \subseteq Nat /\ Stamps \subseteq Nat /\ MaxTokens \in Nat
  /\ Window >= 2 * Skew + Stall

VARIABLES
  reg,       \* the registry: is the principal known, its number, its epoch
  tokens,    \* issued bearer tokens
  signed,    \* requests that principals signed: number claimed and timestamp
  seen,      \* the replay store: when a request id was burnt
  caller,    \* what each caller is about
  clock,
  accepted,  \* history: how often a signed request was accepted
  revoked,   \* history: principals that were ever revoked
  acted      \* history: who acted in the hub as which number

authVars == <<reg, tokens, signed, seen, caller, clock, accepted, revoked, acted>>

Times == 0 .. MaxTime
Never == -1
Claims == Numbers \cup {NoNumber}

Unregistered == [known |-> FALSE, number |-> NoNumber, epoch |-> 0]
Registrations == [known : BOOLEAN, number : Claims, epoch : {0, 1}]
Tokens == [principal : Principals, epoch : {0, 1}, expires : Nat]
Unsigned == [sent |-> FALSE, claim |-> NoNumber, stamp |-> 0]
Signatures == [sent : BOOLEAN, claim : Claims, stamp : Nat]

\* "issuing" has read the epoch, "fresh" is past signature and skew, "burnt" has
\* burnt the id, "holding" has an AuthContext.
CallerStates == [phase : {"idle", "issuing", "fresh", "burnt", "holding"},
          principal : Principals \cup {NoOne}, id : Ids \cup {NoOne},
          now : Times, epoch : {0, 1}]
InPhase(phase, p, id, now) ==
  [phase |-> phase, principal |-> p, id |-> id, now |-> now, epoch |-> 0]
AtRest == InPhase("idle", NoOne, NoOne, 0)

IsKnown(p) == reg[p].known

\* agent_number_members.
Members(n) == {p \in Principals : IsKnown(p) /\ reg[p].number = n}

-----------------------------------------------------------------------------
(* The registry *)

\* Fault: the number may have another owner already.
MayBindShared(p, n) == p \in Installations \/ n = NoNumber

\* A public number belongs to one installation, other types get none.
MayBind(p, n) ==
  \/ n = NoNumber
  \/ p \in Installations /\ Members(n) = {}

\* Registering again with the same data changes nothing, with other data it is
\* refused.
Register(p, n) ==
  /\ ~ IsKnown(p)
  /\ MayBind(p, n)
  /\ reg' = [reg EXCEPT ![p] = [known |-> TRUE, number |-> n, epoch |-> 0]]
  /\ UNCHANGED <<tokens, signed, seen, caller, clock, accepted, revoked, acted>>

\* Only whether the epoch is 0, and whether it has moved, is ever asked: two
\* values are enough.
Revoke(p) ==
  /\ IsKnown(p)
  /\ reg' = [reg EXCEPT ![p].epoch = 1]
  /\ revoked' = revoked \cup {p}
  /\ UNCHANGED <<tokens, signed, seen, caller, clock, accepted, acted>>

-----------------------------------------------------------------------------
(* Bearer tokens *)

\* issue_bearer_token refuses a revoked principal.
IssueRead(c, p) ==
  /\ caller[c].phase = "idle"
  /\ Cardinality(tokens) < MaxTokens
  /\ IsKnown(p) /\ reg[p].epoch = 0
  /\ caller' = [caller EXCEPT ![c] = [phase |-> "issuing", principal |-> p, id |-> NoOne,
                                      now |-> clock, epoch |-> reg[p].epoch]]
  /\ UNCHANGED <<reg, tokens, signed, seen, clock, accepted, revoked, acted>>

\* Fault: the token is stamped with the epoch of the moment it is stored.
IssueStoreLate(c) ==
  /\ caller[c].phase = "issuing"
  /\ \E ttl \in Ttls :
       tokens' = tokens \cup {[principal |-> caller[c].principal,
                               epoch |-> reg[caller[c].principal].epoch,
                               expires |-> caller[c].now + ttl]}
  /\ caller' = [caller EXCEPT ![c] = AtRest]
  /\ UNCHANGED <<reg, signed, seen, clock, accepted, revoked, acted>>

\* The token carries the epoch that was read before.
IssueStore(c) ==
  /\ caller[c].phase = "issuing"
  /\ \E ttl \in Ttls :
       tokens' = tokens \cup {[principal |-> caller[c].principal, epoch |-> caller[c].epoch,
                               expires |-> caller[c].now + ttl]}
  /\ caller' = [caller EXCEPT ![c] = AtRest]
  /\ UNCHANGED <<reg, signed, seen, clock, accepted, revoked, acted>>

Holding(c, p) ==
  [caller EXCEPT ![c] = InPhase("holding", p, NoOne, 0)]

\* verify_bearer_token.
VerifyToken(c, t) ==
  /\ caller[c].phase = "idle"
  /\ t \in tokens
  /\ clock <= t.expires
  /\ reg[t.principal].epoch = t.epoch
  /\ caller' = Holding(c, t.principal)
  /\ UNCHANGED <<reg, tokens, signed, seen, clock, accepted, revoked, acted>>

-----------------------------------------------------------------------------
(* Signed requests *)

\* A principal signs a request, its clock being right or not; the request is
\* delivered any number of times and at any time from then on.
Sign(p, id, n, stamp) ==
  /\ IsKnown(p)
  /\ ~ signed[p][id].sent
  /\ signed' = [signed EXCEPT ![p][id] = [sent |-> TRUE, claim |-> n, stamp |-> stamp]]
  /\ UNCHANGED <<reg, tokens, seen, caller, clock, accepted, revoked, acted>>

\* verify_signed_request up to the clock skew, whose boundary is inclusive.
InSkew(now, stamp) == now - stamp <= Skew /\ stamp - now <= Skew

Receive(c, p, id) ==
  /\ caller[c].phase = "idle"
  /\ signed[p][id].sent
  /\ InSkew(clock, signed[p][id].stamp)
  /\ caller' = [caller EXCEPT ![c] = InPhase("fresh", p, id, clock)]
  /\ UNCHANGED <<reg, tokens, signed, seen, clock, accepted, revoked, acted>>

\* Fault: what was used at the edge of the skew is already forgotten.
PrunedEarly(now) ==
  [p \in Principals |-> [id \in Ids |->
     IF seen[p][id] # Never /\ now - seen[p][id] > Skew THEN Never ELSE seen[p][id]]]

\* prune.
Pruned(now) ==
  [p \in Principals |-> [id \in Ids |->
     IF seen[p][id] # Never /\ now - seen[p][id] > Window THEN Never ELSE seen[p][id]]]

\* consume_once: check and mark in one critical section.
Seen(store, p, id, now) == store[p][id] # Never /\ now - store[p][id] <= Window

Burn(c) ==
  /\ caller[c].phase = "fresh"
  /\ LET p == caller[c].principal
         id == caller[c].id
         now == caller[c].now
         store == Pruned(now)
     IN IF Seen(store, p, id, now)
        THEN /\ seen' = store
             /\ caller' = [caller EXCEPT ![c] = AtRest]
        ELSE /\ seen' = [store EXCEPT ![p][id] = now]
             /\ caller' = [caller EXCEPT ![c].phase = "burnt"]
  /\ UNCHANGED <<reg, tokens, signed, clock, accepted, revoked, acted>>

\* The number claimed must be the principal's, which was never revoked.  The id
\* stays burnt in any case.
Judge(c) ==
  /\ caller[c].phase = "burnt"
  /\ LET p == caller[c].principal
         id == caller[c].id
     IN IF p \in Members(signed[p][id].claim) /\ reg[p].epoch = 0
        THEN /\ accepted' = [accepted EXCEPT ![p][id] = @ + 1]
             /\ caller' = Holding(c, p)
        ELSE /\ caller' = [caller EXCEPT ![c] = AtRest]
             /\ UNCHANGED accepted
  /\ UNCHANGED <<reg, tokens, signed, seen, clock, revoked, acted>>

-----------------------------------------------------------------------------
(* The facade *)

\* subscriber_number of the context: installations have one, nobody else.
Subscriber(p) == IF p \in Installations THEN reg[p].number ELSE NoNumber

\* send_message, inbox, acknowledge, release and set_project act as the
\* subscriber of the context, and refuse a body that claims another.
Act(c, claimed) ==
  /\ caller[c].phase = "holding"
  /\ Subscriber(caller[c].principal) # NoNumber
  /\ claimed = Subscriber(caller[c].principal)
  /\ acted' = acted \cup {<<caller[c].principal, claimed>>}
  /\ caller' = [caller EXCEPT ![c] = AtRest]
  /\ UNCHANGED <<reg, tokens, signed, seen, clock, accepted, revoked>>

\* The caller is refused, or does nothing with its context.
Drop(c) ==
  /\ caller[c].phase = "holding"
  /\ caller' = [caller EXCEPT ![c] = AtRest]
  /\ UNCHANGED <<reg, tokens, signed, seen, clock, accepted, revoked, acted>>

\* A verification under way is not older than Stall.
AuthTick ==
  /\ clock < MaxTime
  /\ \A c \in Callers : caller[c].phase \in {"fresh", "burnt"} => clock - caller[c].now < Stall
  /\ clock' = clock + 1
  /\ UNCHANGED <<reg, tokens, signed, seen, caller, accepted, revoked, acted>>

-----------------------------------------------------------------------------
AuthInit ==
  /\ reg = [p \in Principals |-> Unregistered]
  /\ tokens = {}
  /\ signed = [p \in Principals |-> [id \in Ids |-> Unsigned]]
  /\ seen = [p \in Principals |-> [id \in Ids |-> Never]]
  /\ caller = [c \in Callers |-> AtRest]
  /\ clock = 0
  /\ accepted = [p \in Principals |-> [id \in Ids |-> 0]]
  /\ revoked = {}
  /\ acted = {}

Registry(p) ==
  \/ \E n \in Claims : Register(p, n)
  \/ Revoke(p)
  \/ \E id \in Ids, n \in Claims, stamp \in Stamps : Sign(p, id, n, stamp)

Calling(c) ==
  \/ \E p \in Principals : IssueRead(c, p)
  \/ IssueStore(c)
  \/ \E t \in tokens : VerifyToken(c, t)
  \/ \E p \in Principals, id \in Ids : Receive(c, p, id)
  \/ Burn(c)
  \/ Judge(c)
  \/ \E n \in Numbers : Act(c, n)
  \/ Drop(c)

AuthNext ==
  \/ \E p \in Principals : Registry(p)
  \/ \E c \in Callers : Calling(c)
  \/ AuthTick

AuthSpec == AuthInit /\ [][AuthNext]_authVars

-----------------------------------------------------------------------------
(* Properties *)

\* Types.
AuthTypeOK ==
  /\ reg \in [Principals -> Registrations]
  /\ tokens \subseteq Tokens
  /\ signed \in [Principals -> [Ids -> Signatures]]
  /\ seen \in [Principals -> [Ids -> {Never} \cup Times]]
  /\ caller \in [Callers -> CallerStates]
  /\ clock \in Times
  /\ accepted \in [Principals -> [Ids -> Nat]]
  /\ revoked \subseteq Principals
  /\ acted \subseteq Principals \X Numbers

\* A signed request is accepted at most once, ever: the replay store forgets it
\* only when its timestamp has become too old for every verification, the slow
\* ones that took the time earlier included.
AcceptedOnce == \A p \in Principals, id \in Ids : accepted[p][id] <= 1

\* A principal that was revoked gets nothing through any more, whatever was
\* issued, registered again or under way before: its tokens and signed requests
\* yield no context.
RevokedStaysOut ==
  [][\A c \in Callers :
       caller[c].phase # "holding" /\ caller'[c].phase = "holding"
         => caller'[c].principal \notin revoked]_authVars

\* Whoever acted as a number is an installation and the only principal bound to
\* it, at that time and ever after.
ActsAsItself ==
  \A a \in acted : a[1] \in Installations /\ Members(a[2]) = {a[1]}
=============================================================================
