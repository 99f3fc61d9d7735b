---------------------------- MODULE RentalProofs -----------------------------
(* Proofs about RentalLeads, for any sources, listings and contacts, and any  *)
(* number of properties and deaths; and about RemoteBrowser, for any number   *)
(* of pages, contents, queued commands and launches.                          *)
(*                                                                            *)
(* Leads: that twins have a cause needs to know that a property whose         *)
(* signature was never altered has the one that its sources said last, so     *)
(* that a source which repeats it changes nothing.  That a job has one draft  *)
(* needs to know what the server is in the middle of: a contact's group is    *)
(* not empty and is in its thread before the job, and the job before the      *)
(* draft.                                                                     *)
(*                                                                            *)
(* Browser: a command that was given up stays queued, so the invariant says   *)
(* what every queued command may still know of the session when it runs, and  *)
(* who has had the session's newest frame.                                    *)
EXTENDS RentalLeads, RemoteBrowser, TLAPS

\* What the sources of a property say is its signature, unless it was altered.
SaidInv ==
  \A s \in Sources :
    /\ source[s].prop = 0 => source[s].sig = NoSig
    /\ source[s].prop \notin altered /\ source[s].sig # NoSig
         => props[source[s].prop].sig = source[s].sig

\* What an enqueue has found out and done so far.
OpInv ==
  /\ op.do = "search" => running > 0
  /\ op.do \in {"thread", "job", "draft", "status"} =>
       \A c \in op.left : op.group[c] # {} /\ op.group[c] \subseteq 1 .. count
  /\ op.do \in {"job", "draft", "status"} => op.contact \in op.left
  /\ op.do = "job" => op.group[op.contact] \subseteq thread[op.contact].props
  /\ op.do = "draft" => job[op.contact] # {} /\ op.contact \notin cut

LeadsInv ==
  /\ TypeOK
  /\ OpInv
  /\ \A c \in cut : job[c] # {}
  /\ SaidInv
  /\ TwinsHaveACause
  /\ OneDraftPerJob
  /\ JobIsThreaded

-----------------------------------------------------------------------------
(* The leads *)

LEMMA SigsOfItems == \A i \in Items : i.sig \in Sigs /\ i.text \in Texts /\ i.fit \in Statuses
                                      /\ i.phones \subseteq Phones
BY LeadsAssumption DEF Sigs, Texts, Statuses

\* A listing makes no twin, and properties are only added.
LEMMA UpsertGood ==
  ASSUME TypeOK, SaidInv, TwinsHaveACause, NEW s \in Sources, NEW i \in Items, Upsert(s, i)
  PROVE  /\ source' \in [Sources -> [prop : 0 .. count', text : Texts, sig : Sigs]]
         /\ props' \in [Props -> [status : Statuses, sig : Sigs, contacts : SUBSET Phones]]
         /\ count' \in 0 .. MaxProps /\ count <= count'
         /\ altered' \subseteq 1 .. count'
         /\ SaidInv' /\ TwinsHaveACause'
<1>1. PICK p \in Target(s, i) :
        LET known == source[s].prop # 0
            sole  == SourcesOf(p) = {s}
            old   == IF p > count THEN NewProp ELSE props[p]
        IN /\ p <= MaxProps
           /\ count' = IF p > count THEN p ELSE count
           /\ props' = [props EXCEPT ![p] =
                [status   |-> i.fit,
                 sig      |-> IF sole \/ i.sig # NoSig THEN i.sig ELSE old.sig,
                 contacts |-> old.contacts \cup i.phones]]
           /\ source' = [source EXCEPT ![s] = [prop |-> p, text |-> i.text, sig |-> i.sig]]
           /\ altered' = IF Alters(s, i, old) THEN altered \cup {p} ELSE altered
  BY DEF Upsert
<1> DEFINE known == source[s].prop # 0
           sole  == SourcesOf(p) = {s}
           old   == IF p > count THEN NewProp ELSE props[p]
           sig   == IF sole \/ i.sig # NoSig THEN i.sig ELSE old.sig
<1>2. count \in Nat /\ MaxProps \in Nat
  BY LeadsAssumption DEF TypeOK
<1>3. p \in 1 .. count \/ p = count + 1
  <2>1. \A r \in Sources : source[r].prop # 0 => source[r].prop \in 1 .. count
    BY <1>2 DEF TypeOK
  <2>2. SameText(i) \subseteq 1 .. count /\ SameSignature(i) \subseteq 1 .. count
    BY <2>1, Zenon DEF SameText, SameSignature
  <2>3. QED
    BY <1>1, <2>1, <2>2 DEF Target
<1>4. p \in Props /\ count' \in 0 .. MaxProps /\ count <= count' /\ p \in 1 .. count'
  <2>1. p <= MaxProps /\ count' = IF p > count THEN p ELSE count
    BY <1>1
  <2>2. p \in Nat /\ 1 <= p
    BY <1>2, <1>3
  <2>3. QED
    BY <1>2, <2>1, <2>2 DEF Props, TypeOK
<1>5. old.sig \in Sigs /\ old.contacts \subseteq Phones
  BY <1>4 DEF NewProp, Sigs, TypeOK
<1>6. sig \in Sigs
  BY <1>5, SigsOfItems
<1> HIDE DEF known, sole, old, sig
<1>7. /\ count' = IF p > count THEN p ELSE count
      /\ props' = [props EXCEPT ![p] =
            [status |-> i.fit, sig |-> sig, contacts |-> old.contacts \cup i.phones]]
      /\ source' = [source EXCEPT ![s] = [prop |-> p, text |-> i.text, sig |-> i.sig]]
      /\ altered' = IF Alters(s, i, old) THEN altered \cup {p} ELSE altered
  BY <1>1 DEF sig, old, sole, known
<1>8. props' \in [Props -> [status : Statuses, sig : Sigs, contacts : SUBSET Phones]]
  BY <1>4, <1>5, <1>6, <1>7, SigsOfItems DEF TypeOK
<1>9. source' \in [Sources -> [prop : 0 .. count', text : Texts, sig : Sigs]]
  <2>1. 0 .. count \subseteq 0 .. count' /\ p \in 0 .. count'
    BY <1>2, <1>4
  <2>2. [prop |-> p, text |-> i.text, sig |-> i.sig] \in [prop : 0 .. count', text : Texts, sig : Sigs]
    BY <2>1, SigsOfItems
  <2>3. QED
    BY <1>7, <2>1, <2>2 DEF TypeOK
<1>10. altered' \subseteq 1 .. count'
  <2>1. altered' \subseteq altered \cup {p} /\ altered \subseteq 1 .. count
    BY <1>7 DEF TypeOK
  <2>2. 1 .. count \subseteq 1 .. count'
    BY <1>2, <1>4
  <2>3. QED
    BY <1>4, <2>1, <2>2
\* What the step does, as far as signatures are concerned.
<1>11. /\ props'[p].sig = sig
       /\ \A v \in 1 .. count' : v # p => v \in 1 .. count /\ props'[v] = props[v]
       /\ source'[s].prop = p /\ source'[s].sig = i.sig
       /\ \A r \in Sources \ {s} : source'[r] = source[r]
       /\ altered \subseteq altered' /\ altered' \subseteq altered \cup {p}
  <2>1. \A v \in 1 .. count' : v # p => v \in 1 .. count
    BY <1>2, <1>3, <1>4, <1>7
  <2>2. 1 .. count \subseteq Props
    BY <1>2 DEF TypeOK, Props
  <2>3. QED
    BY <1>4, <1>7, <2>1, <2>2 DEF TypeOK
\* The property was not altered: either it keeps its signature, or it had none
\* and is given one by a new source, or its only source takes it back.
<1>12. ASSUME p \notin altered'
       PROVE  \/ sig = old.sig
              \/ ~ known /\ old.sig = NoSig /\ sig = i.sig /\ sig # NoSig
              \/ sole /\ sig = NoSig
  <2>1. ~ Alters(s, i, old) /\ p \notin altered
    BY <1>7, <1>12
  <2>2. CASE i.sig = NoSig
    BY <2>2 DEF sig
  <2>3. CASE i.sig # NoSig /\ ~ known
    BY <2>1, <2>3 DEF Alters, known, sig
  <2>4. CASE i.sig # NoSig /\ known
    <3>1. sig = i.sig
      BY <2>4 DEF sig
    <3>2. i.sig = old.sig \/ i.sig = source[s].sig
      BY <2>1, <2>4 DEF Alters, known
    <3>3. source[s].prop = p
      BY <1>1, <2>4 DEF Target, known
    <3>4. p \in 1 .. count
      BY <1>2, <1>3, <2>4, <3>3 DEF TypeOK, known
    <3>5. old = props[p]
      BY <1>2, <3>4 DEF old
    <3>6. i.sig = source[s].sig => props[p].sig = i.sig
      BY <2>1, <2>4, <3>3 DEF SaidInv, known
    <3>7. QED
      BY <3>1, <3>2, <3>5, <3>6
  <2>5. QED
    BY <2>2, <2>3, <2>4
<1>13. SaidInv'
  <2>0. \A r \in Sources : source'[r].prop = 0 => source'[r].sig = NoSig
    BY <1>2, <1>3, <1>11 DEF SaidInv
  <2> SUFFICES ASSUME NEW r \in Sources, source'[r].prop \notin altered', source'[r].sig # NoSig
               PROVE  props'[source'[r].prop].sig = source'[r].sig
    BY <2>0 DEF SaidInv
  <2>1. CASE r = s
    BY <1>11, <2>1 DEF sig
  <2>2. CASE r # s
    <3>1. source'[r] = source[r] /\ source[r].prop \notin altered
      BY <1>11, <2>2
    <3>2. source[r].prop \in 1 .. count /\ props[source[r].prop].sig = source[r].sig
      BY <1>2, <3>1 DEF SaidInv, TypeOK
    <3>3. CASE source[r].prop # p
      <4>1. source[r].prop \in 1 .. count'
        BY <1>2, <1>4, <3>2
      <4>2. QED
        BY <1>11, <3>1, <3>2, <3>3, <4>1
    <3>4. CASE source[r].prop = p
      <4>1. old = props[p] /\ old.sig = source[r].sig /\ old.sig # NoSig
        BY <1>2, <3>1, <3>2, <3>4 DEF old
      <4>2. ~ sole
        BY <2>2, <3>4 DEF sole, SourcesOf
      <4>3. sig = old.sig
        BY <1>12, <3>1, <3>4, <4>1, <4>2
      <4>4. QED
        BY <1>11, <3>1, <3>4, <4>1, <4>3
    <3>5. QED
      BY <3>3, <3>4
  <2>3. QED
    BY <2>1, <2>2
\* Nobody else has the signature that an unaltered property takes on.
<1>14. ASSUME p \notin altered', sig # NoSig, NEW q \in 1 .. count, q # p, props[q].sig = sig
       PROVE  p \in 1 .. count /\ props[p].sig = sig
  <2>1. CASE sig = old.sig
    <3>1. ~ p > count
      BY <1>14, <2>1 DEF old, NewProp
    <3>2. QED
      BY <1>2, <1>3, <2>1, <3>1 DEF old
  <2>2. CASE ~ known /\ sig = i.sig
    <3>1. q \in SameSignature(i)
      BY <1>14, <2>2 DEF SameSignature
    <3>2. p \in SameSignature(i)
      BY <2>2, <3>1 DEF Target, known
    <3>3. QED
      BY <1>14, <2>2, <3>2 DEF SameSignature
  <2>3. QED
    BY <1>12, <1>14, <2>1, <2>2
<1>15. TwinsHaveACause'
  <2> SUFFICES ASSUME NEW q \in 1 .. count', NEW u \in 1 .. count', q # u,
                      props'[q].sig = props'[u].sig, props'[q].sig # NoSig
               PROVE  q \in altered' \/ u \in altered'
    BY DEF TwinsHaveACause
  <2>1. CASE q # p /\ u # p
    BY <1>11, <2>1 DEF TwinsHaveACause
  <2>2. CASE q = p
    BY <1>11, <1>14, <2>2 DEF TwinsHaveACause
  <2>3. CASE u = p
    BY <1>11, <1>14, <2>3 DEF TwinsHaveACause
  <2>4. QED
    BY <2>1, <2>2, <2>3
<1>16. QED
  BY <1>4, <1>8, <1>9, <1>10, <1>13, <1>15

\* A listing adds to the leads and leaves the conversations alone.
LEMMA UpsertKeeps ==
  ASSUME LeadsInv, NEW s \in Sources, NEW i \in Items, Upsert(s, i),
         UNCHANGED <<thread, job, drafts, cut, deaths>>,
         op' \in Ops, running' \in Nat, OpInv',
         op'.do \notin {"job", "draft", "status"}, op.do \notin {"job", "draft", "status"}
  PROVE  LeadsInv'
<1>1. /\ source' \in [Sources -> [prop : 0 .. count', text : Texts, sig : Sigs]]
      /\ props' \in [Props -> [status : Statuses, sig : Sigs, contacts : SUBSET Phones]]
      /\ count' \in 0 .. MaxProps /\ count <= count'
      /\ altered' \subseteq 1 .. count'
      /\ SaidInv' /\ TwinsHaveACause'
  BY UpsertGood DEF LeadsInv
<1>2. 1 .. count \subseteq 1 .. count'
  BY <1>1 DEF LeadsInv, TypeOK
<1>3. TypeOK'
  BY <1>1, <1>2 DEF LeadsInv, TypeOK
<1>4. OneDraftPerJob' /\ JobIsThreaded' /\ \A c \in cut' : job'[c] # {}
  BY DEF LeadsInv, OneDraftPerJob, JobIsThreaded
<1>5. QED
  BY <1>1, <1>3, <1>4 DEF LeadsInv

-----------------------------------------------------------------------------
(* The steps *)

LEMMA LeadsStart == Init => LeadsInv
<1> SUFFICES ASSUME Init PROVE LeadsInv
  OBVIOUS
<1>1. TypeOK
  <2>1. NewProp \in [status : Statuses, sig : Sigs, contacts : SUBSET Phones]
    BY DEF NewProp, Statuses, Sigs
  <2>2. Idle \in Ops /\ 0 \in 0 .. MaxProps /\ 0 \in 0 .. MaxDeaths
    BY LeadsAssumption DEF Ops
  <2>3. count \in 0 .. MaxProps /\ deaths \in 0 .. MaxDeaths
    BY <2>2 DEF Init
  <2>6. source \in [Sources -> [prop : 0 .. count, text : Texts, sig : Sigs]]
    <3>1. 0 \in 0 .. count
      <4>1. count = 0
        BY DEF Init
      <4>2. QED
        BY <4>1
    <3>2. "" \in Texts
      BY Zenon DEF Texts
    <3>3. NoSig \in Sigs
      BY DEF Sigs
    <3>4. QED
      BY <3>1, <3>2, <3>3 DEF Init
  <2>4. /\ props \in [Props -> [status : Statuses, sig : Sigs, contacts : SUBSET Phones]]
        /\ thread \in [Phones -> [props : SUBSET (1 .. count), status : {"none", "draft", "needs_channel"}]]
        /\ job \in [Phones -> SUBSET (1 .. count)]
    BY <2>1 DEF Init
  <2>5. QED
    BY <2>2, <2>3, <2>4, <2>6 DEF Init, TypeOK
<1>2. OpInv /\ OneDraftPerJob /\ JobIsThreaded /\ cut = {}
  BY DEF Init, OpInv, OneDraftPerJob, JobIsThreaded, Idle
<1>5. SaidInv
  BY DEF Init, SaidInv
<1>3. TwinsHaveACause
  <2>1. \A p \in 1 .. count : FALSE
    <3>1. count = 0
      BY DEF Init
    <3>2. QED
      BY <3>1
  <2>2. QED
    BY <2>1 DEF TwinsHaveACause
<1>4. QED
  BY <1>1, <1>2, <1>3, <1>5 DEF LeadsInv

\* A lead is a new property that is known by nothing.
LEMMA CreateLeadStep ==
  ASSUME LeadsInv, NEW s \in Sources, CreateLead(s)
  PROVE  LeadsInv'
<1> USE DEF CreateLead, LeadsInv
<1>1. count' = count + 1 /\ count' \in 0 .. MaxProps /\ count \in Nat /\ count' \in Props
  BY LeadsAssumption DEF TypeOK, Props
<1>2. 1 .. count \subseteq 1 .. count' /\ 0 .. count \subseteq 0 .. count'
  BY <1>1
<1>3. NewProp \in [status : Statuses, sig : Sigs, contacts : SUBSET Phones]
  BY DEF NewProp, Statuses, Sigs
<1>4. source' \in [Sources -> [prop : 0 .. count', text : Texts, sig : Sigs]]
  BY <1>1, <1>2 DEF TypeOK
<1>5. TypeOK'
  BY <1>1, <1>2, <1>3, <1>4 DEF TypeOK
<1>6. TwinsHaveACause'
  <2>1. \A p \in 1 .. count' : p = count' \/ (p \in 1 .. count /\ props'[p] = props[p])
    BY <1>1 DEF TypeOK, Props
  <2>2. props'[count'].sig = NoSig
    BY <1>1 DEF TypeOK, NewProp
  <2>3. QED
    BY <2>1, <2>2 DEF TwinsHaveACause
<1>7. OpInv' /\ OneDraftPerJob' /\ JobIsThreaded' /\ \A c \in cut' : job'[c] # {}
  BY DEF OpInv, OneDraftPerJob, JobIsThreaded, Idle
\* The new source has said nothing.
<1>8. SaidInv'
  <2>1. source[s].sig = NoSig
    BY DEF SaidInv
  <2>2. \A r \in Sources : /\ source'[r].sig = source[r].sig
                           /\ source'[r].prop = IF r = s THEN count' ELSE source[r].prop
    BY DEF TypeOK
  <2>3. \A p \in 1 .. count : props'[p] = props[p]
    BY <1>1 DEF TypeOK, Props
  <2>4. \A r \in Sources : source[r].prop # 0 => source[r].prop \in 1 .. count
    BY DEF TypeOK
  <2>5. QED
    BY <2>1, <2>2, <2>3, <2>4 DEF SaidInv
<1>9. QED
  BY <1>5, <1>6, <1>7, <1>8

LEMMA IngestTextStep ==
  ASSUME LeadsInv, NEW s \in Sources, IngestText(s)
  PROVE  LeadsInv'
<1>1. PICK i \in Items : Upsert(s, i)
  BY DEF IngestText
<1>2. op' = Idle /\ op = Idle /\ UNCHANGED <<thread, job, drafts, running, op, cut, deaths>>
  BY DEF IngestText
<1>3. OpInv' /\ op' \in Ops /\ running' \in Nat
  BY <1>2 DEF OpInv, Idle, LeadsInv, TypeOK
<1>4. QED
  BY <1>1, <1>2, <1>3, UpsertKeeps DEF Idle

LEMMA FoundStep ==
  ASSUME LeadsInv, NEW s \in Sources, Found(s)
  PROVE  LeadsInv'
<1>1. PICK i \in Items : Upsert(s, i)
  BY DEF Found
<1>2. /\ op' = [op EXCEPT !.left = op.left \ {s}] /\ op.do \in {"search", "refresh"}
      /\ UNCHANGED <<thread, job, drafts, running, cut, deaths>>
  BY DEF Found
<1>3. op \in [do : {"search", "refresh"}, left : SUBSET Sources]
  BY <1>2 DEF LeadsInv, TypeOK, Ops, Idle
<1>4. op' \in [do : {"search", "refresh"}, left : SUBSET Sources] /\ op'.do = op.do
  BY <1>2, <1>3
<1>5. OpInv' /\ op' \in Ops /\ running' \in Nat
  BY <1>2, <1>4 DEF OpInv, Ops, LeadsInv, TypeOK
<1>6. QED
  BY <1>1, <1>2, <1>4, <1>5, UpsertKeeps

\* The rest of the scout keeps to its own affairs.
LEMMA ScoutStep ==
  ASSUME LeadsInv,
         \/ \E ss \in SUBSET Sources : BeginSearch(ss)
         \/ \E p \in 1 .. count : BeginRefresh(p)
         \/ \E s \in Sources : NotFound(s)
         \/ EndScout
  PROVE  LeadsInv'
<1>1. UNCHANGED <<source, props, count, thread, job, drafts, altered, cut, deaths>>
  BY DEF BeginSearch, BeginRefresh, NotFound, EndScout
<1> DEFINE Scouting ==
      /\ op.do \in {"idle", "search", "refresh"} /\ op'.do \in {"idle", "search", "refresh"}
      /\ op' \in Ops /\ running' \in Nat /\ (op'.do = "search" => running' > 0)
<1>2. Scouting
  <2>1. ASSUME NEW ss \in SUBSET Sources, BeginSearch(ss) PROVE Scouting
    BY <2>1 DEF BeginSearch, Ops, Idle, LeadsInv, TypeOK
  <2>2. ASSUME NEW p \in 1 .. count, BeginRefresh(p) PROVE Scouting
    BY <2>2 DEF BeginRefresh, Ops, Idle, LeadsInv, TypeOK, SourcesOf
  <2>3. ASSUME NEW s \in Sources, NotFound(s) PROVE Scouting
    <3>1. op' = [op EXCEPT !.left = op.left \ {s}] /\ op.do \in {"search", "refresh"}
      BY <2>3 DEF NotFound
    <3>2. op \in [do : {"search", "refresh"}, left : SUBSET Sources]
      BY <3>1 DEF LeadsInv, TypeOK, Ops, Idle
    <3>3. op' \in [do : {"search", "refresh"}, left : SUBSET Sources] /\ op'.do = op.do
      BY <3>1, <3>2
    <3>4. QED
      BY <2>3, <3>2, <3>3 DEF NotFound, Ops, LeadsInv, TypeOK, OpInv
  <2>4. ASSUME EndScout PROVE Scouting
    BY <2>4 DEF EndScout, Ops, Idle, LeadsInv, TypeOK, OpInv
  <2>5. QED
    BY <2>1, <2>2, <2>3, <2>4
<1>3. QED
  BY <1>1, <1>2 DEF LeadsInv, TypeOK, OpInv, SaidInv, TwinsHaveACause, OneDraftPerJob, JobIsThreaded

\* What an enqueue does to its contact's conversation keeps to the order.
LEMMA BeginEnqueueStep ==
  ASSUME LeadsInv, NEW ps \in SUBSET (1 .. count), BeginEnqueue(ps)
  PROVE  LeadsInv'
<1> DEFINE group == [c \in Phones |-> Group(ps, c)]
           planned == {c \in Phones : group[c] # {}}
<1>1. /\ op = Idle /\ op' = [do |-> "thread", left |-> planned, group |-> group]
      /\ UNCHANGED <<source, props, count, thread, job, drafts, running, altered, cut, deaths>>
  BY DEF BeginEnqueue
<1>2. \A c \in Phones : group[c] \subseteq 1 .. count
  BY DEF Group
<1>3. group \in Plans
  BY <1>2, LeadsAssumption DEF Plans, Props, LeadsInv, TypeOK
<1>4. \A c \in planned : group[c] # {} /\ group[c] \subseteq 1 .. count
  BY <1>2
<1>5. planned \subseteq Phones
  OBVIOUS
<1> HIDE DEF group, planned
<1>6. op' \in Ops /\ op'.do = "thread" /\ op.do = "idle" /\ op'.left = planned /\ op'.group = group
  BY <1>1, <1>3, <1>5 DEF Ops, Idle
<1>7. QED
  BY <1>1, <1>4, <1>6 DEF LeadsInv, TypeOK, OpInv, SaidInv, TwinsHaveACause, OneDraftPerJob, JobIsThreaded

\* A thread gets the contact's group before the contact gets a job.
LEMMA ThreadStep ==
  ASSUME LeadsInv, NEW c \in Phones, Thread(c)
  PROVE  LeadsInv'
<1>1. /\ op.do = "thread" /\ c \in op.left
      /\ thread' = [thread EXCEPT ![c] =
           [props  |-> thread[c].props \cup op.group[c],
            status |-> IF thread[c].status = "none" THEN "draft" ELSE thread[c].status]]
      /\ op' = [do |-> "job", left |-> op.left, group |-> op.group, contact |-> c]
      /\ UNCHANGED <<source, props, count, job, drafts, running, altered, cut, deaths>>
  BY DEF Thread
<1>2. op \in [do : {"thread"}, left : SUBSET Phones, group : Plans]
  BY <1>1 DEF LeadsInv, TypeOK, Ops, Idle
<1>3. op.group[c] # {} /\ op.group[c] \subseteq 1 .. count
  BY <1>1 DEF LeadsInv, OpInv
<1>4. thread' \in [Phones -> [props : SUBSET (1 .. count), status : {"none", "draft", "needs_channel"}]]
  BY <1>1, <1>3 DEF LeadsInv, TypeOK
<1>5. /\ op' \in Ops /\ op'.do = "job" /\ op'.contact = c /\ op'.left = op.left
      /\ op'.group = op.group
  BY <1>1, <1>2 DEF Ops
<1>6. TypeOK' /\ SaidInv' /\ TwinsHaveACause'
  BY <1>1, <1>4, <1>5 DEF LeadsInv, TypeOK, SaidInv, TwinsHaveACause
<1>7. op.group[c] \subseteq thread'[c].props /\ \A d \in Phones : thread[d].props \subseteq thread'[d].props
  BY <1>1 DEF LeadsInv, TypeOK
<1>8. OpInv'
  BY <1>1, <1>5, <1>7 DEF LeadsInv, OpInv
<1>9. OneDraftPerJob' /\ JobIsThreaded' /\ \A d \in cut' : job'[d] # {}
  BY <1>1, <1>5, <1>7 DEF LeadsInv, OneDraftPerJob, JobIsThreaded
<1>10. QED
  BY <1>6, <1>8, <1>9 DEF LeadsInv

\* What stays the same while an enqueue is at one of its contacts.
LEMMA AtContact ==
  ASSUME LeadsInv, op.do \in {"job", "draft", "status"}
  PROVE  /\ op \in [do : {"job", "draft", "status"}, left : SUBSET Phones, group : Plans,
                    contact : Phones]
         /\ op.contact \in op.left
         /\ \A c \in op.left : op.group[c] # {} /\ op.group[c] \subseteq 1 .. count
BY DEF LeadsInv, TypeOK, Ops, Idle, OpInv

\* A job that is new speaks of the group, which is threaded, and has no draft.
LEMMA JobStep ==
  ASSUME LeadsInv, Job
  PROVE  LeadsInv'
<1> DEFINE c == op.contact
<1>1. /\ op.do = "job"
      /\ job' = IF job[c] # {} THEN job ELSE [job EXCEPT ![c] = op.group[c]]
      /\ op' = [op EXCEPT !.do = IF job[c] # {} THEN "status" ELSE "draft"]
      /\ UNCHANGED <<source, props, count, thread, drafts, running, altered, cut, deaths>>
  BY DEF Job
<1>2. /\ op \in [do : {"job", "draft", "status"}, left : SUBSET Phones, group : Plans,
                 contact : Phones]
      /\ c \in op.left /\ c \in Phones
      /\ \A d \in op.left : op.group[d] # {} /\ op.group[d] \subseteq 1 .. count
  BY <1>1, AtContact
<1>3. /\ op' \in Ops /\ op'.left = op.left /\ op'.group = op.group /\ op'.contact = c
      /\ op'.do = IF job[c] # {} THEN "status" ELSE "draft"
  BY <1>1, <1>2 DEF Ops
<1>4. job' \in [Phones -> SUBSET (1 .. count)] /\ job'[c] # {}
      /\ \A d \in Phones \ {c} : job'[d] = job[d]
  BY <1>1, <1>2 DEF LeadsInv, TypeOK
<1>5. TypeOK' /\ SaidInv' /\ TwinsHaveACause'
  BY <1>1, <1>3, <1>4 DEF LeadsInv, TypeOK, SaidInv, TwinsHaveACause
<1>6. job[c] = {} => c \notin cut
  BY DEF LeadsInv
<1>7. OpInv'
  BY <1>1, <1>2, <1>3, <1>4, <1>6 DEF OpInv
<1>8. JobIsThreaded'
  BY <1>1, <1>2, <1>4 DEF LeadsInv, OpInv, JobIsThreaded
<1>9. OneDraftPerJob'
  <2>1. CASE job[c] # {}
    BY <1>1, <1>3, <2>1 DEF LeadsInv, OneDraftPerJob
  <2>2. CASE job[c] = {}
    BY <1>1, <1>3, <1>4, <2>2 DEF LeadsInv, OneDraftPerJob
  <2>3. QED
    BY <2>1, <2>2
<1>10. \A d \in cut' : job'[d] # {}
  BY <1>1, <1>4 DEF LeadsInv, TypeOK
<1>11. QED
  BY <1>5, <1>7, <1>8, <1>9, <1>10 DEF LeadsInv

\* The one draft.
LEMMA DraftStep ==
  ASSUME LeadsInv, Draft
  PROVE  LeadsInv'
<1> DEFINE c == op.contact
<1>1. /\ op.do = "draft"
      /\ drafts' = [drafts EXCEPT ![c] = drafts[c] + 1]
      /\ op' = [op EXCEPT !.do = "status"]
      /\ UNCHANGED <<source, props, count, thread, job, running, altered, cut, deaths>>
  BY DEF Draft
<1>2. /\ op \in [do : {"job", "draft", "status"}, left : SUBSET Phones, group : Plans,
                 contact : Phones]
      /\ c \in op.left /\ c \in Phones
      /\ \A d \in op.left : op.group[d] # {} /\ op.group[d] \subseteq 1 .. count
  BY <1>1, AtContact
<1>3. /\ op' \in Ops /\ op'.left = op.left /\ op'.group = op.group /\ op'.contact = c
      /\ op'.do = "status"
  BY <1>1, <1>2 DEF Ops
<1>4. TypeOK' /\ SaidInv' /\ TwinsHaveACause'
  BY <1>1, <1>2, <1>3 DEF LeadsInv, TypeOK, SaidInv, TwinsHaveACause
<1>5. OpInv' /\ JobIsThreaded' /\ \A d \in cut' : job'[d] # {}
  BY <1>1, <1>2, <1>3 DEF LeadsInv, OpInv, JobIsThreaded
<1>6. OneDraftPerJob'
  <2>1. job[c] # {} /\ c \notin cut /\ drafts[c] = 0
    BY <1>1, <1>2 DEF LeadsInv, OpInv, OneDraftPerJob
  <2>2. drafts'[c] = 1 /\ \A d \in Phones \ {c} : drafts'[d] = drafts[d]
    BY <1>1, <1>2, <2>1 DEF LeadsInv, TypeOK
  <2>3. QED
    BY <1>1, <1>3, <2>1, <2>2 DEF LeadsInv, OneDraftPerJob
<1>7. QED
  BY <1>4, <1>5, <1>6 DEF LeadsInv

\* On to the next contact.
LEMMA StatusStep ==
  ASSUME LeadsInv, Status
  PROVE  LeadsInv'
<1> DEFINE c == op.contact
           left == op.left \ {c}
<1>1. /\ op.do = "status"
      /\ thread' = [thread EXCEPT ![c].status = "needs_channel"]
      /\ op' = IF left = {} THEN Idle ELSE [do |-> "thread", left |-> left, group |-> op.group]
      /\ UNCHANGED <<source, props, count, job, drafts, running, altered, cut, deaths>>
  BY DEF Status
<1>2. /\ op \in [do : {"job", "draft", "status"}, left : SUBSET Phones, group : Plans,
                 contact : Phones]
      /\ c \in op.left /\ c \in Phones
      /\ \A d \in op.left : op.group[d] # {} /\ op.group[d] \subseteq 1 .. count
  BY <1>1, AtContact
<1>3. \/ op' = Idle
      \/ op' = [do |-> "thread", left |-> left, group |-> op.group]
  BY <1>1
<1>4. op' \in Ops /\ op'.do \in {"idle", "thread"}
      /\ (op'.do = "thread" => op'.left \subseteq op.left /\ op'.group = op.group)
  BY <1>2, <1>3 DEF Ops, Idle
<1>5. /\ thread' \in [Phones -> [props : SUBSET (1 .. count), status : {"none", "draft", "needs_channel"}]]
      /\ \A d \in Phones : thread'[d].props = thread[d].props
  BY <1>1, <1>2 DEF LeadsInv, TypeOK
<1>6. TypeOK' /\ SaidInv' /\ TwinsHaveACause'
  BY <1>1, <1>4, <1>5 DEF LeadsInv, TypeOK, SaidInv, TwinsHaveACause
<1>7. OpInv'
  BY <1>1, <1>2, <1>4 DEF OpInv
<1>8. JobIsThreaded' /\ OneDraftPerJob' /\ \A d \in cut' : job'[d] # {}
  BY <1>1, <1>4, <1>5 DEF LeadsInv, JobIsThreaded, OneDraftPerJob
<1>9. QED
  BY <1>6, <1>7, <1>8 DEF LeadsInv

\* A death leaves at most one job without its draft, and says so.
LEMMA DieStep ==
  ASSUME LeadsInv, Die
  PROVE  LeadsInv'
<1>1. /\ deaths < MaxDeaths /\ deaths' = deaths + 1 /\ op' = Idle
      /\ cut' = IF op.do = "draft" THEN cut \cup {op.contact} ELSE cut
      /\ UNCHANGED <<source, props, count, thread, job, drafts, running, altered>>
  BY DEF Die
<1>2. op.do = "draft" => op.contact \in Phones /\ job[op.contact] # {}
  BY AtContact DEF LeadsInv, OpInv
<1>3. deaths' \in 0 .. MaxDeaths
  BY <1>1, LeadsAssumption DEF LeadsInv, TypeOK
<1>4. op' \in Ops /\ op'.do = "idle"
  BY <1>1 DEF Ops, Idle
<1>5. TypeOK' /\ SaidInv' /\ TwinsHaveACause'
  BY <1>1, <1>2, <1>3, <1>4 DEF LeadsInv, TypeOK, SaidInv, TwinsHaveACause
<1>6. OpInv' /\ JobIsThreaded' /\ \A d \in cut' : job'[d] # {}
  BY <1>1, <1>2, <1>4 DEF LeadsInv, OpInv, JobIsThreaded
<1>7. OneDraftPerJob'
  BY <1>1, <1>4 DEF LeadsInv, OneDraftPerJob
<1>8. QED
  BY <1>5, <1>6, <1>7 DEF LeadsInv

\* No step breaks the invariant.
LEMMA LeadsSteps == LeadsInv /\ [Next]_vars => LeadsInv'
<1> SUFFICES ASSUME LeadsInv, [Next]_vars PROVE LeadsInv'
  OBVIOUS
<1>1. CASE \E s \in Sources : CreateLead(s) \/ IngestText(s)
  BY <1>1, CreateLeadStep, IngestTextStep
<1>2. CASE Scout
  BY <1>2, ScoutStep, FoundStep DEF Scout
<1>3. CASE Outreach
  BY <1>3, BeginEnqueueStep, ThreadStep, JobStep, DraftStep, StatusStep DEF Outreach
<1>4. CASE Die
  BY <1>4, DieStep
<1>5. CASE UNCHANGED vars
  BY <1>5 DEF vars, LeadsInv, TypeOK, OpInv, SaidInv, TwinsHaveACause, OneDraftPerJob, JobIsThreaded
<1>6. QED
  BY <1>1, <1>2, <1>3, <1>4, <1>5 DEF Next

THEOREM LeadsInvariance == Spec => []LeadsInv
<1>1. Init => LeadsInv
  BY LeadsStart
<1>2. LeadsInv /\ [Next]_vars => LeadsInv'
  BY LeadsSteps
<1>3. QED
  BY <1>1, <1>2, PTL DEF Spec

\* Types.
THEOREM LeadsTypeCorrect == Spec => []TypeOK
<1>1. LeadsInv => TypeOK
  BY DEF LeadsInv
<1>2. QED
  BY <1>1, LeadsInvariance, PTL

\* Two properties have one signature only if one of them was given a signature
\* that a known source had not said before, or that a new source, merged by its
\* text, put over another (upsert_normalized_source).
THEOREM TwinsHaveACauseThm == Spec => []TwinsHaveACause
<1>1. LeadsInv => TwinsHaveACause
  BY DEF LeadsInv
<1>2. QED
  BY <1>1, LeadsInvariance, PTL

\* A contact's job has one draft, however often it is queued again
\* (OutreachPlanner.enqueue, enqueue_job).
THEOREM OneDraftPerJobThm == Spec => []OneDraftPerJob
<1>1. LeadsInv => OneDraftPerJob
  BY DEF LeadsInv
<1>2. QED
  BY <1>1, LeadsInvariance, PTL

\* A job speaks of nothing that its thread does not list
\* (get_or_create_group_thread, enqueue_job), wherever the server died.
THEOREM JobIsThreadedThm == Spec => []JobIsThreaded
<1>1. LeadsInv => JobIsThreaded
  BY DEF LeadsInv
<1>2. QED
  BY <1>1, LeadsInvariance, PTL


-----------------------------------------------------------------------------
(* RemoteBrowser *)

Commands == [do : {"open", "frame", "input", "act", "close"}, by : {"app", "agent"}, gesture : BOOLEAN,
             page : Nat, after : Nat, awaited : BOOLEAN]

\* A command names no page that has not been opened, and of the page of the
\* session no newer frame than there is.
Known(c) ==
  /\ c.page <= opened
  /\ c.page = session.page => c.after <= session.seq
  /\ c.page = 0 => c.after = 0

QueueInv ==
  /\ queue \in Seq(Commands) /\ Len(queue) <= MaxQueue
  /\ \A i \in 1 .. Len(queue) :
       /\ queue[i].do # "act" /\ Known(queue[i])
       /\ queue[i].do # "open" => queue[i].page # 0

CommandInv ==
  /\ command \in Commands \cup {None}
  /\ command # None => Known(command) /\ (command.do # "open" => command.page # 0)
  /\ command # None /\ command.do = "act" => command.page = session.page

PagesInv ==
  /\ opened \in 0 .. MaxPages
  /\ DOMAIN pages \subseteq 1 .. opened
  /\ pages \in [DOMAIN pages -> 0 .. MaxContents]
  /\ failed \subseteq 1 .. opened

BrowserSessions == [page : 0 .. MaxPages, seq : Nat, hash : Int, flag : BOOLEAN]

SessionInv ==
  /\ session \in BrowserSessions
  /\ session.page \in DOMAIN pages \cup {0}
  /\ session.page = 0 => session.seq = 0
  /\ view \in [page : 0 .. MaxPages, seq : Nat, shown : Nat]
  /\ view.page <= opened
  /\ view.page = 0 => view.seq = 0

\* The app has the newest frame of the session it is at, or another has had it
\* first.
NewestInv ==
  /\ view.page = session.page => view.seq <= session.seq
  /\ session.page # 0 /\ view.page = session.page =>
       \/ <<session.page, session.seq>> \in missed
       \/ view.shown = session.seq

\* The server waits for one command, the last of the queue or the one in hand,
\* and the app has not left that command's session meanwhile.
Follows(c, page) == c.by = "app" /\ c.do \in {"frame", "input", "act"} => c.page = page

AwaitInv ==
  /\ \A i \in 1 .. Len(queue) :
       queue[i].awaited => i = Len(queue) /\ waiting /\ Follows(queue[i], view.page)
  /\ command # None /\ command.awaited =>
       waiting /\ Follows(command, view.page) /\ \A i \in 1 .. Len(queue) : ~ queue[i].awaited

BrowserInv ==
  /\ browserThread \in {"none", "launching", "serving", "draining", "ending"}
  /\ waiting \in BOOLEAN /\ moved \in BOOLEAN
  /\ launches \in 0 .. MaxLaunches
  /\ QueueInv
  /\ CommandInv
  /\ PagesInv
  /\ SessionInv
  /\ NewestInv
  /\ GestureForVerification
  /\ ShownOrMissed

LEMMA NoneIsNoCommand == None \notin Commands /\ None.do = "none"
BY DEF None, Commands

LEMMA BrowserStart == BrowserAssumption /\ BrowserInit => BrowserInv
<1> SUFFICES ASSUME BrowserAssumption, BrowserInit PROVE BrowserInv
  OBVIOUS
<1>1. PagesInv /\ SessionInv
  BY DEF BrowserInit, PagesInv, SessionInv, BrowserSessions, NoSession, NoView, BrowserAssumption
<1>2. QueueInv /\ CommandInv
  BY DEF BrowserInit, QueueInv, CommandInv, BrowserAssumption
<1>3. NewestInv /\ GestureForVerification /\ ShownOrMissed
  BY NoneIsNoCommand DEF BrowserInit, NewestInv, GestureForVerification, ShownOrMissed, NoSession, NoView
<1>4. QED
  <2>1. launches \in 0 .. MaxLaunches
    BY DEF BrowserInit, BrowserAssumption
  <2>2. QED
    BY <1>1, <1>2, <1>3, <2>1 DEF BrowserInit, BrowserInv

-----------------------------------------------------------------------------
(* The queue *)

LEMMA SubmitKeeps ==
  ASSUME BrowserAssumption, BrowserInv, NEW c \in Commands, c.do # "act", Known(c),
         c.do # "open" => c.page # 0, Submit(c), view' \in {view, NoView}
  PROVE  BrowserInv'
<1>1. QueueInv'
  <2>1. UNCHANGED <<opened, session>> /\ queue \in Seq(Commands)
    BY DEF Submit, tab, BrowserInv, QueueInv
  <2>2. CASE Len(queue) < MaxQueue /\ queue' = Append(queue, c)
    <3>1. /\ queue' \in Seq(Commands) /\ Len(queue') = Len(queue) + 1 /\ Len(queue) \in Nat
          /\ \A i \in 1 .. Len(queue') : queue'[i] = c \/ (i \in 1 .. Len(queue) /\ queue'[i] = queue[i])
      BY <2>1, <2>2
    <3>2. QED
      BY <2>1, <2>2, <3>1 DEF BrowserInv, QueueInv, Known, BrowserAssumption
  <2>3. CASE queue' = queue
    BY <2>1, <2>3 DEF BrowserInv, QueueInv, Known
  <2>4. QED
    BY <2>2, <2>3 DEF Submit
<1>2. CommandInv' /\ PagesInv'
  BY DEF Submit, tab, BrowserInv, CommandInv, Known, PagesInv
<1>3. SessionInv' /\ NewestInv'
  <2>1. /\ UNCHANGED <<pages, opened, session, missed>> /\ session.seq \in Nat /\ opened \in Nat
        /\ 0 \in 0 .. MaxPages
    BY DEF Submit, tab, BrowserInv, SessionInv, PagesInv, BrowserSessions, BrowserAssumption
  <2>2. view' = view \/ (view'.page = 0 /\ view'.seq = 0 /\ view'.shown = 0 /\ view' = NoView)
    BY DEF NoView
  <2>3. SessionInv'
    BY <2>1, <2>2 DEF BrowserInv, SessionInv, NoView
  <2>4. NewestInv'
    BY <2>1, <2>2 DEF BrowserInv, NewestInv
  <2>5. QED
    BY <2>3, <2>4
<1>4. GestureForVerification' /\ ShownOrMissed'
  BY DEF Submit, tab, BrowserInv, GestureForVerification, ShownOrMissed, NoView
<1>5. launches' \in 0 .. MaxLaunches /\ browserThread' \in {"none", "launching", "serving", "draining", "ending"}
  BY DEF Submit, BrowserInv, BrowserAssumption
<1>6. waiting' \in BOOLEAN /\ moved' \in BOOLEAN
  BY DEF Submit, tab, BrowserInv
<1>7. QED
  BY <1>1, <1>2, <1>3, <1>4, <1>5, <1>6 DEF BrowserInv

LEMMA CommandKeeps ==
  ASSUME BrowserAssumption, BrowserInv,
         NEW do \in {"open", "frame", "input", "close"}, NEW by \in {"app", "agent"}, NEW g \in BOOLEAN,
         NEW p \in Nat, NEW n \in Nat,
         p <= opened, p = session.page => n <= session.seq, p = 0 => n = 0, do # "open" => p # 0,
         Submit(Command(do, by, g, p, n)), view' \in {view, NoView}
  PROVE  BrowserInv'
<1> DEFINE c == Command(do, by, g, p, n)
<1>1. c \in Commands /\ c.do = do /\ c.page = p /\ c.after = n
  BY DEF Command, Commands
<1>2. Known(c)
  BY <1>1 DEF Known
<1> HIDE DEF c
<1>3. Submit(c)
  BY DEF c
<1>4. QED
  BY <1>1, <1>2, <1>3, SubmitKeeps

LEMMA CallStep ==
  ASSUME BrowserAssumption, BrowserInv, Call
  PROVE  BrowserInv'
<1>1. session.page \in Nat /\ session.seq \in Nat /\ view.page \in Nat /\ view.seq \in Nat /\ opened \in Nat
      /\ session.page <= opened /\ view.page <= opened
      /\ (view.page = session.page => view.seq <= session.seq)
      /\ (view.page = 0 => view.seq = 0)
      /\ 0 \in Nat /\ 0 <= session.seq /\ 0 <= opened
  BY DEF BrowserInv, SessionInv, BrowserSessions, NewestInv, PagesInv, BrowserAssumption
<1>2. CASE AppOpens
  BY <1>1, <1>2, CommandKeeps DEF AppOpens
<1>3. CASE AgentOpens
  BY <1>1, <1>3, CommandKeeps DEF AgentOpens
<1>4. CASE AppLooks
  BY <1>1, <1>4, CommandKeeps DEF AppLooks, App
<1>5. CASE AppActs
  BY <1>1, <1>5, CommandKeeps DEF AppActs, App
<1>6. CASE AppCloses
  BY <1>1, <1>6, CommandKeeps DEF AppCloses, App
<1>7. ASSUME NEW do \in {"frame", "input", "close"}, NEW g \in BOOLEAN, Agent(do, g)
      PROVE  BrowserInv'
  BY <1>1, <1>7, CommandKeeps DEF Agent
<1>8. CASE AgentLooks \/ AgentActs \/ AgentCloses
  BY <1>7, <1>8 DEF AgentLooks, AgentActs, AgentCloses
<1>9. CASE GiveUp
  <2>1. QueueInv'
    <3>1. \A i \in 1 .. Len(queue) : queue[i] \in Commands
      BY DEF BrowserInv, QueueInv
    <3>2. \A i \in 1 .. Len(queue) :
            /\ [queue[i] EXCEPT !.awaited = FALSE] \in Commands
            /\ [queue[i] EXCEPT !.awaited = FALSE].do = queue[i].do
            /\ [queue[i] EXCEPT !.awaited = FALSE].page = queue[i].page
            /\ [queue[i] EXCEPT !.awaited = FALSE].after = queue[i].after
      BY <3>1 DEF Commands
    <3>3. queue' \in Seq(Commands) /\ Len(queue') = Len(queue)
          /\ \A i \in 1 .. Len(queue) : queue'[i] = [queue[i] EXCEPT !.awaited = FALSE]
      BY <1>9, <3>2 DEF GiveUp, BrowserInv, QueueInv
    <3>4. QED
      BY <1>9, <3>2, <3>3 DEF GiveUp, browser, tab, BrowserInv, QueueInv, Known
  <2>2. CASE command = None
    BY <1>9, <2>1, <2>2 DEF GiveUp, browser, tab, BrowserInv, CommandInv, Known, PagesInv, SessionInv, NewestInv,
                         GestureForVerification, ShownOrMissed
  <2>3. CASE command # None
    <3>1. command' \in Commands /\ command'.do = command.do /\ command'.page = command.page
          /\ command'.after = command.after /\ command'.gesture = command.gesture
      BY <1>9, <2>3 DEF GiveUp, BrowserInv, CommandInv, Commands
    <3>2. CommandInv' /\ PagesInv' /\ SessionInv' /\ NewestInv'
      BY <1>9, <2>3, <3>1 DEF GiveUp, browser, tab, BrowserInv, CommandInv, Known, PagesInv, SessionInv, NewestInv
    <3>3. GestureForVerification' /\ ShownOrMissed'
      BY <1>9, <3>1 DEF GiveUp, browser, tab, BrowserInv, GestureForVerification, ShownOrMissed
    <3>4. QED
      BY <1>9, <2>1, <3>2, <3>3 DEF GiveUp, browser, tab, BrowserInv
  <2>4. QED
    BY <2>2, <2>3
<1>10. QED
  BY <1>2, <1>3, <1>4, <1>5, <1>6, <1>8, <1>9 DEF Call

LEMMA BrowserThreadStep ==
  ASSUME BrowserAssumption, BrowserInv, BrowserThread
  PROVE  BrowserInv'
<1>1. CASE Launch \/ DrainEnds
  <2>1. QueueInv'
    BY <1>1 DEF Launch, DrainEnds, browser, tab, BrowserInv, QueueInv, Known
  <2>2. UNCHANGED <<queue, command, waiting, browser, launches>>
    BY <1>1 DEF Launch, DrainEnds
  <2>3. CommandInv' /\ PagesInv'
    BY <2>2 DEF browser, tab, BrowserInv, CommandInv, Known, PagesInv
  <2>4. SessionInv' /\ NewestInv'
    BY <2>2 DEF browser, tab, BrowserInv, SessionInv, NewestInv
  <2>5. GestureForVerification' /\ ShownOrMissed'
    BY <2>2 DEF browser, tab, BrowserInv, GestureForVerification, ShownOrMissed
  <2>6. QED
    BY <1>1, <2>1, <2>2, <2>3, <2>4, <2>5 DEF Launch, DrainEnds, browser, tab, BrowserInv
<1>2. ASSUME queue # <<>>, queue' = Tail(queue), UNCHANGED <<opened, session>>
      PROVE  QueueInv'
  <2>1. queue \in Seq(Commands) /\ Len(queue) <= MaxQueue
    BY DEF BrowserInv, QueueInv
  <2>2. /\ queue' \in Seq(Commands) /\ Len(queue') = Len(queue) - 1 /\ Len(queue) \in Nat
        /\ \A i \in 1 .. Len(queue') : i + 1 \in 1 .. Len(queue) /\ queue'[i] = queue[i + 1]
    BY <1>2, <2>1
  <2>3. QED
    BY <1>2, <2>1, <2>2 DEF BrowserInv, QueueInv, Known, BrowserAssumption
<1>3. CASE Drain
  <2>1. QueueInv'
    BY <1>2, <1>3 DEF Drain, browser, tab
  <2>2. waiting' \in BOOLEAN
    BY <1>3 DEF Drain
  <2>3. QED
    BY <1>3, <2>1, <2>2 DEF Drain, browser, tab, BrowserInv, CommandInv, Known, PagesInv, SessionInv,
              NewestInv, GestureForVerification, ShownOrMissed
<1>4. CASE Take
  <2>1. QueueInv'
    BY <1>2, <1>4 DEF Take, browser, tab
  <2>2. Head(queue) = queue[1] /\ 1 \in 1 .. Len(queue) /\ queue[1] \in Commands
    BY <1>4 DEF Take, BrowserInv, QueueInv
  <2>3. command' \in Commands /\ command'.do # "act" /\ Known(command')
        /\ (command'.do # "open" => command'.page # 0)
    BY <1>4, <2>2 DEF Take, BrowserInv, QueueInv
  <2>4. CommandInv'
    BY <1>4, <2>3 DEF Take, browser, tab, CommandInv, Known
  <2>5. GestureForVerification'
    BY <2>3 DEF GestureForVerification
  <2>6. QED
    BY <1>4, <2>1, <2>4, <2>5 DEF Take, browser, tab, BrowserInv, PagesInv, SessionInv, NewestInv, ShownOrMissed
<1>5. QED
  BY <1>1, <1>3, <1>4 DEF BrowserThread

-----------------------------------------------------------------------------
(* The commands *)

LEMMA CapturedIs ==
  ASSUME BrowserAssumption, BrowserInv, session.page # 0
  PROVE  /\ Captured(session) \in BrowserSessions
         /\ Captured(session).page = session.page
         /\ Captured(session).seq = (IF Changed(session) THEN session.seq + 1 ELSE session.seq)
         /\ Captured(session).flag = (pages[session.page] \in Verifying)
         /\ session.page \in DOMAIN pages /\ session.page <= opened /\ opened \in Nat
<1>1. session.page \in DOMAIN pages /\ session \in BrowserSessions
      /\ opened \in 0 .. MaxPages /\ DOMAIN pages \subseteq 1 .. opened
  BY DEF BrowserInv, SessionInv, PagesInv
<1>2. pages[session.page] \in Int
  BY <1>1 DEF BrowserInv, PagesInv, BrowserAssumption
<1> DEFINE n == IF Changed(session) THEN session.seq + 1 ELSE session.seq
           h == pages[session.page]
           f == pages[session.page] \in Verifying
<1>3. Captured(session) = [session EXCEPT !.seq = n, !.hash = h, !.flag = f]
  BY DEF Captured
<1>4. n \in Nat /\ h \in Int /\ f \in BOOLEAN
  BY <1>1, <1>2 DEF BrowserSessions
<1> HIDE DEF n, h, f
<1>5. /\ Captured(session) \in BrowserSessions
      /\ Captured(session).page = session.page /\ Captured(session).seq = n /\ Captured(session).flag = f
  BY <1>1, <1>3, <1>4 DEF BrowserSessions
<1>6. session.page <= opened /\ opened \in Nat
  BY <1>1 DEF BrowserAssumption
<1>7. QED
  BY <1>1, <1>5, <1>6 DEF n, f

\* Whoever a frame is answered to, the app has the newest one or has missed it.
LEMMA AnsweredKeeps ==
  ASSUME BrowserAssumption, BrowserInv, NEW s \in BrowserSessions, s.page # 0,
         NEW new \in BOOLEAN, NEW picture \in BOOLEAN, new => picture,
         picture \/ view.page = s.page \/ ~ (command.by = "app" /\ command.awaited),
         Answered(s, new, picture), session' = s,
         \/ s.page = session.page /\ s.seq = (IF new THEN session.seq + 1 ELSE session.seq)
         \/ s.page = opened + 1 /\ new,
         opened' \in Nat, s.page <= opened', opened <= opened'
  PROVE  /\ view' \in [page : 0 .. MaxPages, seq : Nat, shown : Nat]
         /\ view'.page <= opened' /\ (view'.page = 0 => view'.seq = 0)
         /\ NewestInv'
         /\ view'.page # 0 /\ view'.shown < view'.seq => <<view'.page, view'.seq>> \in missed'
<1>1. /\ view \in [page : 0 .. MaxPages, seq : Nat, shown : Nat]
      /\ view.page <= opened /\ (view.page = 0 => view.seq = 0)
      /\ (view.page = session.page => view.seq <= session.seq)
      /\ session \in BrowserSessions /\ opened \in Nat
      /\ (session.page # 0 /\ view.page = session.page
            => <<session.page, session.seq>> \in missed \/ view.shown = session.seq)
      /\ (view.page # 0 /\ view.shown < view.seq => <<view.page, view.seq>> \in missed)
  BY DEF BrowserInv, SessionInv, NewestInv, PagesInv, ShownOrMissed, BrowserAssumption
<1>2. CASE command.by = "app" /\ command.awaited
  <2>1. /\ missed' = missed
        /\ view' = [page |-> s.page, seq |-> s.seq,
                    shown |-> IF picture THEN s.seq
                              ELSE IF view.page = s.page THEN view.shown ELSE 0]
    BY <1>2 DEF Answered
  <2>2. CASE picture
    <3>1. view' = [page |-> s.page, seq |-> s.seq, shown |-> s.seq]
      BY <2>1, <2>2
    <3>2. QED
      BY <1>1, <3>1 DEF NewestInv, BrowserSessions, BrowserAssumption
  <2>3. CASE ~ picture
    <3>1. s.page = session.page /\ s.seq = session.seq /\ view.page = s.page
      BY <1>2, <2>3
    <3>2. view'.page = s.page /\ view'.seq = s.seq
          /\ view'.shown = (IF view.page = s.page THEN view.shown ELSE 0)
          /\ view' \in [page : 0 .. MaxPages, seq : Nat, shown : Nat]
      BY <1>1, <2>1, <2>3 DEF BrowserSessions, BrowserAssumption
    <3>3. QED
      BY <1>1, <2>1, <3>1, <3>2 DEF NewestInv, BrowserSessions, BrowserAssumption
  <2>4. QED
    BY <2>2, <2>3
<1>3. CASE ~ (command.by = "app" /\ command.awaited)
  <2>1. view' = view /\ missed' = (IF new THEN missed \cup {<<s.page, s.seq>>} ELSE missed)
    BY <1>3 DEF Answered, MissedIf
  <2>2. view'.page = s.page => view'.seq <= s.seq
    BY <1>1, <2>1 DEF BrowserSessions
  <2>3. view'.page = s.page => <<s.page, s.seq>> \in missed' \/ view'.shown = s.seq
    BY <1>1, <2>1
  <2>4. QED
    BY <1>1, <2>1, <2>2, <2>3 DEF NewestInv
<1>4. QED
  BY <1>2, <1>3

\* The end of a command keeps what the queue knows: the session stays, with newer
\* frames, is new or is gone.
LEMMA OverKeeps ==
  ASSUME BrowserAssumption, BrowserInv, command # None, Over,
         PagesInv', SessionInv', NewestInv', ShownOrMissed', moved' \in BOOLEAN,
         opened <= opened',
         \/ session'.page = session.page /\ session.seq <= session'.seq
         \/ session'.page > opened
         \/ session'.page = 0
  PROVE  BrowserInv'
<1>1. opened \in Nat /\ opened' \in Nat /\ session.seq \in Nat /\ session'.seq \in Nat
      /\ session'.page \in Nat
  BY DEF BrowserInv, PagesInv, SessionInv, BrowserSessions, BrowserAssumption
<1>2. ASSUME NEW c \in Commands, Known(c)
      PROVE  Known(c)'
  BY <1>1, <1>2 DEF Known, Commands
<1>3. QueueInv'
  <2>1. queue' = queue
    BY DEF Over
  <2>2. \A i \in 1 .. Len(queue) : queue[i] \in Commands
    BY DEF BrowserInv, QueueInv
  <2>3. QED
    BY <1>2, <2>1, <2>2 DEF BrowserInv, QueueInv
<1>4. CommandInv' /\ GestureForVerification'
  BY NoneIsNoCommand DEF Over, CommandInv, GestureForVerification
<1>5. waiting' \in BOOLEAN /\ UNCHANGED <<browserThread, launches>>
  BY DEF Over
<1>6. QED
  BY <1>3, <1>4, <1>5 DEF BrowserInv

LEMMA CommandIs ==
  ASSUME BrowserInv, command.do # "none"
  PROVE  command # None /\ command \in Commands /\ Known(command)
         /\ (command.do # "open" => command.page # 0)
         /\ (command.do = "act" => command.page = session.page)
BY NoneIsNoCommand DEF BrowserInv, CommandInv

\* A capture of the session that is answered.
LEMMA CaptureKeeps ==
  ASSUME BrowserAssumption, BrowserInv, command # None, session.page # 0,
         NEW picture \in BOOLEAN, Changed(session) => picture,
         picture \/ view.page = session.page \/ ~ (command.by = "app" /\ command.awaited),
         session' = Captured(session), Answered(session', Changed(session), picture), Over,
         UNCHANGED <<pages, opened, failed, moved>>
  PROVE  BrowserInv'
<1> DEFINE s == Captured(session)
           new == Changed(session)
<1>1. /\ s \in BrowserSessions /\ s.page = session.page
      /\ s.seq = (IF new THEN session.seq + 1 ELSE session.seq)
      /\ session.page \in DOMAIN pages /\ session.page <= opened /\ opened \in Nat
  BY CapturedIs
<1>2. new \in BOOLEAN /\ session' = s /\ Answered(s, new, picture) /\ (new => picture)
  BY DEF Changed
<1> HIDE DEF s, new
<1>3. /\ view' \in [page : 0 .. MaxPages, seq : Nat, shown : Nat]
      /\ view'.page <= opened' /\ (view'.page = 0 => view'.seq = 0)
      /\ NewestInv'
      /\ (view'.page # 0 /\ view'.shown < view'.seq => <<view'.page, view'.seq>> \in missed')
  BY <1>1, <1>2, AnsweredKeeps
<1>4. PagesInv' /\ SessionInv'
  BY <1>1, <1>2, <1>3 DEF BrowserInv, PagesInv, SessionInv
<1>5. ShownOrMissed'
  BY <1>1, <1>2, <1>3 DEF BrowserInv, ShownOrMissed
<1>6. session.seq <= session'.seq
  BY <1>1, <1>2 DEF BrowserInv, SessionInv, BrowserSessions
<1>7. moved' \in BOOLEAN /\ opened <= opened'
  BY <1>1 DEF BrowserInv
<1>8. QED
  BY <1>1, <1>2, <1>3, <1>4, <1>5, <1>6, <1>7, OverKeeps

LEMMA OpenStep ==
  ASSUME BrowserAssumption, BrowserInv, Open
  PROVE  BrowserInv'
<1>1. command # None
  BY CommandIs DEF Open
<1>2. CASE session.page # 0
  BY <1>1, <1>2, CaptureKeeps DEF Open
<1>3. CASE session.page = 0
  <2>1. PICK c \in 0 .. MaxContents :
          /\ opened' = opened + 1 /\ opened < MaxPages
          /\ pages' = [p \in DOMAIN pages \cup {opened'} |-> IF p = opened' THEN c ELSE pages[p]]
          /\ session' = [page |-> opened', seq |-> 1, hash |-> c, flag |-> c \in Verifying]
          /\ Answered(session', TRUE, TRUE) /\ Over /\ UNCHANGED <<failed, moved>>
    BY <1>3 DEF Open
  <2>2. opened \in Nat /\ opened' \in 1 .. MaxPages /\ c \in Int
        /\ DOMAIN pages \subseteq 1 .. opened /\ failed \subseteq 1 .. opened
        /\ pages \in [DOMAIN pages -> 0 .. MaxContents]
    BY <2>1 DEF BrowserInv, PagesInv, BrowserAssumption
  <2>3. session' \in BrowserSessions /\ session'.page = opened + 1 /\ session'.seq = 1
    BY <2>1, <2>2 DEF BrowserSessions
  <2>4. PICK s \in BrowserSessions : session' = s /\ s.page = opened + 1
    BY <2>3
  <2>5. PICK yes \in BOOLEAN : yes /\ Answered(s, yes, yes)
    BY <2>1, <2>4
  <2>6. /\ view' \in [page : 0 .. MaxPages, seq : Nat, shown : Nat]
        /\ view'.page <= opened' /\ (view'.page = 0 => view'.seq = 0)
        /\ NewestInv'
        /\ (view'.page # 0 /\ view'.shown < view'.seq => <<view'.page, view'.seq>> \in missed')
    <3>1. s.page # 0 /\ opened' \in Nat /\ s.page <= opened' /\ opened <= opened' /\ (yes => yes)
      BY <2>1, <2>2, <2>4
    <3>2. \/ s.page = session.page /\ s.seq = (IF yes THEN session.seq + 1 ELSE session.seq)
          \/ s.page = opened + 1 /\ yes
      BY <2>4, <2>5
    <3>3. QED
      BY <2>4, <2>5, <3>1, <3>2, AnsweredKeeps
  <2>7. DOMAIN pages' = DOMAIN pages \cup {opened'} /\ pages' \in [DOMAIN pages' -> 0 .. MaxContents]
    BY <2>1, <2>2
  <2>8. PagesInv'
    BY <2>1, <2>2, <2>7 DEF PagesInv
  <2>9. SessionInv'
    BY <2>1, <2>2, <2>3, <2>6, <2>7 DEF SessionInv
  <2>10. ShownOrMissed'
    BY <1>3, <2>1, <2>2, <2>3, <2>6, <2>7 DEF BrowserInv, ShownOrMissed
  <2>11. moved' \in BOOLEAN /\ opened <= opened' /\ session'.page > opened
    BY <2>1, <2>2, <2>3 DEF BrowserInv
  <2>12. QED
    BY <1>1, <2>1, <2>6, <2>8, <2>9, <2>10, <2>11, OverKeeps
<1>4. QED
  BY <1>2, <1>3

LEMMA OpenFailsStep ==
  ASSUME BrowserAssumption, BrowserInv, OpenFails
  PROVE  BrowserInv'
<1>1. command # None /\ Over /\ session' = session /\ view' = view /\ missed' = missed /\ moved' = moved
  BY CommandIs DEF OpenFails
<1>2. /\ opened' = opened + 1 /\ opened < MaxPages /\ failed' = failed \cup {opened'}
      /\ pages' = [p \in DOMAIN pages \cup {opened'} |-> IF p = opened' THEN 0 ELSE pages[p]]
  BY DEF OpenFails
<1>3. opened \in Nat /\ opened' \in 1 .. MaxPages /\ 0 \in 0 .. MaxContents
      /\ DOMAIN pages \subseteq 1 .. opened /\ failed \subseteq 1 .. opened
      /\ pages \in [DOMAIN pages -> 0 .. MaxContents]
  BY <1>2 DEF BrowserInv, PagesInv, BrowserAssumption
<1>4. DOMAIN pages' = DOMAIN pages \cup {opened'} /\ pages' \in [DOMAIN pages' -> 0 .. MaxContents]
  BY <1>2, <1>3
<1>5. PagesInv'
  BY <1>2, <1>3, <1>4 DEF PagesInv
<1>6. SessionInv' /\ NewestInv'
  BY <1>1, <1>2, <1>3, <1>4 DEF BrowserInv, SessionInv, NewestInv, BrowserAssumption
<1>7. ShownOrMissed'
  BY <1>1, <1>2, <1>4 DEF BrowserInv, ShownOrMissed
<1>8. moved' \in BOOLEAN /\ opened <= opened' /\ session.seq <= session'.seq
  BY <1>1, <1>2, <1>3 DEF BrowserInv, SessionInv, BrowserSessions
<1>9. QED
  BY <1>1, <1>5, <1>6, <1>7, <1>8, OverKeeps

LEMMA SessionNotFoundStep ==
  ASSUME BrowserAssumption, BrowserInv, SessionNotFound
  PROVE  BrowserInv'
<1>1. command # None /\ Over /\ UNCHANGED browser
  BY CommandIs DEF SessionNotFound
<1>2. PagesInv' /\ SessionInv' /\ NewestInv' /\ ShownOrMissed'
  BY <1>1 DEF browser, tab, BrowserInv, PagesInv, SessionInv, NewestInv, ShownOrMissed
<1>3. moved' \in BOOLEAN /\ opened <= opened' /\ session.seq <= session'.seq /\ session'.page = session.page
  BY <1>1 DEF browser, tab, BrowserInv, PagesInv, SessionInv, BrowserSessions, BrowserAssumption
<1>4. QED
  BY <1>1, <1>2, <1>3, OverKeeps

LEMMA FrameStep ==
  ASSUME BrowserAssumption, BrowserInv, AwaitInv, Frame
  PROVE  BrowserInv'
<1> DEFINE picture == Changed(session) /\ Captured(session).seq > command.after
<1>1. command # None /\ session.page # 0 /\ Known(command) /\ command.page = session.page /\ command.after \in Nat
  BY CommandIs DEF Frame, Commands
<1>2. picture \in BOOLEAN /\ (Changed(session) => picture)
  BY <1>1, CapturedIs DEF Known, BrowserInv, SessionInv, BrowserSessions
<1>3. session' = Captured(session) /\ Answered(session', Changed(session), picture)
      /\ Over /\ UNCHANGED <<pages, opened, failed, moved>>
  BY DEF Frame
<1>5. command.by = "app" /\ command.awaited => view.page = session.page
  BY <1>1 DEF Frame, AwaitInv, Follows
<1> HIDE DEF picture
<1>4. QED
  BY <1>1, <1>2, <1>3, <1>5, CaptureKeeps

LEMMA ActStep ==
  ASSUME BrowserAssumption, BrowserInv, Act
  PROVE  BrowserInv'
<1>1. command # None /\ session.page # 0
  BY CommandIs DEF Act
<1>2. session' = Captured(session) /\ Answered(session', Changed(session), TRUE)
      /\ Over /\ UNCHANGED <<pages, opened, failed, moved>>
  BY DEF Act
<1>3. QED
  BY <1>1, <1>2, CaptureKeeps

LEMMA LookStep ==
  ASSUME BrowserAssumption, BrowserInv, Look
  PROVE  BrowserInv'
<1> DEFINE s == Captured(session)
           new == Changed(session)
<1>1. /\ command # None /\ command \in Commands /\ Known(command)
      /\ session.page # 0 /\ command.page = session.page
  BY CommandIs DEF Look
<1>2. /\ s \in BrowserSessions /\ s.page = session.page
      /\ s.seq = (IF new THEN session.seq + 1 ELSE session.seq)
      /\ s.flag = (pages[session.page] \in Verifying)
      /\ session.page \in DOMAIN pages /\ session.page <= opened /\ opened \in Nat
  BY <1>1, CapturedIs
<1>3. /\ session' = s /\ missed' = (IF new THEN missed \cup {<<s.page, s.seq>>} ELSE missed)
      /\ moved' = FALSE /\ UNCHANGED <<pages, opened, view, failed>>
      /\ \/ Over
         \/ /\ ~ (s.flag /\ ~ command.gesture)
            /\ command' = [command EXCEPT !.do = "act"]
            /\ UNCHANGED <<browserThread, queue, waiting, launches>>
  BY DEF Look, MissedIf
<1> HIDE DEF s, new
<1>4. session.seq \in Nat /\ session.seq <= session'.seq /\ session'.page = session.page
  BY <1>2, <1>3 DEF BrowserInv, SessionInv, BrowserSessions
<1>5. PagesInv' /\ SessionInv'
  BY <1>1, <1>2, <1>3 DEF BrowserInv, PagesInv, SessionInv
<1>6. NewestInv'
  BY <1>1, <1>2, <1>3, <1>4 DEF BrowserInv, SessionInv, NewestInv
<1>7. ShownOrMissed'
  BY <1>2, <1>3 DEF BrowserInv, ShownOrMissed
<1>8. moved' \in BOOLEAN /\ opened <= opened'
  <2>1. opened' = opened /\ moved' = FALSE
    BY <1>3
  <2>2. opened \in Nat
    BY BrowserAssumption DEF BrowserInv, PagesInv, BrowserAssumption
  <2>3. moved' \in BOOLEAN
    BY <2>1, Zenon
  <2>4. opened <= opened'
    BY <2>1, <2>2
  <2>5. QED
    BY <2>3, <2>4
<1>9. CASE Over
  BY <1>1, <1>4, <1>5, <1>6, <1>7, <1>8, <1>9, OverKeeps
<1>10. CASE ~ Over
  <2>1. command' = [command EXCEPT !.do = "act"] /\ UNCHANGED <<browserThread, queue, waiting, launches>>
        /\ ~ (s.flag /\ ~ command.gesture)
    BY <1>3, <1>10
  <2>2. /\ command' \in Commands /\ command'.do = "act" /\ command'.page = command.page
        /\ command'.after = command.after /\ command'.gesture = command.gesture
    BY <1>1, <2>1 DEF Commands
  <2>3. ASSUME NEW c \in Commands, Known(c)
        PROVE  Known(c)'
    BY <1>2, <1>3, <1>4, <2>3 DEF Known, Commands, BrowserSessions
  <2>4. CommandInv'
    <3>1. Known(command)'
      <4>1. /\ command.after <= session.seq /\ command.after \in Nat /\ command.page <= opened
            /\ opened' = opened /\ session'.seq \in Nat
        BY <1>1, <1>3, <1>5 DEF Known, Commands, SessionInv, BrowserSessions
      <4>2. command'.page <= opened' /\ command'.after <= session'.seq /\ command'.page # 0
        BY <1>1, <1>4, <2>2, <4>1
      <4>3. QED
        BY <4>2 DEF Known
    <3>2. QED
      BY <1>1, <1>4, <2>2, <3>1 DEF CommandInv
  <2>5. QueueInv'
    BY <2>1, <2>3 DEF BrowserInv, QueueInv
  <2>6. GestureForVerification'
    BY <1>2, <1>3, <2>1, <2>2 DEF GestureForVerification
  <2>7. QED
    BY <1>5, <1>6, <1>7, <1>8, <2>1, <2>4, <2>5, <2>6 DEF BrowserInv
<1>11. QED
  BY <1>9, <1>10

LEMMA CloseStep ==
  ASSUME BrowserAssumption, BrowserInv, Close
  PROVE  BrowserInv'
<1>1. /\ command # None /\ command.page = session.page /\ session.page # 0
      /\ session' = NoSession /\ Over /\ opened' = opened /\ missed' = missed /\ moved' = moved
  BY CommandIs DEF Close
<1>2. /\ DOMAIN pages \subseteq 1 .. opened /\ failed \subseteq 1 .. opened /\ opened \in 0 .. MaxPages
      /\ pages \in [DOMAIN pages -> 0 .. MaxContents] /\ session.page \in DOMAIN pages
  BY <1>1 DEF BrowserInv, PagesInv, SessionInv
<1>3. /\ DOMAIN pages' \subseteq 1 .. opened /\ pages' \in [DOMAIN pages' -> 0 .. MaxContents]
      /\ failed' \subseteq 1 .. opened
      /\ \A p \in DOMAIN pages' : p \in DOMAIN pages /\ (p # session.page \/ p \in failed')
      /\ failed \subseteq failed'
  <2>1. CASE pages' = [p \in DOMAIN pages \ {session.page} |-> pages[p]] /\ failed' = failed
    BY <1>2, <2>1
  <2>2. CASE pages' = pages /\ failed' = failed \cup {session.page}
    BY <1>2, <2>2
  <2>3. QED
    BY <2>1, <2>2 DEF Close
<1>4. PagesInv'
  BY <1>1, <1>2, <1>3 DEF PagesInv
<1>5. view' = view
  BY DEF Close
<1>6. SessionInv' /\ NewestInv'
  BY <1>1, <1>2, <1>3, <1>5 DEF BrowserInv, SessionInv, NewestInv, NoSession, BrowserSessions, BrowserAssumption
<1>7. ShownOrMissed'
  BY <1>1, <1>3, <1>5 DEF BrowserInv, ShownOrMissed, NoSession
<1>8. moved' \in BOOLEAN /\ opened <= opened' /\ session'.page = 0
  BY <1>1, <1>2 DEF BrowserInv, NoSession, BrowserAssumption
<1>9. QED
  BY <1>1, <1>4, <1>6, <1>7, <1>8, OverKeeps

LEMMA PageChangesStep ==
  ASSUME BrowserAssumption, BrowserInv, NEW p \in 1 .. MaxPages, PageChanges(p)
  PROVE  BrowserInv'
<1>1. /\ p \in DOMAIN pages /\ pages[p] < MaxContents
      /\ pages' = [pages EXCEPT ![p] = pages[p] + 1] /\ moved' = (moved \/ p = session.page)
      /\ UNCHANGED <<browserThread, queue, command, waiting, opened, session, view, missed, failed, launches>>
  BY DEF PageChanges
<1>2. pages \in [DOMAIN pages -> 0 .. MaxContents]
  BY DEF BrowserInv, PagesInv
<1>3. DOMAIN pages' = DOMAIN pages /\ pages' \in [DOMAIN pages' -> 0 .. MaxContents]
      /\ \A r \in DOMAIN pages \ {p} : pages'[r] = pages[r]
  BY <1>1, <1>2 DEF BrowserAssumption
<1>4. QueueInv' /\ CommandInv'
  BY <1>1 DEF BrowserInv, QueueInv, CommandInv, Known
<1>5. PagesInv' /\ SessionInv' /\ NewestInv'
  BY <1>1, <1>3 DEF BrowserInv, PagesInv, SessionInv, NewestInv
<1>6. GestureForVerification'
  <2>1. SUFFICES ASSUME command.do = "act", ~ command.gesture, pages'[session.page] \in Verifying, p # session.page
                 PROVE  moved
    BY <1>1 DEF GestureForVerification
  <2>2. session.page \in DOMAIN pages
    BY <2>1, CommandIs DEF BrowserInv, SessionInv
  <2>3. QED
    BY <1>3, <2>1, <2>2 DEF BrowserInv, GestureForVerification
<1>7. ShownOrMissed'
  BY <1>1, <1>3 DEF BrowserInv, ShownOrMissed
<1>8. QED
  BY <1>1, <1>4, <1>5, <1>6, <1>7 DEF BrowserInv

LEMMA BrowserSteps ==
  ASSUME BrowserAssumption, BrowserInv, AwaitInv, [BrowserNext]_browserVars
  PROVE  BrowserInv'
<1>1. CASE Dispatch
  BY <1>1, OpenStep, OpenFailsStep, SessionNotFoundStep, FrameStep, LookStep, ActStep, CloseStep DEF Dispatch
<1>2. CASE UNCHANGED browserVars
  <2>1. QueueInv' /\ CommandInv'
    BY <1>2 DEF browserVars, BrowserInv, QueueInv, CommandInv, Known
  <2>2. PagesInv' /\ SessionInv' /\ NewestInv' /\ GestureForVerification' /\ ShownOrMissed'
    BY <1>2 DEF browserVars, BrowserInv, PagesInv, SessionInv, NewestInv, GestureForVerification, ShownOrMissed
  <2>3. QED
    BY <1>2, <2>1, <2>2 DEF browserVars, BrowserInv
<1>3. QED
  BY <1>1, <1>2, CallStep, BrowserThreadStep, PageChangesStep DEF BrowserNext

\* The server's one awaited command.
LEMMA AwaitSteps ==
  ASSUME BrowserInv, AwaitInv, [BrowserNext]_browserVars
  PROVE  AwaitInv'
<1>1. queue \in Seq(Commands) /\ Len(queue) \in Nat
  BY DEF BrowserInv, QueueInv
<1>2. ASSUME NEW c, Submit(c), c.awaited, Follows(c, view'.page) PROVE AwaitInv'
  <2>1. ~ waiting /\ command' = command
    BY <1>2 DEF Submit
  <2>2. \A i \in 1 .. Len(queue) : ~ queue[i].awaited
    BY <2>1 DEF AwaitInv
  <2>3. command # None => ~ command.awaited
    BY <2>1 DEF AwaitInv
  <2>4. CASE queue' = Append(queue, c) /\ waiting' = TRUE
    <3>1. /\ Len(queue') = Len(queue) + 1 /\ queue'[Len(queue')] = c
          /\ \A i \in 1 .. Len(queue) : queue'[i] = queue[i]
      BY <1>1, <2>4
    <3>2. \A i \in 1 .. Len(queue') : i = Len(queue') \/ i \in 1 .. Len(queue)
      BY <1>1, <3>1
    <3>3. \A i \in 1 .. Len(queue') : queue'[i].awaited => i = Len(queue') /\ queue'[i] = c
      BY <2>2, <3>1, <3>2
    <3>4. \A i \in 1 .. Len(queue') : queue'[i].awaited => Follows(queue'[i], view'.page)
      BY <1>2, <3>3 DEF Follows
    <3>5. QED
      BY <2>1, <2>3, <2>4, <3>3, <3>4 DEF AwaitInv
  <2>5. CASE queue' = queue
    BY <2>1, <2>2, <2>3, <2>5 DEF AwaitInv
  <2>6. QED
    BY <1>2, <2>4, <2>5 DEF Submit
<1>3. ASSUME NEW do, NEW by, NEW g, NEW p, NEW n, Submit(Command(do, by, g, p, n)),
             by = "app" /\ do \in {"frame", "input"} => p = view'.page, do # "act"
      PROVE  AwaitInv'
  <2> DEFINE c == Command(do, by, g, p, n)
  <2>1. c.awaited /\ c.by = by /\ c.do = do /\ c.page = p
    BY DEF Command
  <2> HIDE DEF c
  <2>2. Follows(c, view'.page)
    BY <1>3, <2>1 DEF Follows
  <2>3. Submit(c)
    BY <1>3 DEF c
  <2>4. QED
    BY <1>2, <2>1, <2>2, <2>3
<1>4. CASE AppOpens \/ AppLooks \/ AppActs \/ AppCloses
  <2>1. CASE AppOpens
    BY <1>3, <2>1 DEF AppOpens
  <2>2. CASE AppLooks
    BY <1>3, <2>2 DEF AppLooks, App
  <2>3. CASE AppActs
    BY <1>3, <2>3 DEF AppActs, App
  <2>4. CASE AppCloses
    BY <1>3, <2>4 DEF AppCloses, App
  <2>5. QED
    BY <1>4, <2>1, <2>2, <2>3, <2>4
<1>5. ASSUME NEW do \in {"frame", "input", "close"}, NEW g, Agent(do, g)
      PROVE  AwaitInv'
  BY <1>3, <1>5 DEF Agent
<1>6. CASE AgentOpens \/ AgentLooks \/ AgentActs \/ AgentCloses
  BY <1>3, <1>5, <1>6 DEF AgentOpens, AgentLooks, AgentActs, AgentCloses
<1>7. CASE GiveUp
  <2>1. /\ Len(queue') = Len(queue)
        /\ \A i \in 1 .. Len(queue) : queue'[i] = [queue[i] EXCEPT !.awaited = FALSE]
    BY <1>1, <1>7 DEF GiveUp
  <2>2. \A i \in 1 .. Len(queue) : ~ queue'[i].awaited
    <3>1. \A i \in 1 .. Len(queue) : queue[i] \in Commands
      BY <1>1
    <3>2. QED
      BY <2>1, <3>1 DEF Commands
  <2>3. command' # None => ~ command'.awaited
    BY <1>7 DEF GiveUp, BrowserInv, CommandInv, Commands
  <2>4. QED
    BY <2>1, <2>2, <2>3 DEF AwaitInv
<1>8. ASSUME queue # <<>>, queue' = Tail(queue)
      PROVE  /\ Len(queue') = Len(queue) - 1 /\ Head(queue) = queue[1] /\ 1 \in 1 .. Len(queue)
             /\ \A i \in 1 .. Len(queue') : queue'[i] = queue[i + 1] /\ i + 1 \in 1 .. Len(queue)
  BY <1>1, <1>8
<1>9. CASE Drain
  <2>1. /\ queue # <<>> /\ queue' = Tail(queue) /\ waiting' = (waiting /\ ~ Head(queue).awaited)
        /\ command' = command /\ view' = view
    BY <1>9 DEF Drain, browser
  <2>2. ASSUME NEW i \in 1 .. Len(queue'), queue'[i].awaited
        PROVE  i = Len(queue') /\ waiting' /\ Follows(queue'[i], view'.page)
    <3>1. /\ Len(queue') = Len(queue) - 1 /\ Head(queue) = queue[1] /\ 1 \in 1 .. Len(queue)
          /\ queue'[i] = queue[i + 1] /\ i + 1 \in 1 .. Len(queue)
      BY <1>8, <2>1
    <3>2. i + 1 = Len(queue) /\ waiting /\ Follows(queue[i + 1], view.page)
      BY <2>2, <3>1 DEF AwaitInv
    <3>3. ~ queue[1].awaited
      BY <1>1, <3>1, <3>2 DEF AwaitInv
    <3>4. i = Len(queue')
      BY <1>1, <3>1, <3>2
    <3>5. QED
      BY <2>1, <3>1, <3>2, <3>3, <3>4 DEF Follows
  <2>3. ASSUME command # None, command.awaited
        PROVE  waiting' /\ Follows(command', view'.page) /\ \A i \in 1 .. Len(queue') : ~ queue'[i].awaited
    <3>1. waiting /\ Follows(command, view.page) /\ \A i \in 1 .. Len(queue) : ~ queue[i].awaited
      BY <2>3 DEF AwaitInv
    <3>2. Head(queue) = queue[1] /\ 1 \in 1 .. Len(queue)
          /\ \A i \in 1 .. Len(queue') : queue'[i] = queue[i + 1] /\ i + 1 \in 1 .. Len(queue)
      BY <1>8, <2>1
    <3>3. QED
      BY <2>1, <3>1, <3>2 DEF Follows
  <2>4. QED
    BY <2>1, <2>2, <2>3 DEF AwaitInv
<1>10. CASE Take
  <2>1. /\ queue # <<>> /\ queue' = Tail(queue) /\ command' = Head(queue) /\ waiting' = waiting
        /\ view' = view
    BY <1>10 DEF Take, browser
  <2>2. /\ Len(queue') = Len(queue) - 1 /\ command' = queue[1] /\ 1 \in 1 .. Len(queue)
        /\ \A i \in 1 .. Len(queue') : queue'[i] = queue[i + 1] /\ i + 1 \in 1 .. Len(queue)
    BY <1>8, <2>1
  <2>3. ASSUME NEW i \in 1 .. Len(queue'), queue'[i].awaited
        PROVE  i = Len(queue') /\ waiting' /\ Follows(queue'[i], view'.page) /\ ~ command'.awaited
    <3>1. i + 1 = Len(queue) /\ waiting /\ Follows(queue[i + 1], view.page)
      BY <2>2, <2>3 DEF AwaitInv
    <3>2. ~ queue[1].awaited
      BY <1>1, <2>2, <3>1 DEF AwaitInv
    <3>3. i = Len(queue')
      BY <1>1, <2>2, <3>1
    <3>4. QED
      BY <2>1, <2>2, <3>1, <3>2, <3>3 DEF Follows
  <2>4. command'.awaited => waiting' /\ Follows(command', view'.page)
    BY <2>1, <2>2 DEF AwaitInv, Follows
  <2>5. QED
    BY <2>3, <2>4 DEF AwaitInv
\* The end of a command: the view moves only for the one that was awaited.
<1>11. ASSUME Over, command # None, ~ command.awaited => view' = view
       PROVE  AwaitInv'
  <2>1. command' = None /\ queue' = queue /\ waiting' = (waiting /\ ~ command.awaited)
    BY <1>11 DEF Over
  <2>2. CASE command.awaited
    <3>1. \A i \in 1 .. Len(queue) : ~ queue[i].awaited
      BY <1>11, <2>2 DEF AwaitInv
    <3>2. QED
      BY <2>1, <3>1 DEF AwaitInv
  <2>3. CASE ~ command.awaited
    BY <1>11, <2>1, <2>3 DEF AwaitInv, Follows
  <2>4. QED
    BY <2>2, <2>3
<1>12. CASE Open \/ OpenFails \/ SessionNotFound \/ Frame \/ Act \/ Close \/ (Look /\ Over)
  <2>1. Over /\ command # None
    BY <1>12, CommandIs DEF Open, OpenFails, SessionNotFound, Frame, Act, Close, Look
  <2>2. ~ command.awaited => view' = view
    BY <1>12 DEF Open, OpenFails, SessionNotFound, Frame, Act, Close, Look, Answered, browser
  <2>3. QED
    BY <1>11, <2>1, <2>2
<1>13. CASE Look /\ ~ Over
  <2>1. /\ command # None /\ command \in Commands /\ command.do = "input"
        /\ command' = [command EXCEPT !.do = "act"] /\ UNCHANGED <<queue, waiting, view>>
    BY <1>13, CommandIs DEF Look
  <2>2. command'.awaited = command.awaited /\ command'.by = command.by /\ command'.page = command.page
    BY <2>1 DEF Commands
  <2>3. QED
    BY <2>1, <2>2 DEF AwaitInv, Follows
<1>14. CASE Launch \/ DrainEnds \/ (\E p \in 1 .. MaxPages : PageChanges(p)) \/ UNCHANGED browserVars
  <2>1. UNCHANGED <<queue, command, waiting, view>>
    BY <1>14 DEF Launch, DrainEnds, PageChanges, browserVars, browser
  <2>2. QED
    BY <2>1 DEF AwaitInv, Follows
<1>15. QED
  BY <1>4, <1>6, <1>7, <1>9, <1>10, <1>12, <1>13, <1>14
  DEF BrowserNext, Call, BrowserThread, Dispatch

\* The invariant holds, for any number of pages, contents and commands.
THEOREM BrowserInvariant == BrowserSpec => []BrowserInv
<1>1. BrowserInit => BrowserInv /\ AwaitInv
  BY BrowserAssumption, BrowserStart DEF BrowserInit, AwaitInv
<1>2. BrowserInv /\ AwaitInv /\ [BrowserNext]_browserVars => BrowserInv' /\ AwaitInv'
  BY BrowserAssumption, BrowserSteps, AwaitSteps
<1>3. QED
  BY <1>1, <1>2, PTL DEF BrowserSpec

\* Types.
THEOREM BrowserTypeCorrect == BrowserSpec => []BrowserTypeOK
<1>1. ASSUME BrowserInv
      PROVE  BrowserTypeOK
  <2>1. /\ Len(queue) <= MaxQueue
        /\ DOMAIN pages \subseteq 1 .. opened /\ opened \in 0 .. MaxPages
        /\ failed \subseteq 1 .. opened
        /\ \A p \in DOMAIN pages : pages[p] \in 0 .. MaxContents
    BY <1>1 DEF BrowserInv, QueueInv, PagesInv
  <2>2. /\ session.page \in DOMAIN pages \cup {0}
        /\ view.page \in 0 .. opened /\ view.seq \in Nat /\ view.shown \in Nat
    BY <1>1, <2>1, BrowserAssumption DEF BrowserInv, SessionInv, BrowserAssumption
  <2>3. QED
    BY <1>1, <2>1, <2>2 DEF BrowserInv, BrowserTypeOK
<1>2. QED
  BY <1>1, BrowserInvariant, PTL

\* _dispatch: an input without user_gesture, whoever sent it, acts on a
\* verification page only if the page turned into one after the thread had looked,
\* also for a command that was given up and runs late.
THEOREM GestureForVerificationThm == BrowserSpec => []GestureForVerification
<1>1. BrowserInv => GestureForVerification
  BY DEF BrowserInv
<1>2. QED
  BY <1>1, BrowserInvariant, PTL

\* _capture and the app: the newest frame heard of is shown, or another capture had
\* it first; and no page is left open without a session unless it failed.
THEOREM ShownOrMissedThm == BrowserSpec => []ShownOrMissed
<1>1. BrowserInv => ShownOrMissed
  BY DEF BrowserInv
<1>2. QED
  BY <1>1, BrowserInvariant, PTL
=============================================================================
