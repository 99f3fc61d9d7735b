----------------------------- MODULE RentalLeads -----------------------------
(* The rental agent's leads: runtime/rental_agent/db.py, filled by            *)
(* scout/service.py and service.py and read by outreach.py, behind the tools  *)
(* of server.py.  Listings are merged into properties; qualified properties   *)
(* are grouped by contact into threads, queued jobs and drafted messages.     *)
(*                                                                            *)
(* The server runs one tool at a time.  A tool makes several transactions and *)
(* may die between any two of them.  What is normalised and ranked from a     *)
(* listing is given by Items; titles, prices and scores are left out.         *)
EXTENDS Integers

CONSTANTS
  Sources,     \* listing urls, texts and phone numbers
  Items,       \* what a source may say: [sig, text, fit, phones]
  Phones,
  NoSig,       \* the signature of a listing that says too little
  MaxProps,    \* bound: properties are numbered up to this
  MaxDeaths    \* bound: how often the server dies

ASSUME LeadsAssumption ==
  /\ \A i \in Items : i.fit \in {"rejected", "qualified", "candidate"} /\ i.phones \subseteq Phones
  /\ MaxProps \in Nat /\ MaxDeaths \in Nat

Props == 1 .. MaxProps

VARIABLES
  source,    \* source -> [prop, text, sig]; prop is 0 while the source is unknown;
             \* sig, its last listing's signature, is history: the table has none
  props,     \* property -> [status, sig, contacts]
  count,     \* how many properties there are
  thread,    \* contact -> [props, status]
  job,       \* contact -> the properties in the queued job; {} if there is none
  drafts,    \* contact -> how many messages were drafted
  running,   \* how many search runs are marked "running"
  op,        \* what the server is in the middle of
  altered,   \* history: properties whose signature was altered (see Alters)
  cut,       \* history: contacts whose enqueue died
  deaths

vars == <<source, props, count, thread, job, drafts, running, op, altered, cut, deaths>>

Idle == [do |-> "idle", left |-> {}]

SourcesOf(p) == {s \in Sources : source[s].prop = p}

NewProp == [status |-> "new", sig |-> NoSig, contacts |-> {}]

-----------------------------------------------------------------------------
(* create_lead: rental_ingest_url and rental_ingest_phone *)

CreateLead(s) ==
  /\ op = Idle
  /\ source[s].prop = 0
  /\ count < MaxProps
  /\ count' = count + 1
  /\ props' = [props EXCEPT ![count'] = NewProp]
  /\ source' = [source EXCEPT ![s].prop = count']
  /\ UNCHANGED <<thread, job, drafts, running, op, altered, cut, deaths>>

-----------------------------------------------------------------------------
(* upsert_normalized_source *)

\* Fault: a rejected property is not looked for.
SameSignatureNotRejected(i) ==
  IF i.sig = NoSig THEN {} ELSE {p \in 1 .. count : props[p].sig = i.sig /\ props[p].status # "rejected"}

SameSignature(i) == IF i.sig = NoSig THEN {} ELSE {p \in 1 .. count : props[p].sig = i.sig}

SameText(i) ==
  {source[s].prop : s \in {r \in Sources :
                             source[r].prop # 0 /\ source[r].text = i.text /\ i.text # ""}}

\* The property that a listing belongs to: its source's own, else one with the
\* same signature, else one with the same text, else a new one.
Target(s, i) ==
  IF source[s].prop # 0 THEN {source[s].prop}
  ELSE IF SameSignature(i) # {} THEN SameSignature(i)
  ELSE IF SameText(i) # {} THEN SameText(i)
  ELSE {count + 1}

\* The listing gives its property another signature: as the word of a known
\* source that said something else before, if anything, or over one that the
\* property has, if a new source was merged by its text.
Alters(s, i, old) ==
  /\ i.sig \notin {NoSig, old.sig}
  /\ IF source[s].prop # 0 THEN i.sig # source[s].sig ELSE old.sig # NoSig

\* The newest listing decides on the status.  It replaces the signature if its
\* source is the property's only one; otherwise it fills it in or changes it.
Upsert(s, i) ==
  \E p \in Target(s, i) :
    LET known == source[s].prop # 0
        sole  == SourcesOf(p) = {s}
        old   == IF p > count THEN NewProp ELSE props[p]
    IN /\ p <= MaxProps
       /\ count' = IF p > count THEN p ELSE count
       /\ props' = [props EXCEPT ![p] =
            [status   |-> i.fit,
             sig      |-> IF sole \/ i.sig # NoSig THEN i.sig ELSE old.sig,
             contacts |-> old.contacts \cup i.phones]]
       /\ source' = [source EXCEPT ![s] = [prop |-> p, text |-> i.text, sig |-> i.sig]]
       /\ altered' = IF Alters(s, i, old) THEN altered \cup {p} ELSE altered

IngestText(s) ==
  /\ op = Idle
  /\ \E i \in Items : Upsert(s, i)
  /\ UNCHANGED <<thread, job, drafts, running, op, cut, deaths>>

-----------------------------------------------------------------------------
(* ScoutService: a search run, and the refresh of one property *)

BeginSearch(ss) ==
  /\ op = Idle
  /\ running' = running + 1
  /\ op' = [do |-> "search", left |-> ss]
  /\ UNCHANGED <<source, props, count, thread, job, drafts, altered, cut, deaths>>

BeginRefresh(p) ==
  /\ op = Idle
  /\ SourcesOf(p) # {}
  /\ op' = [do |-> "refresh", left |-> SourcesOf(p)]
  /\ UNCHANGED <<source, props, count, thread, job, drafts, running, altered, cut, deaths>>

\* One listing, which may have changed since it was last seen.
Found(s) ==
  /\ op.do \in {"search", "refresh"} /\ s \in op.left
  /\ \E i \in Items : Upsert(s, i)
  /\ op' = [op EXCEPT !.left = @ \ {s}]
  /\ UNCHANGED <<thread, job, drafts, running, cut, deaths>>

\* A listing that cannot be read is counted as an error and passed over.
NotFound(s) ==
  /\ op.do \in {"search", "refresh"} /\ s \in op.left
  /\ op' = [op EXCEPT !.left = @ \ {s}]
  /\ UNCHANGED <<source, props, count, thread, job, drafts, running, altered, cut, deaths>>

EndScout ==
  /\ op.do \in {"search", "refresh"} /\ op.left = {}
  /\ running' = IF op.do = "search" THEN running - 1 ELSE running
  /\ op' = Idle
  /\ UNCHANGED <<source, props, count, thread, job, drafts, altered, cut, deaths>>

-----------------------------------------------------------------------------
(* OutreachPlanner *)

\* plan: the qualified ones of the properties asked for, by contact.
Group(ps, c) == {p \in ps : props[p].status = "qualified" /\ c \in props[p].contacts}

BeginEnqueue(ps) ==
  LET group == [c \in Phones |-> Group(ps, c)]
      planned == {c \in Phones : group[c] # {}}
  IN /\ op = Idle
     /\ planned # {}
     /\ op' = [do |-> "thread", left |-> planned, group |-> group]
     /\ UNCHANGED <<source, props, count, thread, job, drafts, running, altered, cut, deaths>>

\* get_or_create_group_thread, for the next contact.
Thread(c) ==
  /\ op.do = "thread" /\ c \in op.left
  /\ thread' = [thread EXCEPT ![c] =
       [props  |-> @.props \cup op.group[c],
        status |-> IF @.status = "none" THEN "draft" ELSE @.status]]
  /\ op' = [do |-> "job", left |-> op.left, group |-> op.group, contact |-> c]
  /\ UNCHANGED <<source, props, count, job, drafts, running, altered, cut, deaths>>

\* Fault: a message is drafted for a job that is used again, too.
JobAlwaysDrafted ==
  LET c == op.contact
  IN /\ op.do = "job"
     /\ job' = IF job[c] # {} THEN job ELSE [job EXCEPT ![c] = op.group[c]]
     /\ op' = [op EXCEPT !.do = "draft"]
     /\ UNCHANGED <<source, props, count, thread, drafts, running, altered, cut, deaths>>

\* enqueue_job: a job with this key is used again as it is, whatever
\* properties its text speaks of, and whatever became of it.
Job ==
  LET c == op.contact
      reused == job[c] # {}
  IN /\ op.do = "job"
     /\ job' = IF reused THEN job ELSE [job EXCEPT ![c] = op.group[c]]
     /\ op' = [op EXCEPT !.do = IF reused THEN "status" ELSE "draft"]
     /\ UNCHANGED <<source, props, count, thread, drafts, running, altered, cut, deaths>>

\* append_message, only for a new job.
Draft ==
  LET c == op.contact
  IN /\ op.do = "draft"
     /\ drafts' = [drafts EXCEPT ![c] = @ + 1]
     /\ op' = [op EXCEPT !.do = "status"]
     /\ UNCHANGED <<source, props, count, thread, job, running, altered, cut, deaths>>

\* set_thread_status, and on to the next contact.
Status ==
  LET c == op.contact
      left == op.left \ {c}
  IN /\ op.do = "status"
     /\ thread' = [thread EXCEPT ![c].status = "needs_channel"]
     /\ op' = IF left = {} THEN Idle ELSE [do |-> "thread", left |-> left, group |-> op.group]
     /\ UNCHANGED <<source, props, count, job, drafts, running, altered, cut, deaths>>

-----------------------------------------------------------------------------
\* The server dies between two transactions.
Die ==
  /\ deaths < MaxDeaths
  /\ op # Idle
  /\ deaths' = deaths + 1
  /\ cut' = IF op.do = "draft" THEN cut \cup {op.contact} ELSE cut
  /\ op' = Idle
  /\ UNCHANGED <<source, props, count, thread, job, drafts, running, altered>>

Init ==
  /\ source = [s \in Sources |-> [prop |-> 0, text |-> "", sig |-> NoSig]]
  /\ props = [p \in Props |-> NewProp]
  /\ count = 0
  /\ thread = [c \in Phones |-> [props |-> {}, status |-> "none"]]
  /\ job = [c \in Phones |-> {}]
  /\ drafts = [c \in Phones |-> 0]
  /\ running = 0
  /\ op = Idle
  /\ altered = {}
  /\ cut = {}
  /\ deaths = 0

Scout ==
  \/ \E ss \in SUBSET Sources : BeginSearch(ss)
  \/ \E p \in 1 .. count : BeginRefresh(p)
  \/ \E s \in Sources : Found(s) \/ NotFound(s)
  \/ EndScout

Outreach ==
  \/ \E ps \in SUBSET (1 .. count) : BeginEnqueue(ps)
  \/ \E c \in Phones : Thread(c)
  \/ Job \/ Draft \/ Status

Next ==
  \/ \E s \in Sources : CreateLead(s) \/ IngestText(s)
  \/ Scout
  \/ Outreach
  \/ Die

Spec == Init /\ [][Next]_vars

-----------------------------------------------------------------------------
(* Properties *)

Statuses == {"new", "rejected", "qualified", "candidate"}

Sigs == {NoSig} \cup {i.sig : i \in Items}
Texts == {""} \cup {i.text : i \in Items}
Plans == [Phones -> SUBSET Props]

\* What the server may be in the middle of.
Ops == {Idle} \cup [do : {"search", "refresh"}, left : SUBSET Sources]
              \cup [do : {"thread"}, left : SUBSET Phones, group : Plans]
              \cup [do : {"job", "draft", "status"}, left : SUBSET Phones, group : Plans,
                     contact : Phones]

\* Types.
TypeOK ==
  /\ source \in [Sources -> [prop : 0 .. count, text : Texts, sig : Sigs]]
  /\ props \in [Props -> [status : Statuses, sig : Sigs, contacts : SUBSET Phones]]
  /\ count \in 0 .. MaxProps
  /\ thread \in [Phones -> [props : SUBSET (1 .. count), status : {"none", "draft", "needs_channel"}]]
  /\ job \in [Phones -> SUBSET (1 .. count)]
  /\ drafts \in [Phones -> Nat]
  /\ running \in Nat
  /\ op \in Ops
  /\ altered \subseteq 1 .. count /\ cut \subseteq Phones
  /\ deaths \in 0 .. MaxDeaths

\* However sources are found, merged and refreshed, two properties have one
\* signature only if one of them was given a signature, at some time, by a known
\* source that had not said so before (a bare lead's first listing is such), or
\* had its signature replaced by a new source that was merged by its text.
\* Sources that repeat what they said make no twins otherwise, and new ones
\* never do: they join the property with their signature.  The second cause is
\* real: the property forgets what its first source said, the next new source
\* with that signature finds nothing and gets a property of its own, and the
\* first source, unchanged, then makes it a twin.
TwinsHaveACause ==
  \A p, q \in 1 .. count :
    p # q /\ props[p].sig = props[q].sig /\ props[p].sig # NoSig
      => p \in altered \/ q \in altered

\* Every contact is written to at most once: a queued job has exactly one
\* draft, however often the contact is queued again and for whatever
\* properties, unless the server died between the two; then it never gets one.
OneDraftPerJob ==
  \A c \in Phones :
    drafts[c] = IF job[c] = {} \/ c \in cut \/ (op.do = "draft" /\ op.contact = c) THEN 0 ELSE 1

\* A job speaks only of properties that its contact's thread lists, so an
\* answer can be traced to them, even if the server died in the middle.
JobIsThreaded == \A c \in Phones : job[c] \subseteq thread[c].props
=============================================================================
