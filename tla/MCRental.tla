------------------------------ MODULE MCRental -------------------------------
(* The rental agent's server: its leads (RentalLeads) and its browser         *)
(* (RemoteBrowser).  Of what the two exchange, the text of pages, neither     *)
(* keeps a state, so each is run while the other rests.  The leads are run    *)
(* twice: with two sources of properties whose contacts are written to, and   *)
(* with three sources that are merged and name no contact.                    *)
EXTENDS RentalLeads, RemoteBrowser

CONSTANTS s1, s2, s3, a, b

VARIABLE part    \* the one that runs

\* One property twice, with and without enough to recognise it, and another.
ListingItems ==
  {[sig |-> "x", text |-> "t1", fit |-> "qualified", phones |-> {a}],
   [sig |-> "x", text |-> "t2", fit |-> "rejected", phones |-> {a, b}],
   [sig |-> NoSig, text |-> "t2", fit |-> "candidate", phones |-> {}],
   [sig |-> "y", text |-> "t3", fit |-> "qualified", phones |-> {a, b}]}

\* One property in two texts, another property in the text of the first, and a
\* listing that says too little to recognise either.
MergedItems ==
  {[sig |-> "x", text |-> "m1", fit |-> "qualified", phones |-> {}],
   [sig |-> "x", text |-> "m2", fit |-> "rejected", phones |-> {}],
   [sig |-> "y", text |-> "m1", fit |-> "qualified", phones |-> {}],
   [sig |-> NoSig, text |-> "m2", fit |-> "candidate", phones |-> {}]}

SaidItems == ListingItems \cup MergedItems

Said == {source'[s].text : s \in Sources} \ {""}

Contacts ==
  /\ Next
  /\ source'[s3].prop = 0 /\ count' <= 2 /\ Said \subseteq {"t1", "t2", "t3"}
  /\ op'.do \in {"search", "refresh"} => s3 \notin op'.left

Merges == Next /\ Said \subseteq {"m1", "m2"}

RentalInit ==
  /\ part \in {"contacts", "merges", "browser"}
  /\ Init
  /\ BrowserInit

RentalNext ==
  \/ part = "contacts" /\ Contacts /\ UNCHANGED <<part, browserVars>>
  \/ part = "merges" /\ Merges /\ UNCHANGED <<part, browserVars>>
  \/ part = "browser" /\ BrowserNext /\ UNCHANGED <<part, vars>>

RentalSpec == RentalInit /\ [][RentalNext]_<<part, vars, browserVars>>
=============================================================================
