------------------------------ MODULE MCFiles --------------------------------
(* The two services that keep files next to a record of them: the vault       *)
(* (FileVault, two uploads from the browser next to the tools, on a disk      *)
(* where two files of the greatest size just do not fit) and mastering        *)
(* (MasteringStore, two renders and a link or one and two, where an output    *)
(* shows one link).  They share nothing: each is run while the other rests.   *)
EXTENDS FileVault, MasteringStore

CONSTANTS b1, b2,
          MaxBoth    \* bound: renders and links together

VARIABLE service     \* the one that runs

FilesInit == Init /\ MasteringInit /\ service \in {"vault", "mastering"}

FilesNext ==
  \/ service = "vault" /\ Next /\ UNCHANGED <<service, masteringVars>>
  \/ service = "mastering" /\ MasteringNext /\ renders' + links' =< MaxBoth
     /\ UNCHANGED <<service, vars>>

FilesSpec == FilesInit /\ [][FilesNext]_<<service, vars, masteringVars>>
=============================================================================
