----------------------------- MODULE FilesProofs -----------------------------
(* Proofs about FileVault, for any number of uploads, files, shares and       *)
(* deaths and every disk, reserve and limit, and about MasteringStore, for    *)
(* any number of outputs, links and deaths and every length of its lists.     *)
(*                                                                            *)
(* Vault: the invariant says what the section the server is in relies on: the *)
(* file it works on is on the disk and not listed, and new files get new      *)
(* numbers.                                                                   *)
(*                                                                            *)
(* Mastering: two processes write back metadata they read long before.  The   *)
(* invariant says of every copy that may still be written what the properties *)
(* say of the file: whose audio is on disk, and which derivatives are on      *)
(* record.                                                                    *)
EXTENDS FileVault, MasteringStore, TLAPS, SequenceTheorems

-----------------------------------------------------------------------------
(* FileVault *)


\* The file that is being entered or deleted.
SectionInv ==
  /\ section.at \in {"idle", "staged"} => section.file = 0
  /\ section.at \in {"moved", "unlisted"} =>
       /\ section.file \in 1 .. files
       /\ object[section.file] # Missing
       /\ section.file \notin rows

\* What is listed has a number and its object.
RowsInv == \A f \in rows : f \in 1 .. files /\ object[f] # Missing

VaultInv == TypeOK /\ SectionInv /\ RowsInv /\ SharesEndWithFile /\ OrphansHaveACause

-----------------------------------------------------------------------------
LEMMA VaultStart == Init => VaultInv
<1> SUFFICES ASSUME Init PROVE VaultInv
  OBVIOUS
<1>1. TypeOK
  <2>1. section \in Sections
    BY DEF Init, Idle, Sections
  <2>2. /\ part \in [Sessions -> Nat \cup {Closed}]
        /\ object \in [Files -> Nat \cup {Missing}]
        /\ share \in [Shares -> Files \cup {0}]
    BY DEF Init
  <2>3. files \in 0 .. MaxFiles /\ shares \in 0 .. MaxShares
    BY VaultAssumption DEF Init
  <2>4. others \in 0 .. MaxOthers /\ deaths \in 0 .. MaxDeaths
    BY VaultAssumption DEF Init
  <2>5. QED
    BY <2>1, <2>2, <2>3, <2>4, VaultAssumption DEF Init, TypeOK
<1>2. SectionInv /\ RowsInv /\ SharesEndWithFile /\ OrphansHaveACause
  BY DEF Init, SectionInv, RowsInv, SharesEndWithFile, OrphansHaveACause, Idle
<1>3. QED
  BY <1>1, <1>2 DEF VaultInv

\* A file that is moved gets the next number, and nothing else changes its
\* object.
LEMMA MovedGood ==
  ASSUME VaultInv, NEW size \in Nat, NEW tool \in BOOLEAN, Moved(size, tool)
  PROVE  /\ files' \in Files /\ files' = files + 1 /\ files' \notin rows
         /\ object' \in [Files -> Nat \cup {Missing}]
         /\ object'[files'] = size /\ size # Missing
         /\ \A f \in Files \ {files'} : object'[f] = object[f]
         /\ section' \in Sections
         /\ section'.at = "moved" /\ section'.file = files' /\ section'.grown = 0
<1>1. files \in Nat /\ MaxFiles \in Nat /\ files' = files + 1 /\ files' <= MaxFiles
  BY VaultAssumption DEF VaultInv, TypeOK, Moved
<1>2. files' \in Files /\ files' \notin rows
  BY <1>1 DEF Files, VaultInv, RowsInv
<1>3. object' = [object EXCEPT ![files'] = size]
      /\ section' = [Idle EXCEPT !.at = "moved", !.size = size, !.file = files', !.tool = tool]
  BY DEF Moved
<1>4. section' \in Sections /\ section'.at = "moved" /\ section'.file = files' /\ section'.grown = 0
  BY <1>2, <1>3 DEF Idle, Sections
<1>5. size # Missing
  BY DEF Missing
<1>6. QED
  BY <1>1, <1>2, <1>3, <1>4, <1>5 DEF VaultInv, TypeOK

(* One lemma per step *)

\* An upload begins with nothing.
LEMMA BeginStep ==
  ASSUME VaultInv, NEW s \in Sessions, Begin(s)
  PROVE  VaultInv'
<1>1. TypeOK'
  BY VaultAssumption DEF VaultInv, Begin, TypeOK
<1>2. SectionInv'
  BY VaultAssumption DEF Begin, SectionInv, Idle
<1>3. RowsInv'
  BY VaultAssumption DEF VaultInv, Begin, RowsInv
<1>4. SharesEndWithFile'
  BY VaultAssumption DEF VaultInv, Begin, SharesEndWithFile
<1>5. OrphansHaveACause'
  BY VaultAssumption DEF VaultInv, Begin, OrphansHaveACause
<1>6. QED
  BY <1>1, <1>2, <1>3, <1>4, <1>5 DEF VaultInv

\* What was staged is free again.
LEMMA AbortStep ==
  ASSUME VaultInv, NEW s \in Sessions, Abort(s)
  PROVE  VaultInv'
<1>1. TypeOK'
  BY VaultAssumption DEF VaultInv, Abort, TypeOK
<1>2. SectionInv'
  BY VaultAssumption DEF Abort, SectionInv, Idle
<1>3. RowsInv'
  BY VaultAssumption DEF VaultInv, Abort, RowsInv
<1>4. SharesEndWithFile'
  BY VaultAssumption DEF VaultInv, Abort, SharesEndWithFile
<1>5. OrphansHaveACause'
  BY VaultAssumption DEF VaultInv, Abort, OrphansHaveACause
<1>6. QED
  BY <1>1, <1>2, <1>3, <1>4, <1>5 DEF VaultInv

\* A chunk is written above the reserve.
LEMMA WriteStep ==
  ASSUME VaultInv, NEW s \in Sessions, Write(s)
  PROVE  VaultInv'
<1>1. TypeOK'
  BY VaultAssumption DEF VaultInv, Write, Fits, TypeOK
<1>2. SectionInv'
  BY VaultAssumption DEF Write, SectionInv, Idle
<1>3. RowsInv'
  BY VaultAssumption DEF VaultInv, Write, RowsInv
<1>4. SharesEndWithFile'
  BY VaultAssumption DEF VaultInv, Write, SharesEndWithFile
<1>5. OrphansHaveACause'
  BY VaultAssumption DEF VaultInv, Write, OrphansHaveACause
<1>6. QED
  BY <1>1, <1>2, <1>3, <1>4, <1>5 DEF VaultInv

\* A file gets a new number, so nothing lists it.
LEMMA FinishStep ==
  ASSUME VaultInv, NEW s \in Sessions, Finish(s)
  PROVE  VaultInv'
<1>1. /\ files' \in Files /\ files' = files + 1 /\ files' \notin rows
      /\ object' \in [Files -> Nat \cup {Missing}] /\ object'[files'] # Missing
      /\ \A f \in Files \ {files'} : object'[f] = object[f]
      /\ section' \in Sections
      /\ section'.at = "moved" /\ section'.file = files'
  <2>1. Moved(part[s], FALSE) /\ part[s] \in Nat
    BY DEF Finish, VaultInv, TypeOK, Closed, Sections
  <2>2. QED
    BY <2>1, MovedGood
<1>2. UNCHANGED <<rows, share, cut, unfit, deaths, others, shares, free>>
  BY DEF Finish
<1>3. TypeOK'
  <2>1. part' \in [Sessions -> Nat \cup {Closed}]
    BY DEF Finish, VaultInv, TypeOK
  <2>2. files' \in 0 .. MaxFiles
    BY <1>1 DEF Files
  <2>3. QED
    BY <1>1, <1>2, <2>1, <2>2 DEF VaultInv, TypeOK
<1>4. SectionInv' /\ RowsInv'
  BY <1>1, <1>2 DEF VaultInv, TypeOK, SectionInv, RowsInv
<1>5. SharesEndWithFile' /\ OrphansHaveACause'
  BY <1>1, <1>2 DEF Finish, VaultInv, SharesEndWithFile, OrphansHaveACause, Idle, Files
<1>6. QED
  BY <1>3, <1>4, <1>5 DEF VaultInv

\* Bytes are staged.
LEMMA StoreStep ==
  ASSUME VaultInv, NEW size \in 0 .. MaxUpload, NEW grown \in Growth, Store(size, grown)
  PROVE  VaultInv'
<1>1. TypeOK'
  <2>1. /\ size \in Nat /\ grown \in Nat /\ size + grown \in Nat
        /\ free - size - grown \in Nat
    BY VaultAssumption DEF VaultInv, TypeOK, Store
  <2>2. section' \in Sections /\ free' \in Nat
    BY <2>1 DEF Store, Idle, Sections
  <2>3. QED
    BY <2>2 DEF VaultInv, Store, TypeOK
<1>2. SectionInv'
  BY VaultAssumption DEF Store, SectionInv, Idle
<1>3. RowsInv'
  BY VaultAssumption DEF VaultInv, Store, RowsInv
<1>4. SharesEndWithFile'
  BY VaultAssumption DEF VaultInv, Store, SharesEndWithFile
<1>5. OrphansHaveACause'
  BY VaultAssumption DEF VaultInv, Store, OrphansHaveACause
<1>6. QED
  BY <1>1, <1>2, <1>3, <1>4, <1>5 DEF VaultInv

\* A file gets a new number, so nothing lists it.
LEMMA StoreMovesStep ==
  ASSUME VaultInv, StoreMoves
  PROVE  VaultInv'
<1>1. /\ files' \in Files /\ files' = files + 1 /\ files' \notin rows
      /\ object' \in [Files -> Nat \cup {Missing}] /\ object'[files'] # Missing
      /\ \A f \in Files \ {files'} : object'[f] = object[f]
      /\ section' \in Sections
      /\ section'.at = "moved" /\ section'.file = files'
  <2>1. Moved(section.size, TRUE) /\ section.size \in Nat
    BY DEF StoreMoves, VaultInv, TypeOK, Closed, Sections
  <2>2. QED
    BY <2>1, MovedGood
<1>2. UNCHANGED <<rows, share, cut, unfit, deaths, others, shares, free>>
  BY DEF StoreMoves
<1>3. TypeOK'
  <2>1. part' \in [Sessions -> Nat \cup {Closed}]
    BY DEF StoreMoves, VaultInv, TypeOK
  <2>2. files' \in 0 .. MaxFiles
    BY <1>1 DEF Files
  <2>3. QED
    BY <1>1, <1>2, <2>1, <2>2 DEF VaultInv, TypeOK
<1>4. SectionInv' /\ RowsInv'
  BY <1>1, <1>2 DEF VaultInv, TypeOK, SectionInv, RowsInv
<1>5. SharesEndWithFile' /\ OrphansHaveACause'
  BY <1>1, <1>2 DEF StoreMoves, VaultInv, SectionInv, SharesEndWithFile, OrphansHaveACause, Files
<1>6. QED
  BY <1>3, <1>4, <1>5 DEF VaultInv

\* What was staged is free again.
LEMMA StoreRefusesStep ==
  ASSUME VaultInv, StoreRefuses
  PROVE  VaultInv'
<1>1. TypeOK'
  BY VaultAssumption DEF VaultInv, StoreRefuses, TypeOK, Sections, Idle
<1>2. SectionInv'
  BY VaultAssumption DEF StoreRefuses, SectionInv, Idle
<1>3. RowsInv'
  BY VaultAssumption DEF VaultInv, StoreRefuses, RowsInv
<1>4. SharesEndWithFile'
  BY VaultAssumption DEF VaultInv, StoreRefuses, SharesEndWithFile
<1>5. OrphansHaveACause'
  BY VaultAssumption DEF VaultInv, StoreRefuses, OrphansHaveACause, SectionInv, Idle
<1>6. QED
  BY <1>1, <1>2, <1>3, <1>4, <1>5 DEF VaultInv

\* A file that is on the disk is listed.
LEMMA InsertStep ==
  ASSUME VaultInv, Insert
  PROVE  VaultInv'
<1>1. TypeOK'
  <2>1. section' \in Sections /\ section.file \in Files
    BY DEF Insert, VaultInv, TypeOK, SectionInv, Idle, Sections
  <2>2. QED
    BY <2>1 DEF VaultInv, Insert, TypeOK
<1>2. SectionInv'
  BY VaultAssumption DEF Insert, SectionInv, Idle
<1>3. RowsInv'
  BY VaultAssumption DEF VaultInv, Insert, SectionInv, RowsInv
<1>4. SharesEndWithFile'
  BY VaultAssumption DEF VaultInv, Insert, SharesEndWithFile
<1>5. OrphansHaveACause'
  BY VaultAssumption DEF VaultInv, Insert, OrphansHaveACause
<1>6. QED
  BY <1>1, <1>2, <1>3, <1>4, <1>5 DEF VaultInv

\* A file that is not listed is removed.
LEMMA InsertFailsStep ==
  ASSUME VaultInv, InsertFails
  PROVE  VaultInv'
<1>1. TypeOK'
  BY VaultAssumption DEF VaultInv, InsertFails, TypeOK, SectionInv, RowsInv, Sections, Idle
<1>2. SectionInv'
  BY VaultAssumption DEF InsertFails, SectionInv, Idle
<1>3. RowsInv'
  BY VaultAssumption DEF VaultInv, InsertFails, SectionInv, RowsInv
<1>4. SharesEndWithFile'
  BY VaultAssumption DEF VaultInv, InsertFails, SharesEndWithFile
<1>5. OrphansHaveACause'
  BY VaultAssumption DEF VaultInv, InsertFails, TypeOK, OrphansHaveACause
<1>6. QED
  BY <1>1, <1>2, <1>3, <1>4, <1>5 DEF VaultInv

\* A file that is not listed stays, for a reason.
LEMMA TagsRefusedStep ==
  ASSUME VaultInv, TagsRefused
  PROVE  VaultInv'
<1>1. TypeOK'
  <2>1. section' \in Sections /\ section.file \in Files
    BY DEF TagsRefused, VaultInv, TypeOK, SectionInv, Idle, Sections
  <2>2. QED
    BY <2>1 DEF VaultInv, TagsRefused, TypeOK
<1>2. SectionInv'
  BY VaultAssumption DEF TagsRefused, SectionInv, Idle
<1>3. RowsInv'
  BY VaultAssumption DEF VaultInv, TagsRefused, RowsInv
<1>4. SharesEndWithFile'
  BY VaultAssumption DEF VaultInv, TagsRefused, SharesEndWithFile
<1>5. OrphansHaveACause'
  BY VaultAssumption DEF VaultInv, TagsRefused, OrphansHaveACause
<1>6. QED
  BY <1>1, <1>2, <1>3, <1>4, <1>5 DEF VaultInv

\* A file goes from the list with its shares.
LEMMA DeleteStep ==
  ASSUME VaultInv, NEW f \in Files, Delete(f)
  PROVE  VaultInv'
<1>1. TypeOK'
  BY VaultAssumption DEF VaultInv, Delete, SharesWithout, TypeOK, SectionInv, RowsInv, Sections, Files,
     Shares, Closed, Missing, Idle
<1>2. SectionInv'
  BY VaultAssumption DEF VaultInv, Delete, SectionInv, RowsInv
<1>3. RowsInv'
  BY VaultAssumption DEF VaultInv, Delete, RowsInv
<1>4. SharesEndWithFile'
  BY VaultAssumption DEF VaultInv, Delete, SharesWithout, SharesEndWithFile
<1>5. OrphansHaveACause'
  BY VaultAssumption DEF VaultInv, Delete, OrphansHaveACause, Files, Idle
<1>6. QED
  BY <1>1, <1>2, <1>3, <1>4, <1>5 DEF VaultInv

\* A file that is not listed is removed.
LEMMA UnlinkStep ==
  ASSUME VaultInv, Unlink
  PROVE  VaultInv'
<1>1. TypeOK'
  BY VaultAssumption DEF VaultInv, Unlink, TypeOK, SectionInv, RowsInv, Sections, Idle
<1>2. SectionInv'
  BY VaultAssumption DEF Unlink, SectionInv, Idle
<1>3. RowsInv'
  BY VaultAssumption DEF VaultInv, Unlink, SectionInv, RowsInv
<1>4. SharesEndWithFile'
  BY VaultAssumption DEF VaultInv, Unlink, SharesEndWithFile
<1>5. OrphansHaveACause'
  BY VaultAssumption DEF VaultInv, Unlink, TypeOK, OrphansHaveACause
<1>6. QED
  BY <1>1, <1>2, <1>3, <1>4, <1>5 DEF VaultInv

\* A share leads to a listed file.
LEMMA CreateShareStep ==
  ASSUME VaultInv, NEW f \in Files, CreateShare(f)
  PROVE  VaultInv'
<1>1. TypeOK'
  BY VaultAssumption DEF VaultInv, CreateShare, TypeOK, Shares
<1>2. SectionInv'
  BY VaultAssumption DEF CreateShare, SectionInv, Idle
<1>3. RowsInv'
  BY VaultAssumption DEF VaultInv, CreateShare, RowsInv
<1>4. SharesEndWithFile'
  BY VaultAssumption DEF VaultInv, CreateShare, SharesEndWithFile
<1>5. OrphansHaveACause'
  BY VaultAssumption DEF VaultInv, CreateShare, OrphansHaveACause
<1>6. QED
  BY <1>1, <1>2, <1>3, <1>4, <1>5 DEF VaultInv

\* A share ends.
LEMMA EndShareStep ==
  ASSUME VaultInv, NEW t \in Shares, EndShare(t)
  PROVE  VaultInv'
<1>1. TypeOK'
  BY VaultAssumption DEF VaultInv, EndShare, TypeOK
<1>2. SectionInv'
  BY VaultAssumption DEF EndShare, SectionInv, Idle
<1>3. RowsInv'
  BY VaultAssumption DEF VaultInv, EndShare, RowsInv
<1>4. SharesEndWithFile'
  BY VaultAssumption DEF VaultInv, EndShare, SharesEndWithFile
<1>5. OrphansHaveACause'
  BY VaultAssumption DEF VaultInv, EndShare, OrphansHaveACause
<1>6. QED
  BY <1>1, <1>2, <1>3, <1>4, <1>5 DEF VaultInv

\* A file that was being worked on stays, for a reason.
LEMMA DieStep ==
  ASSUME VaultInv, Die
  PROVE  VaultInv'
<1>1. TypeOK'
  <2>1. section' \in Sections /\ (section.at \in {"moved", "unlisted"} => section.file \in Files)
    BY DEF Die, VaultInv, TypeOK, SectionInv, Idle, Sections
  <2>2. deaths' \in 0 .. MaxDeaths
    BY VaultAssumption DEF Die, VaultInv, TypeOK
  <2>3. cut' \subseteq Files /\ part' \in [Sessions -> Nat \cup {Closed}]
    BY <2>1 DEF Die, VaultInv, TypeOK
  <2>4. QED
    BY <2>1, <2>2, <2>3 DEF VaultInv, Die, TypeOK
<1>2. SectionInv'
  BY VaultAssumption DEF Die, SectionInv, Idle
<1>3. RowsInv'
  BY VaultAssumption DEF VaultInv, Die, RowsInv
<1>4. SharesEndWithFile'
  BY VaultAssumption DEF VaultInv, Die, SharesEndWithFile
<1>5. OrphansHaveACause'
  <2> SUFFICES ASSUME NEW f \in Files, object[f] # Missing, f = section.file, f \notin rows
               PROVE  f \in cut'
    BY DEF Die, VaultInv, OrphansHaveACause
  <2>1. section.at \in {"moved", "unlisted"}
    BY DEF VaultInv, TypeOK, Sections, SectionInv, Files
  <2>2. QED
    BY <2>1 DEF Die
<1>6. QED
  BY <1>1, <1>2, <1>3, <1>4, <1>5 DEF VaultInv

\* Others take space.
LEMMA OthersTakeStep ==
  ASSUME VaultInv, OthersTake
  PROVE  VaultInv'
<1>1. TypeOK'
  BY VaultAssumption DEF VaultInv, OthersTake, TypeOK
<1>2. SectionInv'
  BY VaultAssumption DEF VaultInv, OthersTake, SectionInv
<1>3. RowsInv'
  BY VaultAssumption DEF VaultInv, OthersTake, RowsInv
<1>4. SharesEndWithFile'
  BY VaultAssumption DEF VaultInv, OthersTake, SharesEndWithFile
<1>5. OrphansHaveACause'
  BY VaultAssumption DEF VaultInv, OthersTake, OrphansHaveACause
<1>6. QED
  BY <1>1, <1>2, <1>3, <1>4, <1>5 DEF VaultInv

\* Others give it back.
LEMMA OthersGiveStep ==
  ASSUME VaultInv, OthersGive
  PROVE  VaultInv'
<1>1. TypeOK'
  BY VaultAssumption DEF VaultInv, OthersGive, TypeOK
<1>2. SectionInv'
  BY VaultAssumption DEF VaultInv, OthersGive, SectionInv
<1>3. RowsInv'
  BY VaultAssumption DEF VaultInv, OthersGive, RowsInv
<1>4. SharesEndWithFile'
  BY VaultAssumption DEF VaultInv, OthersGive, SharesEndWithFile
<1>5. OrphansHaveACause'
  BY VaultAssumption DEF VaultInv, OthersGive, OrphansHaveACause
<1>6. QED
  BY <1>1, <1>2, <1>3, <1>4, <1>5 DEF VaultInv

-----------------------------------------------------------------------------
\* No step breaks the invariant.
LEMMA VaultSteps == VaultInv /\ [Next]_vars => VaultInv'
<1> SUFFICES ASSUME VaultInv, [Next]_vars PROVE VaultInv'
  OBVIOUS
<1>1. CASE \E s \in Sessions : Browser(s)
  BY <1>1, BeginStep, WriteStep, FinishStep, AbortStep DEF Browser
<1>2. CASE Tool
  BY <1>2, StoreStep, DeleteStep, CreateShareStep, EndShareStep DEF Tool
<1>3. CASE Section
  BY <1>3, StoreMovesStep, StoreRefusesStep, InsertStep, InsertFailsStep, TagsRefusedStep,
     UnlinkStep DEF Section
<1>4. CASE Die \/ OthersTake \/ OthersGive
  BY <1>4, DieStep, OthersTakeStep, OthersGiveStep
<1>5. CASE UNCHANGED vars
  BY <1>5 DEF vars, VaultInv, TypeOK, SectionInv, RowsInv, SharesEndWithFile, OrphansHaveACause
<1>6. QED
  BY <1>1, <1>2, <1>3, <1>4, <1>5 DEF Next

THEOREM VaultInvariance == Spec => []VaultInv
<1>1. Init => VaultInv
  BY VaultStart
<1>2. VaultInv /\ [Next]_vars => VaultInv'
  BY VaultSteps
<1>3. QED
  BY <1>1, <1>2, PTL DEF Spec

\* Types.
THEOREM VaultTypeCorrect == Spec => []TypeOK
<1>1. VaultInv => TypeOK
  BY DEF VaultInv
<1>2. QED
  BY <1>1, VaultInvariance, PTL

\* What is listed is stored (FileVaultStore: _finalize_staging, delete), at
\* whatever step the process dies.
THEOREM ListedIsStoredThm == Spec => []ListedIsStored
<1>1. VaultInv => ListedIsStored
  BY DEF VaultInv, RowsInv, ListedIsStored
<1>2. QED
  BY <1>1, VaultInvariance, PTL

\* A share that opens leads to a listed file (FileVaultStore.delete, whose
\* database deletes the shares along).
THEOREM SharesEndWithFileThm == Spec => []SharesEndWithFile
<1>1. VaultInv => SharesEndWithFile
  BY DEF VaultInv
<1>2. QED
  BY <1>1, VaultInvariance, PTL

\* An object that nothing names has one of two causes (FileVaultStore:
\* _finalize_staging, delete).
THEOREM OrphansHaveACauseThm == Spec => []OrphansHaveACause
<1>1. VaultInv => OrphansHaveACause
  BY DEF VaultInv
<1>2. QED
  BY <1>1, VaultInvariance, PTL

\* The vault leaves the reserve alone (_check_capacity, StreamingUpload.write),
\* except for what an imported file grew.
THEOREM ReserveKeptThm == Spec => ReserveKept
<1> DEFINE Keeps == free' < free /\ others' = others => free' >= Reserve - section'.grown
<1>1. VaultInv /\ [Next]_vars => [Keeps]_vars
  <2> SUFFICES ASSUME VaultInv, Next PROVE Keeps
    OBVIOUS
  <2>1. CASE \E s \in Sessions : Browser(s)
    BY <2>1, VaultAssumption DEF Browser, Begin, Write, Finish, Abort, Moved, Fits, VaultInv, TypeOK,
       Idle
  <2>2. CASE Tool
    <3>1. ASSUME NEW size \in 0 .. MaxUpload, NEW grown \in Growth, Store(size, grown) PROVE Keeps
      BY <3>1, VaultAssumption DEF Store, Fits, VaultInv, TypeOK
    <3>2. CASE ~ \E size \in 0 .. MaxUpload, grown \in Growth : Store(size, grown)
      <4>1. free' = free
        BY <2>2, <3>2 DEF Tool, Delete, CreateShare, EndShare
      <4>2. QED
        BY <4>1 DEF VaultInv, TypeOK
    <3>3. QED
      BY <3>1, <3>2
  <2>3. CASE Section
    <3>1. free \in Nat /\ section.size \in Nat
      BY DEF VaultInv, TypeOK, Sections
    <3>2. CASE StoreRefuses \/ InsertFails
      BY <3>1, <3>2 DEF StoreRefuses, InsertFails
    <3>3. CASE StoreMoves \/ Insert \/ TagsRefused
      <4>1. free' = free
        BY <3>3 DEF StoreMoves, Insert, TagsRefused
      <4>2. QED
        BY <3>1, <4>1
    <3>4. CASE Unlink
      <4>1. object[section.file] \in Nat
        <5>1. section.file \in Files /\ object[section.file] # Missing
          BY <3>4, VaultAssumption DEF Unlink, VaultInv, TypeOK, SectionInv, Files
        <5>2. QED
          BY <5>1 DEF VaultInv, TypeOK
      <4>2. QED
        BY <3>1, <3>4, <4>1 DEF Unlink
    <3>5. QED
      BY <2>3, <3>2, <3>3, <3>4 DEF Section
  <2>4. CASE Die \/ OthersTake \/ OthersGive
    BY <2>4 DEF Die, OthersTake, OthersGive, VaultInv, TypeOK
  <2>5. QED
    BY <2>1, <2>2, <2>3, <2>4 DEF Next
<1>2. QED
  BY <1>1, VaultInvariance, PTL DEF Spec, ReserveKept

-----------------------------------------------------------------------------
(* MasteringStore: links *)


\* Tokens are given once: what was revoked leads nowhere, and no token beyond
\* the counter leads anywhere yet.
LinksInv ==
  /\ link \in [Tokens -> Outputs \cup {0}]
  /\ links \in Nat
  /\ \A t \in Tokens : link[t] # 0 => t <= links
  /\ \A t \in revoked : t \in Tokens /\ t <= links /\ link[t] = 0

\* A step that makes no link: links go dead, and what is revoked was a link that
\* is dead from now on.
LEMMA LinksEnd ==
  ASSUME LinksInv, UNCHANGED links, link' \in [Tokens -> Outputs \cup {0}],
         \A t \in Tokens : link'[t] \in {link[t], 0},
         \A t \in revoked' \ revoked : t \in Tokens /\ link[t] # 0 /\ link'[t] = 0
  PROVE  LinksInv'
BY DEF LinksInv

LEMMA LinksStep ==
  ASSUME LinksInv, [MasteringNext]_masteringVars
  PROVE  LinksInv'
<1>1. CASE UNCHANGED <<link, links, revoked>>
  BY <1>1 DEF LinksInv
<1>2. ASSUME NEW p \in Servers, Unshares(p) PROVE LinksInv'
  <2> DEFINE dead == {t \in Tokens : link[t] # 0 /\ call[p].output \in {0, link[t]}}
  <2>1. /\ link' = [t \in Tokens |-> IF t \in dead THEN 0 ELSE link[t]]
        /\ revoked' = revoked \cup dead
        /\ links' = links
    BY <1>2 DEF Unshares, LinksOf
  <2>2. dead \subseteq Tokens /\ \A t \in dead : link[t] # 0
    OBVIOUS
  <2> HIDE DEF dead
  <2>3. QED
    BY <2>1, <2>2, LinksEnd DEF LinksInv
<1>3. ASSUME NEW t \in Tokens, RevokeShare(t) \/ LinkExpires(t) PROVE LinksInv'
  <2>1. /\ link[t] # 0 /\ link' = [link EXCEPT ![t] = 0] /\ links' = links
        /\ revoked' \in {revoked, revoked \cup {t}}
    BY <1>3, Zenon DEF RevokeShare, LinkExpires, history
  <2>2. QED
    BY <2>1, LinksEnd DEF LinksInv
<1>4. ASSUME NEW o \in Outputs, CreateLink(o) PROVE LinksInv'
  <2>1. /\ links < MaxLinks /\ links' = links + 1 /\ link' = [link EXCEPT ![links'] = o]
        /\ revoked' = revoked
    BY <1>4, Zenon DEF CreateLink, history
  <2>2. links' \in Tokens /\ links \in Nat /\ Tokens \subseteq Nat
    BY <2>1, MasteringAssumption DEF LinksInv, Tokens
  <2>3. \A t \in revoked : t # links'
    BY <2>1, <2>2 DEF LinksInv
  <2>4. /\ link' \in [Tokens -> Outputs \cup {0}]
        /\ \A t \in Tokens \ {links'} : link'[t] = link[t]
    BY <2>1, <2>2 DEF LinksInv
  <2>5. links <= links' /\ links' <= links' /\ links' \in Nat /\ \A t \in Tokens : t <= links => t <= links'
    BY <2>1, <2>2
  <2>6. \A t \in Tokens : link'[t] # 0 => t <= links'
    BY <2>4, <2>5 DEF LinksInv
  <2>7. \A t \in revoked' : t \in Tokens /\ t <= links' /\ link'[t] = 0
    BY <2>1, <2>3, <2>4, <2>5 DEF LinksInv
  <2>8. QED
    BY <2>4, <2>5, <2>6, <2>7 DEF LinksInv
<1>5. QED
  BY <1>1, <1>2, <1>3, <1>4
  DEF MasteringNext, MasteringTool, Continues, PanelTool, PanelContinues, masteringVars, history,
      Upload, UploadSaves, Analyze, AnalyzeSaves, PreviewSource, PreviewSaves, Render, Encodes, Probes,
      RenderSaves, EnsureMp3, Derives, PanelSaves, DeleteOutput, Unlinks, Unlists, DeleteAsset,
      Unloads, Clears, Forgets, Unshows, MasteringDies

\* A link that was revoked, or deleted with what it led to, stays dead.
THEOREM LinkEndsForGoodThm == MasteringSpec => []LinkEndsForGood
<1>1. MasteringInit => LinksInv
  BY MasteringAssumption DEF MasteringInit, LinksInv
<1>2. LinksInv /\ [MasteringNext]_masteringVars => LinksInv'
  BY LinksStep
<1>3. LinksInv => LinkEndsForGood
  BY DEF LinksInv, LinkEndsForGood
<1>4. QED
  BY <1>1, <1>2, <1>3, PTL DEF MasteringSpec

-----------------------------------------------------------------------------
(* MasteringStore: lists *)


LEMMA InSet == ASSUME NEW S, NEW list \in Seq(S) PROVE ToSet(list) = {list[i] : i \in 1 .. Len(list)}
BY LenProperties DEF ToSet

LEMMA SubSeqOf ==
  ASSUME NEW S, NEW list \in Seq(S), NEW m \in Nat \ {0}, NEW n \in Nat, n <= Len(list)
  PROVE  /\ SubSeq(list, m, n) \in Seq(S)
         /\ ToSet(SubSeq(list, m, n)) \subseteq ToSet(list)
         /\ IsInjective(list) => IsInjective(SubSeq(list, m, n))
<1> DEFINE sub == SubSeq(list, m, n)
<1>1. Len(list) \in Nat /\ DOMAIN list = 1 .. Len(list)
  BY LenProperties
<1>2. \A i \in m .. n : list[i] \in S
  BY <1>1, ElementOfSeq
<1>3. /\ sub \in Seq(S)
      /\ Len(sub) = IF m <= n THEN n - m + 1 ELSE 0
      /\ \A i \in 1 .. n - m + 1 : sub[i] = list[m + i - 1]
  BY <1>2, SubSeqProperties
<1> HIDE DEF sub
<1>4. DOMAIN sub = 1 .. Len(sub) /\ \A i \in DOMAIN sub : m + i - 1 \in DOMAIN list /\ sub[i] = list[m + i - 1]
  <2>1. DOMAIN sub = 1 .. Len(sub)
    BY <1>3, LenProperties
  <2>2. QED
    BY <1>1, <1>3, <2>1
<1>5. ToSet(sub) \subseteq ToSet(list)
  BY <1>4 DEF ToSet
<1>6. ASSUME IsInjective(list)
      PROVE  IsInjective(sub)
  <2>1. ASSUME NEW i \in DOMAIN sub, NEW j \in DOMAIN sub, sub[i] = sub[j]
        PROVE  i = j
    <3>1. m + i - 1 = m + j - 1
      BY <1>4, <1>6, <2>1 DEF IsInjective
    <3>2. i \in Int /\ j \in Int
      BY <1>4
    <3>3. QED
      BY <3>1, <3>2
  <2>2. QED
    BY <2>1 DEF IsInjective
<1>7. QED
  BY <1>3, <1>5, <1>6 DEF sub

LEMMA NewestOf ==
  ASSUME NEW S, NEW list \in Seq(S), NEW n \in Nat \ {0}
  PROVE  /\ Newest(list, n) \in Seq(S)
         /\ ToSet(Newest(list, n)) \subseteq ToSet(list)
         /\ IsInjective(list) => IsInjective(Newest(list, n))
<1>1. Len(list) \in Nat
  BY LenProperties
<1> DEFINE first == IF Len(list) > n THEN Len(list) - n + 1 ELSE 1
<1>2. first \in Nat \ {0} /\ Newest(list, n) = SubSeq(list, first, Len(list))
  BY <1>1 DEF Newest
<1> HIDE DEF first
<1>3. QED
  BY <1>1, <1>2, SubSeqOf

LEMMA AppendOf ==
  ASSUME NEW S, NEW list \in Seq(S), NEW e \in S
  PROVE  /\ Append(list, e) \in Seq(S)
         /\ ToSet(Append(list, e)) = ToSet(list) \cup {e}
         /\ IsInjective(list) /\ e \notin ToSet(list) => IsInjective(Append(list, e))
<1> DEFINE more == Append(list, e)
           n == Len(list)
<1>1. n \in Nat /\ DOMAIN list = 1 .. n
  BY LenProperties
<1>2. /\ more \in Seq(S) /\ Len(more) = n + 1
      /\ \A i \in 1 .. n : more[i] = list[i]
      /\ more[n + 1] = e
  BY AppendProperties
<1> HIDE DEF more, n
<1>3. DOMAIN more = 1 .. n + 1
  BY <1>2, LenProperties
<1>4. ToSet(more) = ToSet(list) \cup {e}
  <2>1. 1 .. n + 1 = (1 .. n) \cup {n + 1}
    BY <1>1
  <2>2. QED
    BY <1>1, <1>2, <1>3, <2>1 DEF ToSet
<1>5. ASSUME IsInjective(list), e \notin ToSet(list)
      PROVE  IsInjective(more)
  <2>1. ASSUME NEW i \in 1 .. n + 1, NEW j \in 1 .. n + 1, more[i] = more[j]
        PROVE  i = j
    <3>1. \A k \in 1 .. n : more[k] # e
      BY <1>1, <1>2, <1>5 DEF ToSet
    <3>2. i \in 1 .. n \/ i = n + 1
      BY <1>1
    <3>3. j \in 1 .. n \/ j = n + 1
      BY <1>1
    <3>4. CASE i \in 1 .. n /\ j \in 1 .. n
      BY <1>1, <1>2, <1>5, <2>1, <3>4 DEF IsInjective
    <3>5. QED
      BY <1>2, <2>1, <3>1, <3>2, <3>3, <3>4
  <2>2. QED
    BY <1>3, <2>1 DEF IsInjective
<1>6. QED
  BY <1>2, <1>4, <1>5 DEF more

LEMMA WithoutOf ==
  ASSUME NEW S, NEW list \in Seq(S), NEW e
  PROVE  /\ Without(list, e) \in Seq(S)
         /\ ToSet(Without(list, e)) \subseteq ToSet(list)
         /\ IsInjective(list) => IsInjective(Without(list, e)) /\ e \notin ToSet(Without(list, e))
<1> DEFINE n == Len(list)
<1>1. n \in Nat /\ DOMAIN list = 1 .. n
  BY LenProperties
<1>2. CASE ~ Contains(list, e)
  BY <1>1, <1>2 DEF Without, Contains, ToSet
<1>3. CASE Contains(list, e)
  <2> DEFINE i == CHOOSE j \in DOMAIN list : list[j] = e
             head == SubSeq(list, 1, i - 1)
             tail == SubSeq(list, i + 1, n)
             rest == head \o tail
             at(j) == IF j < i THEN j ELSE j + 1
  <2>1. i \in 1 .. n /\ list[i] = e
    BY <1>1, <1>3 DEF Contains
  <2>2. Without(list, e) = rest
    BY <1>3 DEF Without, RemoveAt
  <2> HIDE DEF i, n
  <2>3. \A j \in 1 .. n : list[j] \in S
    BY ElementOfSeq DEF n
  <2>4. head \in Seq(S) /\ Len(head) = i - 1 /\ \A j \in 1 .. i - 1 : head[j] = list[j]
    <3>1. \A j \in 1 .. i - 1 : list[j] \in S
      BY <1>1, <2>1, <2>3
    <3>2. /\ head \in Seq(S) /\ Len(head) = (IF 1 <= i - 1 THEN (i - 1) - 1 + 1 ELSE 0)
          /\ \A j \in 1 .. (i - 1) - 1 + 1 : head[j] = list[1 + j - 1]
      BY <2>1, <3>1, SubSeqProperties
    <3> HIDE DEF head
    <3>3. QED
      BY <1>1, <2>1, <3>2
  <2>5. tail \in Seq(S) /\ Len(tail) = n - i /\ \A j \in 1 .. n - i : tail[j] = list[i + j]
    <3>1. \A j \in i + 1 .. n : list[j] \in S
      BY <1>1, <2>1, <2>3
    <3>2. /\ tail \in Seq(S) /\ Len(tail) = (IF i + 1 <= n THEN n - (i + 1) + 1 ELSE 0)
          /\ \A j \in 1 .. n - (i + 1) + 1 : tail[j] = list[(i + 1) + j - 1]
      BY <1>1, <2>1, <3>1, SubSeqProperties
    <3> HIDE DEF tail
    <3>3. QED
      BY <1>1, <2>1, <3>2
  <2> HIDE DEF head, tail
  <2>6. /\ rest \in Seq(S) /\ Len(rest) = n - 1
        /\ \A j \in 1 .. n - 1 : rest[j] = IF j <= i - 1 THEN head[j] ELSE tail[j - (i - 1)]
    <3>1. /\ rest \in Seq(S) /\ Len(rest) = Len(head) + Len(tail)
          /\ \A j \in 1 .. Len(head) + Len(tail) : rest[j] = IF j <= Len(head) THEN head[j] ELSE tail[j - Len(head)]
      BY <2>4, <2>5, ConcatProperties
    <3> HIDE DEF rest
    <3>2. QED
      BY <1>1, <2>1, <2>4, <2>5, <3>1
  <2> HIDE DEF rest
  <2>7. DOMAIN rest = 1 .. n - 1
    BY <2>6, LenProperties
  <2>8. \A j \in 1 .. n - 1 : rest[j] = list[at(j)] /\ at(j) \in 1 .. n /\ at(j) # i
    <3>1. ASSUME NEW j \in 1 .. n - 1, j < i
          PROVE  rest[j] = list[j]
      BY <1>1, <2>1, <2>4, <2>6, <3>1
    <3>2. ASSUME NEW j \in 1 .. n - 1, ~ (j < i)
          PROVE  rest[j] = list[j + 1]
      <4>1. j - (i - 1) \in 1 .. n - i /\ ~ (j <= i - 1) /\ i + (j - (i - 1)) = j + 1
        BY <1>1, <2>1, <3>2
      <4>2. rest[j] = tail[j - (i - 1)]
        BY <2>6, <4>1
      <4>3. QED
        BY <2>5, <4>1, <4>2
    <3>3. QED
      BY <1>1, <2>1, <3>1, <3>2
  <2>9. ToSet(rest) \subseteq ToSet(list)
    BY <1>1, <2>7, <2>8 DEF ToSet
  <2>10. ASSUME IsInjective(list)
         PROVE  IsInjective(rest) /\ e \notin ToSet(rest)
    <3>1. e \notin ToSet(rest)
      BY <1>1, <2>1, <2>7, <2>8, <2>10 DEF ToSet, IsInjective
    <3>2. ASSUME NEW j \in 1 .. n - 1, NEW k \in 1 .. n - 1, rest[j] = rest[k]
          PROVE  j = k
      <4>1. at(j) = at(k)
        BY <1>1, <2>8, <2>10, <3>2 DEF IsInjective
      <4>2. QED
        BY <1>1, <2>1, <4>1
    <3>3. QED
      BY <2>7, <3>1, <3>2 DEF IsInjective
  <2>11. QED
    BY <2>2, <2>6, <2>9, <2>10
<1>4. QED
  BY <1>2, <1>3

-----------------------------------------------------------------------------
(* The invariant *)

\* A call in which a process has read the metadata and not yet answered.
Copying == {"measure", "preview", "encode", "probe", "derive", "shrink", "show", "unlink", "unshare",
            "unlist", "unshow"}

\* The places of the second process are those of the first and the panel's own.
PanelOnly == {"preview", "derive", "show", "unlink", "unshare", "unlist", "unshow"}

Deleting == {"unlink", "unshare", "unlist"}

\* What a process holds at each place.
CallInv ==
  /\ \A p \in Servers : call[p].at \notin Copying => call[p].copy = NoMeta /\ call[p].output = 0
  /\ call["main"].at \notin PanelOnly
  /\ call["panel"].at \in Deleting \cup {"derive"} => call["panel"].output # 0

\* The first call on the asset uploads it; a deletion that got further has unloaded it.
UploadInv ==
  /\ upload = "none" => meta = NoMeta /\ \A p \in Servers : call[p] = NoCall
  /\ \A p \in Servers :
       /\ call[p].at = "uploaded" => meta = NoMeta /\ \A q \in Servers \ {p} : call[q] = NoCall
       /\ call[p].at \in {"clear", "forget"} => upload = "deleted"
       /\ call[p].at = "forget" => audio.wav = {} /\ audio.mp3 = {}

\* Metadata, on disk or in a process, lists outputs that were numbered, each once.
Numbered(m) ==
  /\ ToSet(m.outputs) \cup m.derived \subseteq 1 .. renders
  /\ IsInjective(m.outputs)

NumberInv ==
  /\ Numbered(meta)
  /\ \A p \in Servers : Numbered(call[p].copy) /\ call[p].output <= renders
  /\ deleted \subseteq 1 .. renders

\* The output that a process renders is nobody else's yet.
Unheard(o, m) == o \notin ToSet(m.outputs) \cup m.derived

Rendering(p) == call[p].at \in {"encode", "probe", "shrink"}

RenderInv ==
  \A p \in Servers : Rendering(p) =>
    LET o == call[p].output
    IN /\ o # 0 /\ o \notin deleted /\ Unheard(o, meta)
       /\ \A q \in Servers : Unheard(o, call[q].copy) /\ (q # p => call[q].output # o)
       /\ call[p].at = "shrink" /\ upload = "there" => o \in audio.wav

\* What the panel works on has no derivative on record, or none on disk that is not
\* on its record.
PanelInv ==
  LET o == call["panel"].output
  IN /\ call["panel"].at = "derive" /\ o \in audio.wav =>
          o \notin meta.derived /\ \A p \in Servers : o \notin call[p].copy.derived
     /\ call["panel"].at \in {"unshare", "unlist"} =>
          o \notin audio.wav /\ o \notin audio.mp3 \cap call["panel"].copy.derived

\* Where a master is on disk a recorded derivative is; and nobody but the panel
\* puts one on record: what the other process has on record the panel has.
RecordInv ==
  /\ \A o \in audio.wav \ audio.mp3 :
       o \notin meta.derived /\ \A p \in Servers : o \notin call[p].copy.derived
  /\ audio.mp3 \cap call["main"].copy.derived \subseteq meta.derived
  /\ call["panel"].at \in Copying =>
       audio.mp3 \cap (call["main"].copy.derived \cup meta.derived) \subseteq call["panel"].copy.derived

\* No metadata that is ever written leads to the audio of a deleted output.
DeletedInv ==
  \A o \in deleted :
    /\ o \notin audio.wav
    /\ o \in audio.mp3 => o \notin meta.derived /\ \A p \in Servers : o \notin call[p].copy.derived

ListedInv ==
  upload = "there" => \A o \in ToSet(meta.outputs) : o \in audio.wav \/ Leaving(o) \/ o \in unsure

StoreInv ==
  /\ MasteringTypeOK
  /\ CallInv /\ UploadInv /\ NumberInv /\ RenderInv /\ PanelInv
  /\ RecordInv /\ DeletedInv /\ ListedInv-----------------------------------------------------------------------------
(* One call changes *)

CallTypes == [at : Places, copy : Metas, output : Outputs \cup {0}]

Others(p) == \A q \in Servers \ {p} : call'[q] = call[q]

LEMMA NoMetaIs ==
  /\ NoMeta \in Metas /\ ToSet(NoMeta.outputs) = {} /\ NoMeta.derived = {} /\ NoMeta.there = FALSE
  /\ IsInjective(NoMeta.outputs)
<1>1. NoMeta.outputs = <<>> /\ NoMeta.derived = {} /\ NoMeta.there = FALSE
  BY DEF NoMeta
<1>2. DOMAIN <<>> = {}
  OBVIOUS
<1>3. ToSet(<<>>) = {} /\ IsInjective(<<>>)
  BY <1>2 DEF ToSet, IsInjective
<1>4. NoMeta \in Metas
  <2>1. <<>> \in Seq(Outputs) /\ \A o \in Outputs : <<>> \in Seq(Tokens)
    OBVIOUS
  <2>2. QED
    BY <2>1 DEF NoMeta, Metas
<1>5. QED
  BY <1>1, <1>3, <1>4

LEMMA NoCallIs ==
  NoCall \in CallTypes /\ NoCall.at = "idle" /\ NoCall.copy = NoMeta /\ NoCall.output = 0
BY NoMetaIs DEF NoCall, CallTypes, Places

LEMMA CallEnds ==
  ASSUME call \in [Servers -> CallTypes], NEW p \in Servers, call' = Ended(p)
  PROVE  call' \in [Servers -> CallTypes] /\ call'[p] = NoCall /\ Others(p)
BY NoCallIs DEF Ended, Others

LEMMA CallMoves ==
  ASSUME call \in [Servers -> CallTypes], NEW p \in Servers, NEW place \in Places, call' = At(p, place)
  PROVE  /\ call' \in [Servers -> CallTypes] /\ Others(p)
         /\ call'[p].at = place /\ call'[p].copy = call[p].copy /\ call'[p].output = call[p].output
<1>1. call'[p] = [call[p] EXCEPT !.at = place] /\ Others(p)
  BY DEF At, Others
<1>2. call[p] \in CallTypes
  OBVIOUS
<1>3. /\ call'[p] \in CallTypes
      /\ call'[p].at = place /\ call'[p].copy = call[p].copy /\ call'[p].output = call[p].output
  BY <1>1, <1>2 DEF CallTypes
<1>4. call' = [call EXCEPT ![p] = [call[p] EXCEPT !.at = place]]
  BY DEF At
<1>5. QED
  BY <1>1, <1>3, <1>4

\* The parts that a step on links, tokens or deaths leaves alone.
StoreParts ==
  /\ CallInv /\ UploadInv /\ NumberInv /\ RenderInv /\ PanelInv
  /\ RecordInv /\ DeletedInv /\ ListedInv

LEMMA NothingMoves ==
  ASSUME StoreInv, UNCHANGED <<meta, upload, audio, call, renders, deleted, unsure>>
  PROVE  StoreParts'
<1>1. CallInv' /\ UploadInv' /\ NumberInv'
  BY DEF StoreInv, CallInv, UploadInv, NumberInv, Numbered
<1>2. RenderInv' /\ PanelInv'
  BY DEF StoreInv, RenderInv, Rendering, Unheard, PanelInv
<1>3. RecordInv' /\ DeletedInv' /\ ListedInv'
  BY DEF StoreInv, RecordInv, DeletedInv, ListedInv, Leaving
<1>4. QED
  BY <1>1, <1>2, <1>3 DEF StoreParts

\* The audio on disk stays, but for a render that puts its output there and for the
\* derivative of a master on disk.
AudioKept(p) ==
  LET o == call[p].output
  IN /\ audio.wav \subseteq audio'.wav
     /\ \A u \in audio'.wav : u \in audio.wav \/ (call[p].at = "encode" /\ u = o /\ upload = "there")
     /\ \A u \in audio'.mp3 : u \in audio.mp3 \/ (call[p].at = "derive" /\ u = o /\ o \in audio.wav)
     /\ \A u \in audio.mp3 : u \in audio'.mp3 \/ (call[p].at = "derive" /\ u = o)

\* A call ends and writes no metadata.
LEMMA EndKeeps ==
  ASSUME StoreInv, NEW p \in Servers, call' = Ended(p), AudioKept(p),
         UNCHANGED <<meta, upload, renders, deleted>>, unsure \subseteq unsure',
         call[p].at \in {"unshare", "unlist"} => call[p].output \in unsure'
  PROVE  StoreParts'
<1> DEFINE o == call[p].output
<1>1. call'[p] = NoCall /\ Others(p) /\ call[p] \in CallTypes
  BY CallEnds DEF StoreInv, MasteringTypeOK, CallTypes
<1>2. CallInv'
  BY <1>1, NoCallIs DEF StoreInv, CallInv, Others, Servers, Copying, PanelOnly, Deleting
<1>3. UploadInv'
  <2>1. \A q \in Servers : call[q].at = "forget" => audio'.wav = {} /\ audio'.mp3 = {}
    BY DEF StoreInv, UploadInv, AudioKept
  <2>2. QED
    BY <1>1, <2>1, NoCallIs DEF StoreInv, UploadInv, Others
<1>4. NumberInv'
  <2>1. Numbered(NoMeta) /\ 0 <= renders
    BY NoMetaIs DEF Numbered, StoreInv, MasteringTypeOK
  <2>2. QED
    BY <1>1, <2>1, NoCallIs DEF StoreInv, NumberInv, Numbered, Others
<1>5. RenderInv'
  <2>1. audio.wav \subseteq audio'.wav
    BY DEF AudioKept
  <2>2. QED
    BY <1>1, <2>1, NoCallIs, NoMetaIs DEF StoreInv, RenderInv, Rendering, Unheard, Others
\* What is new on disk is on nobody's record, and nobody else is at work on it.
<1>6. ASSUME call[p].at = "encode"
      PROVE  /\ o \notin deleted /\ o \notin meta.derived
             /\ \A q \in Servers : o \notin call[q].copy.derived /\ (q # p => call[q].output # o)
  BY <1>6 DEF StoreInv, RenderInv, Rendering, Unheard
<1>7. ASSUME call[p].at = "derive"
      PROVE  /\ p = "panel"
             /\ o \in audio.wav => o \notin deleted /\ o \notin meta.derived
                                   /\ \A q \in Servers : o \notin call[q].copy.derived
  <2>1. p = "panel"
    BY <1>7 DEF StoreInv, CallInv, PanelOnly, Servers
  <2>2. QED
    BY <1>7, <2>1 DEF StoreInv, PanelInv, DeletedInv
<1>8. PanelInv'
  <2>1. CASE p = "panel"
    BY <1>1, <2>1, NoCallIs DEF PanelInv
  <2>2. CASE p = "main"
    <3>1. call'["panel"] = call["panel"] /\ call'["main"].copy = NoMeta
      BY <1>1, <2>2, NoCallIs DEF Others, Servers
    <3>2. audio'.mp3 = audio.mp3 /\ (call["panel"].output \in audio'.wav => call["panel"].output \in audio.wav)
      BY <1>6, <1>7, <2>2 DEF AudioKept, Servers
    <3>3. QED
      BY <3>1, <3>2, NoMetaIs DEF StoreInv, PanelInv, Servers
  <2>3. QED
    BY <2>1, <2>2 DEF Servers
<1>9. RecordInv'
  <2>1. ASSUME NEW u \in audio'.wav \ audio'.mp3
        PROVE  u \notin meta.derived /\ \A q \in Servers : u \notin call[q].copy.derived
    <3>1. \/ call[p].at = "encode" /\ u = o
          \/ u \in audio.wav \ audio.mp3
          \/ u \in audio.wav /\ call[p].at = "derive" /\ u = o
      BY DEF AudioKept
    <3>2. QED
      BY <1>6, <1>7, <3>1 DEF StoreInv, RecordInv
  <2>2. ASSUME NEW u \in audio'.mp3, u \notin audio.mp3
        PROVE  u \notin meta.derived /\ \A q \in Servers : u \notin call[q].copy.derived
    BY <1>7, <2>2 DEF AudioKept
  <2>3. audio'.mp3 \cap call["main"].copy.derived \subseteq meta.derived
    BY <2>2 DEF StoreInv, RecordInv, Servers
  <2>4. call["panel"].at \in Copying =>
          audio'.mp3 \cap (call["main"].copy.derived \cup meta.derived) \subseteq call["panel"].copy.derived
    BY <2>2 DEF StoreInv, RecordInv, Servers
  <2>5. QED
    BY <1>1, <2>1, <2>3, <2>4, NoCallIs, NoMetaIs DEF RecordInv, Others, Servers, Copying
<1>10. DeletedInv'
  <2>1. ASSUME NEW u \in deleted
        PROVE  /\ u \notin audio'.wav
               /\ u \in audio'.mp3 => u \notin meta.derived /\ \A q \in Servers : u \notin call[q].copy.derived
    BY <1>6, <1>7 DEF AudioKept, StoreInv, DeletedInv
  <2>2. QED
    BY <1>1, <2>1, NoCallIs, NoMetaIs DEF DeletedInv, Others
<1>11. ListedInv'
  <2>1. audio.wav \subseteq audio'.wav
    BY DEF AudioKept
  <2>2. QED
    BY <1>1, <2>1, NoCallIs DEF StoreInv, ListedInv, Leaving, Others, Servers
<1>12. QED
  BY <1>2, <1>3, <1>4, <1>5, <1>8, <1>9, <1>10, <1>11 DEF StoreParts

\* A call begins and reads the metadata.
LEMMA BeginKeeps ==
  ASSUME MasteringAssumption, StoreInv, NEW p \in Servers, NEW place \in Copying, NEW m \in Metas, NEW o \in Outputs \cup {0},
         call[p].at = "idle", meta.there, m.outputs = meta.outputs, m.derived = meta.derived,
         call' = [call EXCEPT ![p] = [at |-> place, copy |-> m, output |-> o]],
         UNCHANGED <<meta, upload, audio, deleted, unsure>>,
         place \in {"measure", "preview", "encode", "derive", "show", "unlink", "unshow"},
         place \in PanelOnly => p = "panel",
         place \in {"derive", "unlink"} => o # 0,
         place = "derive" => o \in audio.wav /\ ~ (o \in meta.derived /\ o \in audio.mp3),
         \/ renders' = renders /\ o \in ToSet(meta.outputs) \cup {0} /\ place # "encode"
         \/ renders' = renders + 1 /\ o = renders' /\ place = "encode"
  PROVE  StoreParts'
<1>1. /\ call'[p].at = place /\ call'[p].copy = m /\ call'[p].output = o
      /\ Others(p)
  BY DEF StoreInv, MasteringTypeOK, Others
<1>2. renders \in Nat /\ renders' \in Nat /\ renders <= renders' /\ 1 .. renders \subseteq 1 .. renders'
  BY DEF StoreInv, MasteringTypeOK, MasteringAssumption
<1>3. meta # NoMeta /\ upload # "none"
  BY NoMetaIs DEF StoreInv, UploadInv
<1>4. CallInv'
  BY <1>1 DEF StoreInv, CallInv, Others, Copying, PanelOnly, Deleting
<1>5. UploadInv'
  BY <1>1, <1>3 DEF StoreInv, UploadInv, Others
<1>6. Numbered(meta) /\ \A q \in Servers : Numbered(call[q].copy) /\ call[q].output <= renders
  BY DEF StoreInv, NumberInv
<1>7. NumberInv'
  <2>1. o <= renders'
    BY <1>2, <1>6 DEF Numbered
  <2>2. Numbered(meta)' /\ Numbered(m)' /\ \A q \in Servers : Numbered(call[q].copy)'
    BY <1>2, <1>6 DEF Numbered, Others
  <2>3. ASSUME NEW q \in Servers PROVE Numbered(call[q].copy)' /\ call'[q].output <= renders'
    <3>1. CASE q = p
      BY <1>1, <2>1, <2>2, <3>1 DEF Numbered
    <3>2. CASE q # p
      <4>1. call'[q] = call[q] /\ call[q].output \in Int
        BY <1>1, <3>2 DEF Others, StoreInv, MasteringTypeOK, Outputs, MasteringAssumption
      <4>2. QED
        BY <1>2, <1>6, <4>1 DEF Numbered
    <3>3. QED
      BY <3>1, <3>2
  <2>4. deleted' \subseteq 1 .. renders'
    BY <1>2 DEF StoreInv, NumberInv
  <2>5. QED
    BY <2>2, <2>3, <2>4 DEF NumberInv
<1>8. RenderInv'
  <2> SUFFICES ASSUME NEW q \in Servers, Rendering(q)'
               PROVE  LET u == call'[q].output
                      IN /\ u # 0 /\ u \notin deleted' /\ Unheard(u, meta')
                         /\ \A r \in Servers : Unheard(u, call'[r].copy) /\ (r # q => call'[r].output # u)
                         /\ call'[q].at = "shrink" /\ upload' = "there" => u \in audio'.wav
    BY Zenon DEF RenderInv, Rendering, Unheard
  <2>1. CASE q = p
    <3>1. o = renders + 1 /\ call'[q].output = o /\ call'[q].at = "encode"
      BY <1>1, <2>1 DEF Rendering
    <3>2. o \notin 1 .. renders /\ o # 0
      BY <1>2, <3>1
    <3>3. \A r \in Servers \ {p} : call[r].output # o
      <4>1. \A r \in Servers : call[r].output \in Int
        BY DEF StoreInv, MasteringTypeOK, Outputs, MasteringAssumption
      <4>2. QED
        BY <1>2, <1>6, <3>1, <4>1
    <3>4. o \notin deleted /\ Unheard(o, meta) /\ \A r \in Servers : Unheard(o, call[r].copy)
      BY <1>6, <3>2 DEF StoreInv, NumberInv, Numbered, Unheard
    <3>5. Unheard(o, m)
      BY <3>4 DEF Unheard
    <3>6. QED
      BY <1>1, <2>1, <3>1, <3>2, <3>3, <3>4, <3>5 DEF Others
  <2>2. CASE q # p
    <3> DEFINE u == call[q].output
    <3>1. call'[q] = call[q] /\ Rendering(q)
      BY <1>1, <2>2 DEF Others, Rendering
    <3>2. /\ u # 0 /\ u \notin deleted /\ Unheard(u, meta)
          /\ \A r \in Servers : Unheard(u, call[r].copy) /\ (r # q => call[r].output # u)
          /\ call[q].at = "shrink" /\ upload = "there" => u \in audio.wav
      BY <3>1 DEF StoreInv, RenderInv
    <3>3. o # u
      <4>1. u <= renders /\ u \in Int
        BY <1>6 DEF StoreInv, MasteringTypeOK, Outputs, MasteringAssumption
      <4>2. QED
        BY <1>2, <3>2, <4>1 DEF Unheard
    <3>4. Unheard(u, m)
      BY <3>2 DEF Unheard
    <3> HIDE DEF u
    <3>5. QED
      BY <1>1, <3>1, <3>2, <3>3, <3>4 DEF Others, u
  <2>3. QED
    BY <2>1, <2>2
<1>9. PanelInv'
  <2>1. CASE place = "derive"
    <3>1. o \notin meta.derived /\ \A r \in Servers : o \notin call[r].copy.derived
      <4>1. o \notin meta.derived
        BY <2>1 DEF StoreInv, RecordInv
      <4>2. call["panel"].copy = NoMeta
        BY <2>1 DEF PanelOnly, StoreInv, CallInv, Copying
      <4>3. o \notin call["main"].copy.derived
        BY <2>1, <4>1 DEF StoreInv, RecordInv, Servers
      <4>4. QED
        BY <4>1, <4>2, <4>3, NoMetaIs DEF Servers
    <3>2. \A r \in Servers : o \notin call'[r].copy.derived
      BY <1>1, <3>1 DEF Others
    <3>3. p = "panel"
      BY <2>1 DEF PanelOnly
    <3>4. QED
      BY <1>1, <2>1, <3>1, <3>2, <3>3 DEF PanelInv
  <2>2. CASE place # "derive"
    BY <1>1, <2>2 DEF StoreInv, PanelInv, Others, Servers
  <2>3. QED
    BY <2>1, <2>2
<1>10. RecordInv'
  BY <1>1 DEF StoreInv, RecordInv, Others, Servers, CallInv, Copying
<1>11. DeletedInv'
  BY <1>1 DEF StoreInv, DeletedInv, Others
<1>12. ListedInv'
  BY <1>1 DEF StoreInv, ListedInv, Leaving, Others, Servers
<1>13. QED
  BY <1>4, <1>5, <1>7, <1>8, <1>9, <1>10, <1>11, <1>12 DEF StoreParts

\* A call writes its copy back, with the output it has rendered or without the one
\* it deletes.
LEMMA WriteKeeps ==
  ASSUME MasteringAssumption, StoreInv, NEW p \in Servers, NEW m \in Metas, WriteMeta(p, m),
         UNCHANGED <<upload, audio, renders>>, IsInjective(m.outputs),
         \/ /\ call[p].at \in {"measure", "preview", "show", "unshow"}
            /\ m.outputs = call[p].copy.outputs /\ m.derived = call[p].copy.derived /\ deleted' = deleted
         \/ /\ call[p].at = "shrink"
            /\ ToSet(m.outputs) \subseteq ToSet(call[p].copy.outputs) \cup {call[p].output}
            /\ m.derived = call[p].copy.derived /\ deleted' = deleted
         \/ /\ call[p].at = "unlist" /\ p = "panel"
            /\ ToSet(m.outputs) \subseteq ToSet(call[p].copy.outputs) /\ call[p].output \notin ToSet(m.outputs)
            /\ m.derived = call[p].copy.derived \ {call[p].output}
            /\ deleted' = deleted \cup {call[p].output}
  PROVE  StoreParts'
<1> DEFINE c == call[p]
           o == call[p].output
<1>1. /\ call'[p] = NoCall /\ Others(p) /\ call[p] \in CallTypes
      /\ meta' = m /\ unsure \subseteq unsure'
      /\ \A u \in ToSet(m.outputs) : u \in ToSet(c.copy.outputs) /\ u \notin ToSet(meta.outputs) => u \in unsure'
  BY CallEnds DEF StoreInv, MasteringTypeOK, CallTypes, WriteMeta
<1>2. /\ c.at \in {"measure", "preview", "show", "unshow", "shrink", "unlist"}
      /\ ToSet(m.outputs) \subseteq ToSet(c.copy.outputs) \cup {o}
      /\ c.at # "shrink" => ToSet(m.outputs) \subseteq ToSet(c.copy.outputs)
      /\ c.at = "unlist" => p = "panel" /\ o \notin ToSet(m.outputs) /\ o \notin m.derived
      /\ m.derived \subseteq c.copy.derived
      /\ \A u \in c.copy.derived : u \in m.derived \/ (c.at = "unlist" /\ u = o)
      /\ \A u \in deleted' : u \in deleted \/ (c.at = "unlist" /\ u = o)
  OBVIOUS
<1>3. /\ Numbered(meta) /\ deleted \subseteq 1 .. renders
      /\ \A q \in Servers : Numbered(call[q].copy) /\ call[q].output <= renders
      /\ c.at = "unlist" => o # 0
      /\ c.at = "shrink" => o # 0
  <2>1. c.at = "unlist" => o # 0
    BY <1>2 DEF StoreInv, CallInv, Deleting
  <2>2. c.at = "shrink" => o # 0
    BY DEF StoreInv, RenderInv, Rendering
  <2>3. QED
    BY <2>1, <2>2 DEF StoreInv, NumberInv
<1>4. o \in Outputs \cup {0} /\ renders \in Nat /\ (o # 0 => o \in 1 .. renders)
  BY <1>1, <1>3 DEF CallTypes, StoreInv, MasteringTypeOK, Outputs, MasteringAssumption
<1>5. CallInv'
  BY <1>1, NoCallIs DEF StoreInv, CallInv, Others, Servers, Copying, PanelOnly, Deleting
<1>6. UploadInv'
  <2>1. upload # "none" /\ \A q \in Servers \ {p} : call[q].at # "uploaded"
    BY <1>2, NoCallIs DEF StoreInv, UploadInv
  <2>2. QED
    BY <1>1, <2>1, NoCallIs DEF StoreInv, UploadInv, Others
<1>7. NumberInv'
  <2>1. Numbered(meta)'
    BY <1>1, <1>2, <1>3, <1>4 DEF Numbered
  <2>2. Numbered(NoMeta)' /\ 0 <= renders
    BY <1>4, NoMetaIs DEF Numbered
  <2>3. deleted' \subseteq 1 .. renders'
    BY <1>2, <1>3, <1>4
  <2>4. \A q \in Servers : Numbered(call[q].copy)' /\ call'[q].output <= renders'
    BY <1>1, <1>3, <2>2, NoCallIs DEF Numbered, Others
  <2>5. QED
    BY <2>1, <2>3, <2>4 DEF NumberInv
<1>8. RenderInv'
  <2> SUFFICES ASSUME NEW q \in Servers, Rendering(q)'
               PROVE  LET u == call'[q].output
                      IN /\ u # 0 /\ u \notin deleted' /\ Unheard(u, meta')
                         /\ \A r \in Servers : Unheard(u, call'[r].copy) /\ (r # q => call'[r].output # u)
                         /\ call'[q].at = "shrink" /\ upload' = "there" => u \in audio'.wav
    BY Zenon DEF RenderInv, Rendering, Unheard
  <2> DEFINE u == call[q].output
  <2>1. q # p /\ call'[q] = call[q] /\ Rendering(q)
    BY <1>1, NoCallIs DEF Others, Rendering
  <2>2. /\ u # 0 /\ u \notin deleted /\ Unheard(u, meta)
        /\ \A r \in Servers : Unheard(u, call[r].copy) /\ (r # q => call[r].output # u)
        /\ call[q].at = "shrink" /\ upload = "there" => u \in audio.wav
    BY <2>1 DEF StoreInv, RenderInv
  <2>3. Unheard(u, m) /\ u \notin deleted'
    BY <1>2, <2>1, <2>2 DEF Unheard
  <2>4. Unheard(u, NoMeta)
    BY NoMetaIs DEF Unheard
  <2> HIDE DEF u
  <2>5. QED
    BY <1>1, <2>1, <2>2, <2>3, <2>4, NoCallIs DEF Others, u
<1>9. PanelInv'
  <2>1. CASE p = "panel"
    BY <1>1, <2>1, NoCallIs DEF PanelInv
  <2>2. CASE p = "main"
    BY <1>1, <1>2, <2>2, NoCallIs, NoMetaIs DEF StoreInv, PanelInv, Others, Servers
  <2>3. QED
    BY <2>1, <2>2 DEF Servers
<1>10. RecordInv'
  <2>1. \A u \in audio.wav \ audio.mp3 :
          u \notin m.derived /\ \A q \in Servers : u \notin call'[q].copy.derived
    BY <1>1, <1>2, NoCallIs, NoMetaIs DEF StoreInv, RecordInv, Others
  <2>2. CASE p = "panel"
    <3>1. c.at \in Copying
      BY <1>2 DEF Copying
    <3>2. audio.mp3 \cap call["main"].copy.derived \subseteq c.copy.derived
      BY <2>2, <3>1 DEF StoreInv, RecordInv
    <3>3. c.at = "unlist" => o \notin audio.mp3 \cap c.copy.derived
      BY <2>2 DEF StoreInv, PanelInv
    <3>4. audio.mp3 \cap call'["main"].copy.derived \subseteq m.derived
      BY <1>1, <1>2, <2>2, <3>2, <3>3 DEF Others, Servers
    <3>5. call'["panel"].at \notin Copying
      BY <1>1, <2>2, NoCallIs DEF Copying
    <3>6. QED
      BY <1>1, <2>1, <3>4, <3>5 DEF RecordInv
  <2>3. CASE p = "main"
    <3>1. call["panel"].at \in Copying => audio.mp3 \cap c.copy.derived \subseteq call["panel"].copy.derived
      BY <2>3 DEF StoreInv, RecordInv
    <3>2. call'["panel"] = call["panel"] /\ call'["main"].copy.derived = {}
      BY <1>1, <2>3, NoCallIs, NoMetaIs DEF Others, Servers
    <3>3. QED
      BY <1>1, <1>2, <2>1, <3>1, <3>2 DEF RecordInv
  <2>4. QED
    BY <2>2, <2>3 DEF Servers
<1>11. DeletedInv'
  <2> SUFFICES ASSUME NEW u \in deleted'
               PROVE  /\ u \notin audio.wav
                      /\ u \in audio.mp3 => u \notin m.derived /\ \A q \in Servers : u \notin call'[q].copy.derived
    BY <1>1 DEF DeletedInv
  <2>1. CASE u \in deleted
    BY <1>1, <1>2, <2>1, NoCallIs, NoMetaIs DEF StoreInv, DeletedInv, Others
  <2>2. CASE c.at = "unlist" /\ u = o
    <3>1. p = "panel" /\ o \notin audio.wav /\ o \notin audio.mp3 \cap c.copy.derived
      BY <1>2, <2>2 DEF StoreInv, PanelInv
    <3>2. audio.mp3 \cap call["main"].copy.derived \subseteq c.copy.derived
      BY <2>2, <3>1 DEF StoreInv, RecordInv, Copying
    <3>3. QED
      BY <1>1, <1>2, <2>2, <3>1, <3>2, NoCallIs, NoMetaIs DEF Others, Servers
  <2>3. QED
    BY <1>2, <2>1, <2>2
<1>12. ListedInv'
  <2> SUFFICES ASSUME upload = "there", NEW u \in ToSet(m.outputs), u \notin unsure', u \notin audio.wav
               PROVE  Leaving(u)'
    BY <1>1 DEF ListedInv
  <2>1. u \in ToSet(c.copy.outputs)
    <3>1. c.at = "shrink" => o \in audio.wav
      BY DEF StoreInv, RenderInv, Rendering
    <3>2. QED
      BY <1>2, <3>1
  <2>2. u \in ToSet(meta.outputs) /\ u \notin unsure
    BY <1>1, <2>1
  <2>3. Leaving(u)
    BY <2>2 DEF StoreInv, ListedInv
  <2>4. p # "panel"
    BY <1>2, <2>3 DEF Leaving
  <2>5. QED
    BY <1>1, <2>3, <2>4 DEF Leaving, Others, Servers
<1>13. QED
  BY <1>5, <1>6, <1>7, <1>8, <1>9, <1>10, <1>11, <1>12 DEF StoreParts

-----------------------------------------------------------------------------
(* The actions *)

LEMMA StoreTypes ==
  ASSUME MasteringAssumption, StoreInv
  PROVE  /\ call \in [Servers -> CallTypes] /\ meta \in Metas
         /\ renders \in Nat /\ links \in Nat /\ kills \in Nat
         /\ upload \in {"none", "there", "deleted"}
         /\ audio \in [wav : SUBSET Outputs, mp3 : SUBSET Outputs]
         /\ \A p \in Servers : call[p] \in CallTypes /\ call[p].copy \in Metas /\ call[p].output \in Outputs \cup {0}
         /\ \A m \in Metas : m.outputs \in Seq(Outputs) /\ ToSet(m.outputs) \subseteq Outputs
                             /\ m.derived \subseteq Outputs
<1>1. call \in [Servers -> CallTypes] /\ meta \in Metas
      /\ renders \in Nat /\ links \in Nat /\ kills \in Nat
      /\ upload \in {"none", "there", "deleted"}
      /\ audio \in [wav : SUBSET Outputs, mp3 : SUBSET Outputs]
  BY DEF StoreInv, MasteringTypeOK, CallTypes, MasteringAssumption
<1>2. \A p \in Servers : call[p] \in CallTypes /\ call[p].copy \in Metas /\ call[p].output \in Outputs \cup {0}
  BY <1>1 DEF CallTypes
<1>3. ASSUME NEW m \in Metas
      PROVE  m.outputs \in Seq(Outputs) /\ ToSet(m.outputs) \subseteq Outputs /\ m.derived \subseteq Outputs
  <2>1. m.outputs \in Seq(Outputs) /\ m.derived \subseteq Outputs
    BY DEF Metas
  <2>2. ToSet(m.outputs) \subseteq Outputs
    BY <2>1, InSet, ElementOfSeq
  <2>3. QED
    BY <2>1, <2>2
<1>4. QED
  BY <1>1, <1>2, <1>3

LEMMA UploadStep ==
  ASSUME MasteringAssumption, StoreInv, NEW p \in Servers, Upload(p)
  PROVE  StoreInv'
<1>1. /\ upload = "none" /\ upload' = "there" /\ call' \in {At(p, "uploaded"), call}
      /\ UNCHANGED <<meta, audio, link, renders, links, deleted, revoked, unsure, kills>>
  BY DEF Upload, history
<1>2. /\ meta = NoMeta /\ \A q \in Servers : call[q] = NoCall
  BY <1>1 DEF StoreInv, UploadInv
<1>3. /\ call' \in [Servers -> CallTypes]
      /\ \A q \in Servers : call'[q].at \in {"idle", "uploaded"} /\ call'[q].copy = NoMeta /\ call'[q].output = 0
      /\ \A q \in Servers \ {p} : call'[q] = NoCall
      /\ call'[p].at \in {"idle", "uploaded"} /\ (call'[p].at = "idle" => call' = call)
  <2>1. CASE call' = call
    BY <1>2, <2>1, NoCallIs, StoreTypes
  <2>2. CASE call' = At(p, "uploaded")
    <3>1. /\ call' \in [Servers -> CallTypes] /\ Others(p)
          /\ call'[p].at = "uploaded" /\ call'[p].copy = call[p].copy /\ call'[p].output = call[p].output
      BY <2>2, CallMoves, StoreTypes DEF Places
    <3>2. QED
      BY <1>2, <3>1, NoCallIs DEF Others
  <2>3. QED
    BY <1>1, <2>1, <2>2
<1>4. MasteringTypeOK'
  BY <1>1, <1>3 DEF StoreInv, MasteringTypeOK, CallTypes
<1>5. CallInv'
  BY <1>3 DEF CallInv, Copying, PanelOnly, Deleting, Servers
<1>6. UploadInv'
  <2>1. \A q \in Servers : call'[q].at = "uploaded" => \A r \in Servers \ {q} : call'[r] = NoCall
    BY <1>3, NoCallIs
  <2>2. QED
    BY <1>1, <1>2, <1>3, <2>1 DEF UploadInv
<1>7. NumberInv' /\ RenderInv' /\ PanelInv'
  <2>1. Numbered(meta)' /\ \A q \in Servers : Numbered(call[q].copy)' /\ call'[q].output <= renders'
    BY <1>1, <1>2, <1>3, NoMetaIs, StoreTypes DEF Numbered
  <2>2. QED
    BY <1>1, <1>3, <2>1 DEF StoreInv, NumberInv, RenderInv, Rendering, PanelInv, Servers
<1>8. RecordInv' /\ DeletedInv' /\ ListedInv'
  BY <1>1, <1>2, <1>3, NoMetaIs DEF StoreInv, RecordInv, DeletedInv, ListedInv, Servers, Copying
<1>9. QED
  BY <1>4, <1>5, <1>6, <1>7, <1>8 DEF StoreInv

LEMMA UploadSavesStep ==
  ASSUME MasteringAssumption, StoreInv, NEW p \in Servers, UploadSaves(p)
  PROVE  StoreInv'
<1> DEFINE m == [NoMeta EXCEPT !.there = TRUE]
<1>1. m \in Metas /\ m.outputs = NoMeta.outputs /\ m.derived = NoMeta.derived
  BY NoMetaIs DEF Metas
<1> HIDE DEF m
<1>2. /\ call[p].at = "uploaded" /\ WriteMeta(p, m)
      /\ UNCHANGED <<upload, audio, link, renders, links, deleted, revoked, kills>>
  BY DEF UploadSaves, m
<1>3. ToSet(m.outputs) = {} /\ m.derived = {} /\ IsInjective(m.outputs)
  BY <1>1, NoMetaIs
<1>4. /\ call' \in [Servers -> CallTypes] /\ meta' = m /\ unsure' = unsure
      /\ \A q \in Servers : call'[q] = NoCall
  <2>1. call' = Ended(p) /\ meta' = m /\ unsure' = unsure
    BY <1>2, <1>3 DEF WriteMeta
  <2>2. \A q \in Servers \ {p} : call[q] = NoCall
    BY <1>2 DEF StoreInv, UploadInv
  <2>3. QED
    BY <2>1, <2>2, CallEnds, StoreTypes DEF Others
<1>5. upload # "none"
  BY <1>2, NoCallIs DEF StoreInv, UploadInv
<1>6. MasteringTypeOK'
  BY <1>1, <1>2, <1>4 DEF StoreInv, MasteringTypeOK, CallTypes
<1>7. CallInv' /\ UploadInv'
  BY <1>2, <1>4, <1>5, NoCallIs DEF CallInv, UploadInv, Copying, PanelOnly, Deleting, Servers
<1>8. NumberInv' /\ RenderInv' /\ PanelInv'
  <2>1. Numbered(m)' /\ \A q \in Servers : Numbered(call[q].copy)' /\ call'[q].output <= renders'
    BY <1>2, <1>3, <1>4, NoMetaIs, NoCallIs, StoreTypes DEF Numbered
  <2>2. QED
    BY <1>2, <1>4, <2>1, NoCallIs DEF StoreInv, NumberInv, Numbered, RenderInv, Rendering, PanelInv, Servers
<1>9. RecordInv' /\ DeletedInv' /\ ListedInv'
  BY <1>2, <1>3, <1>4, NoCallIs, NoMetaIs DEF StoreInv, RecordInv, DeletedInv, ListedInv, Servers, Copying
<1>10. QED
  BY <1>6, <1>7, <1>8, <1>9 DEF StoreInv

LEMMA CopyTyped ==
  ASSUME MasteringAssumption, StoreInv, NEW p \in Servers, NEW place \in Places, NEW m \in Metas, NEW o \in Outputs \cup {0},
         call' = [call EXCEPT ![p] = [at |-> place, copy |-> m, output |-> o]]
  PROVE  call' \in [Servers -> CallTypes]
BY StoreTypes DEF CallTypes

\* The calls that begin with the metadata and an output it lists, or none.
LEMMA ReadStep ==
  ASSUME MasteringAssumption, StoreInv,
         \/ \E p \in Servers : Analyze(p) \/ Render(p)
         \/ PreviewSource
         \/ \E o \in Outputs : EnsureMp3(o) \/ DeleteOutput(o)
  PROVE  StoreInv'
<1> USE StoreTypes
<1>1. ASSUME NEW p \in Servers, NEW place \in {"measure", "preview", "derive", "unlink"},
             NEW o \in Outputs \cup {0}, BeginCall(p, place, o),
             UNCHANGED <<meta, upload, audio, link, renders, links, history, kills>>,
             place # "measure" => p = "panel",
             place \in {"derive", "unlink"} => o \in ToSet(meta.outputs),
             place \in {"measure", "preview"} => o = 0,
             place = "derive" => o \in audio.wav /\ ~ (o \in meta.derived /\ o \in audio.mp3)
      PROVE  StoreInv'
  <2>1. call[p].at = "idle" /\ meta.there
        /\ call' = [call EXCEPT ![p] = [at |-> place, copy |-> meta, output |-> o]]
    BY <1>1 DEF BeginCall
  <2>2. place \in Copying /\ (place \in PanelOnly => p = "panel") /\ place # "encode" /\ place \in Places
    BY <1>1 DEF Copying, PanelOnly, Places
  <2>3. place \in {"derive", "unlink"} => o # 0
    <3>1. 0 \notin Outputs
      BY DEF Outputs
    <3>2. ToSet(meta.outputs) \subseteq Outputs
      OBVIOUS
    <3>3. QED
      BY <1>1, <3>1, <3>2
  <2>4. o \in ToSet(meta.outputs) \cup {0}
    BY <1>1
  <2>5. StoreParts'
    BY <1>1, <2>1, <2>2, <2>3, <2>4, BeginKeeps DEF history
  <2>6. call' \in [Servers -> CallTypes]
    BY <2>1, <2>2, CopyTyped
  <2>7. MasteringTypeOK'
    BY <1>1, <2>6 DEF history, StoreInv, MasteringTypeOK, CallTypes
  <2>8. QED
    BY <2>5, <2>7 DEF StoreInv, StoreParts
<1>2. ASSUME NEW p \in Servers, Analyze(p) PROVE StoreInv'
  BY <1>1, <1>2 DEF Analyze
<1>3. CASE PreviewSource
  BY <1>1, <1>3 DEF PreviewSource, Servers
<1>4. ASSUME NEW o \in Outputs, EnsureMp3(o) PROVE StoreInv'
  BY <1>1, <1>4 DEF EnsureMp3, Servers, Listed
<1>5. ASSUME NEW o \in Outputs, DeleteOutput(o) PROVE StoreInv'
  BY <1>1, <1>5 DEF DeleteOutput, Servers, Listed
<1>6. ASSUME NEW p \in Servers, Render(p) PROVE StoreInv'
  <2>1. /\ call[p].at = "idle" /\ meta.there /\ renders < MaxRenders /\ renders' = renders + 1
        /\ call' = [call EXCEPT ![p] = [at |-> "encode", copy |-> meta, output |-> renders']]
        /\ UNCHANGED <<meta, upload, audio, link, links, deleted, revoked, unsure, kills>>
    BY <1>6 DEF Render, BeginCall, history
  <2>2. renders' \in Outputs /\ renders' \in 0 .. MaxRenders
    BY <2>1 DEF Outputs, MasteringAssumption
  <2>3. "encode" \in Copying /\ "encode" \in Places /\ "encode" \notin PanelOnly
    BY DEF Copying, Places, PanelOnly
  <2>4. StoreParts'
    BY <2>1, <2>2, <2>3, BeginKeeps
  <2>5. call' \in [Servers -> CallTypes]
    BY <2>1, <2>2, <2>3, CopyTyped
  <2>6. MasteringTypeOK'
    BY <2>1, <2>2, <2>5 DEF StoreInv, MasteringTypeOK, CallTypes
  <2>7. QED
    BY <2>4, <2>6 DEF StoreInv, StoreParts
<1>7. QED
  BY <1>2, <1>3, <1>4, <1>5, <1>6

\* create_share and revoke_share change what an output shows.
LEMMA ShareStep ==
  ASSUME MasteringAssumption, StoreInv,
         \/ \E o \in Outputs : CreateLink(o)
         \/ \E t \in Tokens : RevokeShare(t) \/ LinkExpires(t)
  PROVE  StoreInv'
<1> USE StoreTypes
<1>1. ASSUME NEW o \in Outputs, NEW list \in Seq(Tokens), NEW place \in {"show", "unshow"},
             call["panel"].at = "idle", Listed(o),
             call' = [call EXCEPT !["panel"] = [at |-> place, output |-> o, copy |-> [meta EXCEPT !.shown[o] = list]]],
             UNCHANGED <<meta, upload, audio, renders, deleted, unsure>>
      PROVE  StoreParts' /\ call' \in [Servers -> CallTypes]
  <2> DEFINE m == [meta EXCEPT !.shown[o] = list]
  <2>1. m \in Metas /\ m.outputs = meta.outputs /\ m.derived = meta.derived
    BY <1>1 DEF Metas
  <2> HIDE DEF m
  <2>2. call' = [call EXCEPT !["panel"] = [at |-> place, copy |-> m, output |-> o]]
    BY <1>1 DEF m
  <2>3. place \in Copying /\ place \in Places /\ place \notin {"encode", "derive", "unlink"}
    BY DEF Copying, Places
  <2>4. "panel" \in Servers /\ meta.there /\ o \in ToSet(meta.outputs) \cup {0}
    BY <1>1 DEF Servers, Listed
  <2>5. StoreParts'
    BY <1>1, <2>1, <2>2, <2>3, <2>4, BeginKeeps
  <2>6. QED
    BY <2>1, <2>2, <2>3, <2>4, <2>5, CopyTyped
<1>2. ASSUME NEW o \in Outputs, CreateLink(o) PROVE StoreInv'
  <2> DEFINE list == Newest(Append(meta.shown[o], links'), MaxShown)
  <2>1. links' \in Tokens /\ links' \in 0 .. MaxLinks
    BY <1>2 DEF CreateLink, Tokens, MasteringAssumption
  <2>2. meta.shown[o] \in Seq(Tokens)
    BY DEF Metas
  <2>3. list \in Seq(Tokens)
    BY <2>1, <2>2, AppendOf, NewestOf DEF MasteringAssumption
  <2>4. call' = [call EXCEPT !["panel"] = [at |-> "show", output |-> o, copy |-> [meta EXCEPT !.shown[o] = list]]]
    BY <1>2 DEF CreateLink
  <2> HIDE DEF list
  <2>5. /\ Listed(o) /\ call["panel"].at = "idle" /\ link' = [link EXCEPT ![links'] = o]
        /\ UNCHANGED <<meta, upload, audio, renders, deleted, revoked, unsure, kills>>
    BY <1>2 DEF CreateLink, history
  <2>6. StoreParts' /\ call' \in [Servers -> CallTypes]
    BY <1>1, <2>3, <2>4, <2>5
  <2>7. MasteringTypeOK'
    BY <2>1, <2>5, <2>6 DEF StoreInv, MasteringTypeOK, CallTypes
  <2>8. QED
    BY <2>6, <2>7 DEF StoreInv, StoreParts
<1>3. ASSUME NEW t \in Tokens, RevokeShare(t) PROVE StoreInv'
  <2> DEFINE o == link[t]
             list == Without(meta.shown[o], t)
  <2>1. o \in Outputs
    BY <1>3 DEF RevokeShare, StoreInv, MasteringTypeOK
  <2>2. meta.shown[o] \in Seq(Tokens)
    BY <2>1 DEF Metas
  <2>3. list \in Seq(Tokens)
    BY <2>2, WithoutOf
  <2>4. /\ call["panel"].at = "idle" /\ link' = [link EXCEPT ![t] = 0] /\ revoked' = revoked \cup {t}
        /\ UNCHANGED <<meta, upload, audio, renders, links, deleted, unsure, kills>>
        /\ \/ /\ Listed(o)
              /\ call' = [call EXCEPT !["panel"] =
                           [at |-> "unshow", output |-> o, copy |-> [meta EXCEPT !.shown[o] = list]]]
           \/ call' = call
    BY <1>3 DEF RevokeShare
  <2> HIDE DEF list, o
  <2>5. StoreParts' /\ call' \in [Servers -> CallTypes]
    <3>1. CASE call' = call
      BY <2>4, <3>1, NothingMoves
    <3>2. CASE call' # call
      BY <1>1, <2>1, <2>3, <2>4, <3>2
    <3>3. QED
      BY <3>1, <3>2
  <2>6. MasteringTypeOK'
    BY <2>4, <2>5 DEF StoreInv, MasteringTypeOK, CallTypes
  <2>7. QED
    BY <2>5, <2>6 DEF StoreInv, StoreParts
<1>4. ASSUME NEW t \in Tokens, LinkExpires(t) PROVE StoreInv'
  <2>1. StoreParts'
    BY <1>4, NothingMoves DEF LinkExpires, history
  <2>2. MasteringTypeOK'
    BY <1>4 DEF LinkExpires, history, StoreInv, MasteringTypeOK
  <2>3. QED
    BY <2>1, <2>2 DEF StoreInv, StoreParts
<1>5. QED
  BY <1>2, <1>3, <1>4

\* What is written back is typed.
LEMMA WriteTyped ==
  ASSUME MasteringAssumption, StoreInv, NEW p \in Servers, NEW m \in Metas, WriteMeta(p, m),
         UNCHANGED <<upload, audio, link, renders, links, revoked, kills>>, deleted' \subseteq Outputs
  PROVE  MasteringTypeOK'
<1>1. meta' = m /\ call' \in [Servers -> CallTypes]
  BY CallEnds, StoreTypes DEF WriteMeta
<1>2. unsure' \subseteq Outputs
  <2>1. ToSet(m.outputs) \subseteq Outputs
    BY StoreTypes
  <2>2. QED
    BY <2>1 DEF WriteMeta, StoreInv, MasteringTypeOK
<1>3. QED
  BY <1>1, <1>2 DEF StoreInv, MasteringTypeOK, CallTypes

LEMMA SavesStep ==
  ASSUME MasteringAssumption, StoreInv,
         \/ \E p \in Servers : AnalyzeSaves(p) \/ RenderSaves(p)
         \/ PreviewSaves \/ PanelSaves \/ Unshows \/ Unlists
  PROVE  StoreInv'
<1> USE StoreTypes
<1>1. ASSUME NEW p \in Servers, call[p].at \in {"measure", "preview", "show", "unshow"}, WriteMeta(p, call[p].copy),
             UNCHANGED <<upload, audio, link, renders, links, deleted, revoked, kills>>
      PROVE  StoreInv'
  <2>1. IsInjective(call[p].copy.outputs)
    BY DEF StoreInv, NumberInv, Numbered
  <2>2. StoreParts'
    BY <1>1, <2>1, WriteKeeps
  <2>3. MasteringTypeOK'
    <3>1. deleted' \subseteq Outputs
      BY <1>1 DEF StoreInv, MasteringTypeOK
    <3>2. QED
      BY <1>1, <3>1, WriteTyped
  <2>4. QED
    BY <2>2, <2>3 DEF StoreInv, StoreParts
<1>2. ASSUME NEW p \in Servers, AnalyzeSaves(p) PROVE StoreInv'
  BY <1>1, <1>2 DEF AnalyzeSaves
<1>3. CASE PanelSaves \/ Unshows
  BY <1>1, <1>3 DEF PanelSaves, Unshows, Servers
<1>4. CASE PreviewSaves
  <2>1. CASE WriteMeta("panel", call["panel"].copy)
    BY <1>1, <1>4, <2>1 DEF PreviewSaves, Servers
  <2>2. CASE call' = Ended("panel") /\ UNCHANGED <<meta, unsure>>
    <3>1. UNCHANGED <<upload, audio, link, renders, links, deleted, revoked, kills>> /\ call["panel"].at = "preview"
      BY <1>4 DEF PreviewSaves
    <3>2. AudioKept("panel")
      BY <3>1 DEF AudioKept
    <3>3. StoreParts'
      BY <2>2, <3>1, <3>2, EndKeeps DEF Servers
    <3>4. call' \in [Servers -> CallTypes]
      BY <2>2, CallEnds DEF Servers
    <3>5. MasteringTypeOK'
      BY <2>2, <3>1, <3>4 DEF StoreInv, MasteringTypeOK, CallTypes
    <3>6. QED
      BY <3>3, <3>5 DEF StoreInv, StoreParts
  <2>3. QED
    BY <1>4, <2>1, <2>2 DEF PreviewSaves
<1>5. ASSUME NEW p \in Servers, RenderSaves(p) PROVE StoreInv'
  <2> DEFINE c == call[p].copy
             o == call[p].output
             more == Append(c.outputs, o)
             m == [c EXCEPT !.outputs = Newest(more, MaxOutputs)]
  <2>1. /\ call[p].at = "shrink" /\ WriteMeta(p, m)
        /\ UNCHANGED <<upload, audio, link, renders, links, deleted, revoked, kills>>
    BY <1>5 DEF RenderSaves
  <2>2. o \in Outputs /\ o \notin ToSet(c.outputs) /\ c \in Metas /\ IsInjective(c.outputs)
    BY <2>1 DEF StoreInv, RenderInv, Rendering, Unheard, NumberInv, Numbered
  <2>3. c.outputs \in Seq(Outputs)
    BY <2>2
  <2>4. more \in Seq(Outputs) /\ ToSet(more) = ToSet(c.outputs) \cup {o} /\ IsInjective(more)
    BY <2>2, <2>3, AppendOf
  <2> HIDE DEF more
  <2>5. /\ Newest(more, MaxOutputs) \in Seq(Outputs)
        /\ ToSet(Newest(more, MaxOutputs)) \subseteq ToSet(more)
        /\ IsInjective(Newest(more, MaxOutputs))
    BY <2>4, NewestOf DEF MasteringAssumption
  <2>6. m \in Metas /\ m.outputs = Newest(more, MaxOutputs) /\ m.derived = c.derived
    BY <2>2, <2>5 DEF Metas
  <2>7. IsInjective(m.outputs) /\ ToSet(m.outputs) \subseteq ToSet(c.outputs) \cup {o}
    BY <2>4, <2>5, <2>6
  <2> HIDE DEF m
  <2>8. StoreParts'
    BY <2>1, <2>6, <2>7, WriteKeeps
  <2>9. MasteringTypeOK'
    <3>1. deleted' \subseteq Outputs
      BY <2>1 DEF StoreInv, MasteringTypeOK
    <3>2. QED
      BY <2>1, <2>6, <3>1, WriteTyped
  <2>10. QED
    BY <2>8, <2>9 DEF StoreInv, StoreParts
<1>6. CASE Unlists
  <2> DEFINE c == call["panel"].copy
             o == call["panel"].output
             list == Without(c.outputs, o)
             m == [c EXCEPT !.outputs = list, !.derived = c.derived \ {o}, !.shown[o] = <<>>]
  <2>1. /\ call["panel"].at = "unlist" /\ WriteMeta("panel", m) /\ deleted' = deleted \cup {o}
        /\ UNCHANGED <<upload, audio, link, renders, links, revoked, kills>>
    <3>1. [c EXCEPT !.outputs = Without(@, o), !.derived = @ \ {o}, !.shown[o] = <<>>] = m
      BY DEF Servers, Metas
    <3> HIDE DEF m
    <3>2. QED
      BY <1>6, <3>1 DEF Unlists
  <2>2. "panel" \in Servers /\ o \in Outputs /\ c \in Metas /\ IsInjective(c.outputs)
    BY <2>1 DEF Servers, StoreInv, CallInv, Deleting, NumberInv, Numbered
  <2>3. c.outputs \in Seq(Outputs)
    BY <2>2
  <2>4. list \in Seq(Outputs) /\ ToSet(list) \subseteq ToSet(c.outputs) /\ IsInjective(list) /\ o \notin ToSet(list)
    BY <2>2, <2>3, WithoutOf
  <2> HIDE DEF list
  <2>5. m \in Metas /\ m.outputs = list /\ m.derived = c.derived \ {o}
    <3>1. <<>> \in Seq(Tokens)
      OBVIOUS
    <3>2. c.shown \in [Outputs -> Seq(Tokens)] /\ c.derived \subseteq Outputs
      BY <2>2 DEF Metas
    <3>3. [c.shown EXCEPT ![o] = <<>>] \in [Outputs -> Seq(Tokens)]
      BY <3>1, <3>2
    <3>4. m = [c EXCEPT !.outputs = list, !.derived = c.derived \ {o}, !.shown = [c.shown EXCEPT ![o] = <<>>]]
      OBVIOUS
    <3> HIDE DEF m
    <3>5. QED
      BY <2>2, <2>4, <3>2, <3>3, <3>4 DEF Metas
  <2> HIDE DEF m
  <2>6. StoreParts'
    BY <2>1, <2>2, <2>4, <2>5, WriteKeeps
  <2>7. MasteringTypeOK'
    <3>1. deleted' \subseteq Outputs
      BY <2>1, <2>2 DEF StoreInv, MasteringTypeOK
    <3>2. QED
      BY <2>1, <2>2, <2>5, <3>1, WriteTyped
  <2>8. QED
    BY <2>6, <2>7 DEF StoreInv, StoreParts
<1>7. QED
  BY <1>2, <1>3, <1>4, <1>5, <1>6

\* The moves of a call that keeps its copy.
Moves(from, to) ==
  \/ from = "idle" /\ to = "disown"
  \/ from = "encode" /\ to = "probe"
  \/ from = "probe" /\ to = "shrink"
  \/ from = "unlink" /\ to = "unshare"
  \/ from = "unshare" /\ to = "unlist"
  \/ from = "disown" /\ to = "unload"
  \/ from = "unload" /\ to = "clear"
  \/ from = "clear" /\ to = "forget"

\* A call moves on: it renders its output, unlinks the audio it deletes or clears all.
LEMMA MoveKeeps ==
  ASSUME MasteringAssumption, StoreInv, NEW p \in Servers, NEW place \in Places, call' = At(p, place),
         UNCHANGED <<meta, renders, deleted, unsure>>,
         Moves(call[p].at, place),
         place = "disown" => meta.there,
         upload' = upload \/ (upload' = "deleted" /\ upload # "none"),
         place = "clear" => upload' = "deleted",
         place = "forget" => audio'.wav = {} /\ audio'.mp3 = {},
         place = "shrink" => call[p].output \in audio'.wav,
         place = "unshare" => /\ call[p].output \notin audio'.wav
                              /\ call[p].output \notin audio'.mp3 \cap call[p].copy.derived,
         audio'.mp3 \subseteq audio.mp3,
         \A u \in audio'.wav :
           /\ u \in audio.mp3 => u \in audio'.mp3
           /\ u \in audio.wav \/ (place = "probe" /\ u = call[p].output /\ upload = "there"),
         upload' = "there" =>
           \A u \in audio.wav : u \in audio'.wav \/ (place = "unshare" /\ u = call[p].output)
  PROVE  StoreParts'
<1> USE StoreTypes
<1> DEFINE o == call[p].output
<1>1. /\ Others(p) /\ call'[p].at = place
      /\ \A q \in Servers : call'[q].copy = call[q].copy /\ call'[q].output = call[q].output
  BY CallMoves DEF Others
<1>2. \/ call[p].at = "idle" /\ place = "disown"
      \/ call[p].at = "encode" /\ place = "probe"
      \/ call[p].at = "probe" /\ place = "shrink"
      \/ call[p].at = "unlink" /\ place = "unshare"
      \/ call[p].at = "unshare" /\ place = "unlist"
      \/ call[p].at = "disown" /\ place = "unload"
      \/ call[p].at = "unload" /\ place = "clear"
      \/ call[p].at = "clear" /\ place = "forget"
  BY DEF Moves
<1>3. /\ place \in {"probe", "shrink"} => Rendering(p)
      /\ place \in Copying => call[p].at \in Copying
      /\ place \in {"unshare", "unlist"} => call[p].at \in Deleting /\ p = "panel"
      /\ place \notin {"encode", "derive", "show", "unlink", "unshow", "preview", "uploaded"}
  <2>1. place \in {"unshare", "unlist"} => call[p].at \in Deleting \cap PanelOnly
    BY <1>2 DEF Deleting, PanelOnly
  <2>2. place \in {"unshare", "unlist"} => p = "panel"
    BY <2>1 DEF StoreInv, CallInv, Servers
  <2>3. QED
    BY <1>2, <2>1, <2>2 DEF Rendering, Copying
<1>4. CallInv'
  <2>1. /\ \A q \in Servers : call'[q].at \notin Copying => call[q].at \notin Copying \/ q = p
        /\ \A q \in Servers : call[q].at \notin Copying => call[q].copy = NoMeta /\ call[q].output = 0
    BY <1>1 DEF Others, StoreInv, CallInv
  <2>2. place \notin Copying => call[p].at \notin Copying
    BY <1>2 DEF Copying
  <2>3. p = "main" => place \notin PanelOnly
    BY <1>3 DEF PanelOnly, Deleting
  <2>4. p = "panel" /\ place \in Deleting \cup {"derive"} => o # 0
    BY <1>3 DEF StoreInv, CallInv, Deleting
  <2>5. QED
    BY <1>1, <2>1, <2>2, <2>3, <2>4 DEF Others, Servers, StoreInv, CallInv
<1>5. UploadInv'
  <2>1. call[p] = NoCall => place = "disown"
    BY <1>2, NoCallIs
  <2>2. upload # "none" /\ \A q \in Servers \ {p} : call[q].at # "uploaded"
    BY <2>1, NoMetaIs, NoCallIs, <1>2 DEF StoreInv, UploadInv
  <2>3. \A q \in Servers : call[q].at = "forget" => audio'.wav = {} /\ audio'.mp3 = {}
    BY DEF StoreInv, UploadInv
  <2>4. \A q \in Servers : call[q].at \in {"clear", "forget"} => upload' = "deleted"
    BY DEF StoreInv, UploadInv
  <2>5. QED
    BY <1>1, <1>2, <1>3, <2>2, <2>3, <2>4 DEF UploadInv, Others
<1>6. NumberInv'
  BY <1>1 DEF StoreInv, NumberInv, Numbered
<1>7. \A q \in Servers : Rendering(q) =>
        LET u == call[q].output
        IN /\ u # 0 /\ u \notin deleted /\ Unheard(u, meta)
           /\ \A r \in Servers : Unheard(u, call[r].copy) /\ (r # q => call[r].output # u)
           /\ call[q].at = "shrink" /\ upload = "there" => u \in audio.wav
  BY DEF StoreInv, RenderInv
<1>8. ASSUME NEW u \in audio'.wav, u \notin audio.wav
      PROVE  /\ u = o /\ u \notin deleted /\ Unheard(u, meta) /\ \A r \in Servers : Unheard(u, call[r].copy)
             /\ \A r \in Servers : r # p => call[r].output # u
  BY <1>3, <1>7, <1>8
<1>9. RenderInv'
  <2> SUFFICES ASSUME NEW q \in Servers, Rendering(q)'
               PROVE  LET u == call'[q].output
                      IN /\ u # 0 /\ u \notin deleted' /\ Unheard(u, meta')
                         /\ \A r \in Servers : Unheard(u, call'[r].copy) /\ (r # q => call'[r].output # u)
                         /\ call'[q].at = "shrink" /\ upload' = "there" => u \in audio'.wav
    BY Zenon DEF RenderInv, Rendering, Unheard
  <2>1. Rendering(q)
    <3>1. CASE q = p
      BY <1>1, <1>3, <3>1 DEF Rendering
    <3>2. CASE q # p
      BY <1>1, <3>2 DEF Others, Rendering
    <3>3. QED
      BY <3>1, <3>2
  <2>2. q # p => call[q].output # o
    BY <1>7, <2>1
  <2>3. call'[q].at = "shrink" /\ upload' = "there" => call[q].output \in audio'.wav
    <3>1. upload' = "there" => upload = "there"
      OBVIOUS
    <3>2. CASE q = p
      BY <1>1, <3>2
    <3>3. CASE q # p
      BY <1>1, <1>7, <2>1, <2>2, <3>1, <3>3 DEF Others
    <3>4. QED
      BY <3>2, <3>3
  <2>4. QED
    BY <1>1, <1>7, <2>1, <2>3 DEF Unheard
<1>10. PanelInv'
  <2>1. call'["panel"].at = "derive" => call["panel"].at = "derive" /\ p # "panel"
    BY <1>1, <1>3 DEF Others, Servers
  <2>2. call'["panel"].at = "derive" /\ call["panel"].output \in audio'.wav => call["panel"].output \in audio.wav
    BY <1>8, <2>1 DEF Servers
  <2>3. call'["panel"].at \in {"unshare", "unlist"} =>
          call["panel"].output \notin audio'.wav /\ call["panel"].output \notin audio'.mp3 \cap call["panel"].copy.derived
    <3>1. CASE p = "panel" /\ place = "unshare"
      BY <3>1
    <3>2. CASE p = "panel" /\ place = "unlist"
      <4>1. call["panel"].at = "unshare"
        BY <1>2, <3>2
      <4>2. o \notin audio'.wav
        BY <1>2, <3>2, <4>1 DEF StoreInv, PanelInv
      <4>3. QED
        BY <3>2, <4>1, <4>2 DEF StoreInv, PanelInv
    <3>3. CASE p = "panel" /\ place \notin {"unshare", "unlist"}
      BY <1>1, <3>3
    <3>4. CASE p = "main"
      <4>1. call'["panel"].at = call["panel"].at
        BY <1>1, <3>4 DEF Others, Servers
      <4>2. call["panel"].output \in audio'.wav => call["panel"].output \in audio.wav
        BY <1>8, <3>4 DEF Servers
      <4>3. QED
        BY <4>1, <4>2 DEF StoreInv, PanelInv
    <3>5. QED
      BY <3>1, <3>2, <3>3, <3>4 DEF Servers
  <2>4. QED
    BY <1>1, <2>1, <2>2, <2>3 DEF StoreInv, PanelInv, Servers
<1>11. RecordInv'
  <2>1. ASSUME NEW u \in audio'.wav \ audio'.mp3
        PROVE  u \notin meta.derived /\ \A q \in Servers : u \notin call[q].copy.derived
    BY <1>8 DEF Unheard, StoreInv, RecordInv
  <2>2. call'["panel"].at \in Copying => call["panel"].at \in Copying
    BY <1>1, <1>3 DEF Others, Servers
  <2>3. QED
    BY <1>1, <2>1, <2>2 DEF StoreInv, RecordInv, Servers
<1>12. DeletedInv'
  <2>1. \A u \in deleted : u \notin audio'.wav
    BY <1>8 DEF StoreInv, DeletedInv
  <2>2. QED
    BY <1>1, <2>1 DEF StoreInv, DeletedInv
<1>13. ListedInv'
  <2> SUFFICES ASSUME upload' = "there", NEW u \in ToSet(meta.outputs), u \notin unsure, u \notin audio'.wav
               PROVE  Leaving(u)'
    BY DEF ListedInv
  <2>1. CASE u \in audio.wav
    BY <1>1, <1>3, <2>1 DEF Leaving
  <2>2. CASE u \notin audio.wav
    <3>1. Leaving(u)
      BY <2>2 DEF StoreInv, ListedInv
    <3>2. p = "panel" => place = "unlist"
      BY <1>2, <3>1 DEF Leaving
    <3>3. QED
      BY <1>1, <3>1, <3>2 DEF Leaving, Others, Servers
  <2>3. QED
    BY <2>1, <2>2
<1>14. QED
  BY <1>4, <1>5, <1>6, <1>9, <1>10, <1>11, <1>12, <1>13 DEF StoreParts

\* Every action that only moves its call on or ends it leaves the types alone.
LEMMA CallTyped ==
  ASSUME MasteringAssumption, StoreInv, NEW p \in Servers, NEW place \in Places,
         call' \in {At(p, place), Ended(p)},
         UNCHANGED <<meta, link, renders, links, history>>, kills' \in 0 .. MaxKills,
         upload' \in {"none", "there", "deleted"},
         audio' \in [wav : SUBSET Outputs, mp3 : SUBSET Outputs]
  PROVE  MasteringTypeOK'
<1>1. call' \in [Servers -> CallTypes]
  BY CallEnds, CallMoves, StoreTypes
<1>2. QED
  BY <1>1 DEF StoreInv, MasteringTypeOK, CallTypes, history

LEMMA EncodesStep ==
  ASSUME MasteringAssumption, StoreInv, NEW p \in Servers, Encodes(p) \/ Probes(p)
  PROVE  StoreInv'
<1> USE StoreTypes
<1> DEFINE o == call[p].output
<1>1. /\ call[p].at \in {"encode", "probe"} /\ o \in Outputs
      /\ UNCHANGED <<meta, upload, link, renders, links, deleted, revoked, unsure, kills>>
  BY DEF Encodes, Probes, history, StoreInv, RenderInv, Rendering
<1>2. /\ audio' \in [wav : SUBSET Outputs, mp3 : SUBSET Outputs]
      /\ audio'.mp3 = audio.mp3
      /\ audio'.wav = audio.wav \/ (audio'.wav = audio.wav \cup {o} /\ call[p].at = "encode" /\ upload = "there")
  <2>1. CASE audio' = audio
    BY <2>1
  <2>2. CASE audio' = [audio EXCEPT !.wav = @ \cup {o}] /\ call[p].at = "encode" /\ upload = "there"
    BY <1>1, <2>2
  <2>3. QED
    BY <2>1, <2>2 DEF Encodes, Probes
<1>3. "probe" \in Places /\ "shrink" \in Places
  BY DEF Places
<1>4. CASE call' = Ended(p)
  <2>1. AudioKept(p)
    BY <1>2 DEF AudioKept
  <2>2. StoreParts'
    BY <1>1, <1>4, <2>1, EndKeeps
  <2>3. MasteringTypeOK'
    BY <1>1, <1>2, <1>3, <1>4, CallTyped DEF history, StoreInv, MasteringTypeOK
  <2>4. QED
    BY <2>2, <2>3 DEF StoreInv, StoreParts
<1>5. ASSUME NEW place \in Places, call' = At(p, place), Moves(call[p].at, place),
             place = "probe" \/ (place = "shrink" /\ o \in audio.wav),
             place = "shrink" => audio' = audio, audio'.wav = audio.wav \/ (audio'.wav = audio.wav \cup {o} /\ place = "probe")
      PROVE  StoreInv'
  <2>1. \A u \in audio'.wav : u \in audio.wav \/ (place = "probe" /\ u = o /\ upload = "there")
    BY <1>2, <1>5
  <2>2. StoreParts'
    BY <1>1, <1>2, <1>5, <2>1, MoveKeeps
  <2>3. MasteringTypeOK'
    BY <1>1, <1>2, <1>5, CallTyped DEF history, StoreInv, MasteringTypeOK
  <2>4. QED
    BY <2>2, <2>3 DEF StoreInv, StoreParts
<1>6. CASE call' = At(p, "probe") /\ call[p].at = "encode"
  BY <1>2, <1>3, <1>5, <1>6 DEF Moves
<1>7. CASE call' = At(p, "shrink") /\ call[p].at = "probe" /\ o \in audio.wav /\ audio' = audio
  BY <1>3, <1>5, <1>7 DEF Moves
<1>8. QED
  BY <1>4, <1>6, <1>7 DEF Encodes, Probes

LEMMA Shows ==
  ASSUME NEW c \in CallTypes, NEW m
  PROVE  [c EXCEPT !.at = "show", !.copy = m] = [at |-> "show", copy |-> m, output |-> c.output]
<1>1. DOMAIN c = {"at", "copy", "output"}
  BY DEF CallTypes
<1> DEFINE d == [c EXCEPT !.at = "show"]
           e == [d EXCEPT !.copy = m]
           f == [at |-> "show", copy |-> m, output |-> c.output]
<1>2. DOMAIN d = {"at", "copy", "output"} /\ d.at = "show" /\ d.output = c.output /\ d = [x \in DOMAIN d |-> d[x]]
  BY <1>1 DEF CallTypes
<1> HIDE DEF d
<1>3. e = f
  BY <1>2
<1>4. QED
  BY <1>3 DEF d

LEMMA DerivesStep ==
  ASSUME MasteringAssumption, StoreInv, Derives
  PROVE  StoreInv'
<1> USE StoreTypes
<1> DEFINE o == call["panel"].output
           m == [call["panel"].copy EXCEPT !.derived = @ \cup {o}]
<1>1. /\ "panel" \in Servers /\ call["panel"].at = "derive"
      /\ UNCHANGED <<meta, upload, link, renders, links, deleted, revoked, unsure, kills>>
  BY DEF Derives, history, Servers
<1>2. o \in Outputs /\ o # 0 /\ o \in 1 .. renders
  <2>1. o # 0 /\ o <= renders
    BY <1>1 DEF StoreInv, CallInv, NumberInv
  <2>2. o \in Outputs /\ o \in Nat
    BY <1>1, <2>1 DEF Outputs, MasteringAssumption
  <2>3. QED
    BY <2>1, <2>2
<1>3. m \in Metas /\ m.outputs = call["panel"].copy.outputs /\ m.derived = call["panel"].copy.derived \cup {o}
  BY <1>1, <1>2 DEF Metas
<1>4. /\ \/ o \in audio.wav /\ audio'.mp3 = audio.mp3 \cup {o}
         \/ audio'.mp3 = audio.mp3 \ {o} /\ call' = Ended("panel")
      /\ audio'.wav = audio.wav
      /\ audio' \in [wav : SUBSET Outputs, mp3 : SUBSET Outputs]
  BY <1>2 DEF Derives
<1>5. CASE call' = Ended("panel")
  <2>1. AudioKept("panel")
    BY <1>1, <1>4 DEF AudioKept
  <2>2. StoreParts'
    BY <1>1, <1>5, <2>1, EndKeeps
  <2>3. MasteringTypeOK'
    BY <1>1, <1>4, <1>5, CallTyped DEF history, StoreInv, MasteringTypeOK
  <2>4. QED
    BY <2>2, <2>3 DEF StoreInv, StoreParts
<1>6. CASE /\ o \in audio.wav /\ audio'.mp3 = audio.mp3 \cup {o}
           /\ call' = [call EXCEPT !["panel"].at = "show", !["panel"].copy = m]
  <2>1. call' = [call EXCEPT !["panel"] = [at |-> "show", copy |-> m, output |-> o]]
    <3>1. call["panel"] \in CallTypes
      BY <1>1
    <3>2. [call["panel"] EXCEPT !.at = "show", !.copy = m] = [at |-> "show", copy |-> m, output |-> o]
      BY <3>1, Shows
    <3>3. call' = [call EXCEPT !["panel"] = [call["panel"] EXCEPT !.at = "show", !.copy = m]]
      BY <1>1, <1>6
    <3>4. QED
      BY <3>2, <3>3
  <2> HIDE DEF m
  <2>2. /\ call'["panel"].at = "show" /\ call'["panel"].copy = m /\ call'["panel"].output = o
        /\ call'["main"] = call["main"] /\ Others("panel")
        /\ call' \in [Servers -> CallTypes]
    <3>1. call' \in [Servers -> CallTypes]
      BY <1>1, <1>2, <1>3, <2>1, CopyTyped DEF Places
    <3>2. QED
      BY <2>1, <3>1 DEF Servers, Others
  <2>3. /\ o \notin deleted /\ o \notin meta.derived /\ \A q \in Servers : o \notin call[q].copy.derived
    BY <1>1, <1>6 DEF StoreInv, PanelInv, DeletedInv
  <2>4. MasteringTypeOK'
    BY <1>1, <1>4, <2>2 DEF StoreInv, MasteringTypeOK, CallTypes
  <2>5. CallInv'
    BY <2>2 DEF StoreInv, CallInv, Servers, Copying, Deleting, PanelOnly
  <2>6. UploadInv'
    <3>1. upload # "none" /\ call["main"].at \notin {"uploaded", "forget"}
      BY <1>1, <1>6, NoCallIs DEF StoreInv, UploadInv, Servers
    <3>2. QED
      BY <1>1, <2>2, <3>1 DEF StoreInv, UploadInv, Servers
  <2>7. NumberInv'
    <3>1. Numbered(call["panel"].copy) /\ renders' = renders
      BY <1>1 DEF StoreInv, NumberInv
    <3>2. /\ ToSet(m.outputs) \cup m.derived \subseteq 1 .. renders' /\ IsInjective(m.outputs)
          /\ o <= renders'
      BY <1>2, <1>3, <3>1 DEF Numbered
    <3>3. Numbered(call["main"].copy)' /\ call'["main"].output <= renders' /\ Numbered(meta)' /\ deleted' \subseteq 1 .. renders'
      BY <1>1, <2>2 DEF StoreInv, NumberInv, Numbered, Servers
    <3>4. QED
      BY <2>2, <3>2, <3>3 DEF NumberInv, Numbered, Servers
  <2>8. RenderInv'
    <3> SUFFICES ASSUME NEW q \in Servers, Rendering(q)'
                 PROVE  LET u == call'[q].output
                        IN /\ u # 0 /\ u \notin deleted' /\ Unheard(u, meta')
                           /\ \A r \in Servers : Unheard(u, call'[r].copy) /\ (r # q => call'[r].output # u)
                           /\ call'[q].at = "shrink" /\ upload' = "there" => u \in audio'.wav
      BY Zenon DEF RenderInv, Rendering, Unheard
    <3> DEFINE u == call[q].output
    <3>1. q = "main" /\ call'[q] = call[q] /\ Rendering(q)
      BY <2>2 DEF Rendering, Servers
    <3>2. /\ u # 0 /\ u \notin deleted /\ Unheard(u, meta)
          /\ \A r \in Servers : Unheard(u, call[r].copy) /\ (r # q => call[r].output # u)
          /\ call[q].at = "shrink" /\ upload = "there" => u \in audio.wav
      BY <3>1 DEF StoreInv, RenderInv
    <3>3. Unheard(u, m)
      <4>1. u # o /\ Unheard(u, call["panel"].copy)
        BY <1>1, <3>1, <3>2
      <4>2. QED
        BY <1>3, <4>1 DEF Unheard
    <3> HIDE DEF u
    <3>4. QED
      BY <1>1, <1>4, <2>2, <3>1, <3>2, <3>3 DEF u, Servers
  <2>9. PanelInv'
    BY <2>2 DEF PanelInv
  <2>10. RecordInv'
    BY <1>1, <1>3, <1>4, <1>6, <2>2, <2>3 DEF StoreInv, RecordInv, Servers, Copying
  <2>11. DeletedInv'
    BY <1>1, <1>3, <1>4, <1>6, <2>2, <2>3 DEF StoreInv, DeletedInv, Servers
  <2>12. ListedInv'
    BY <1>1, <1>4, <2>2 DEF StoreInv, ListedInv, Leaving
  <2>13. QED
    BY <2>4, <2>5, <2>6, <2>7, <2>8, <2>9, <2>10, <2>11, <2>12 DEF StoreInv
<1>7. QED
  BY <1>1, <1>4, <1>5, <1>6 DEF Derives

\* The steps of the deletions that keep the metadata.
LEMMA DeletesStep ==
  ASSUME MasteringAssumption, StoreInv,
         \/ Unlinks
         \/ \E p \in Servers : Unshares(p) \/ DeleteAsset(p) \/ Unloads(p) \/ Clears(p)
  PROVE  StoreInv'
<1> USE StoreTypes
<1>1. CASE Unlinks
  <2> DEFINE o == call["panel"].output
  <2>1. /\ "panel" \in Servers /\ "unshare" \in Places /\ call["panel"].at = "unlink"
        /\ call' = At("panel", "unshare")
        /\ UNCHANGED <<meta, upload, link, renders, links, deleted, revoked, unsure, kills>>
    BY <1>1 DEF Unlinks, history, Servers, Places
  <2>2. audio'.wav = audio.wav \ {o} /\ audio'.mp3 = audio.mp3 \ ({o} \cap call["panel"].copy.derived)
        /\ audio' \in [wav : SUBSET Outputs, mp3 : SUBSET Outputs]
    BY <1>1 DEF Unlinks
  <2>3. StoreParts'
    BY <2>1, <2>2, MoveKeeps DEF Moves
  <2>4. MasteringTypeOK'
    BY <2>1, <2>2, CallTyped DEF history, StoreInv, MasteringTypeOK
  <2>5. QED
    BY <2>3, <2>4 DEF StoreInv, StoreParts
<1>2. ASSUME NEW p \in Servers, Unshares(p) PROVE StoreInv'
  <2> DEFINE place == IF call[p].at = "unshare" THEN "unlist" ELSE "unload"
  <2>1. /\ call[p].at \in {"unshare", "disown"} /\ call' = At(p, place)
        /\ UNCHANGED <<meta, upload, audio, renders, links, deleted, unsure, kills>>
        /\ link' = [t \in Tokens |-> IF t \in LinksOf(p) THEN 0 ELSE link[t]]
        /\ revoked' \subseteq Tokens
    BY <1>2 DEF Unshares, StoreInv, MasteringTypeOK
  <2>2. Moves(call[p].at, place) /\ place \in {"unlist", "unload"} /\ place \in Places
    BY <2>1 DEF Moves, Places
  <2> HIDE DEF place
  <2>3. StoreParts'
    BY <2>1, <2>2, MoveKeeps
  <2>4. call' \in [Servers -> CallTypes]
    BY <2>1, <2>2, CallMoves
  <2>5. link' \in [Tokens -> Outputs \cup {0}]
    BY <2>1 DEF StoreInv, MasteringTypeOK
  <2>6. MasteringTypeOK'
    BY <2>1, <2>4, <2>5 DEF StoreInv, MasteringTypeOK, CallTypes
  <2>7. QED
    BY <2>3, <2>6 DEF StoreInv, StoreParts
<1>3. ASSUME NEW p \in Servers, NEW place \in Places, call' = At(p, place), Moves(call[p].at, place),
             place \in {"disown", "clear", "forget"}, place = "disown" => meta.there,
             upload' = IF place = "clear" THEN "deleted" ELSE upload,
             audio' = IF place = "forget" THEN [wav |-> {}, mp3 |-> {}] ELSE audio,
             UNCHANGED <<meta, link, renders, links, deleted, revoked, unsure, kills>>
      PROVE  StoreInv'
  <2>1. /\ audio' \in [wav : SUBSET Outputs, mp3 : SUBSET Outputs]
        /\ audio'.wav \subseteq audio.wav /\ audio'.mp3 \subseteq audio.mp3
        /\ place = "forget" => audio'.wav = {} /\ audio'.mp3 = {}
        /\ place # "forget" => audio' = audio
    BY <1>3
  <2>2. upload # "none"
    <3>1. call[p].at # "idle" \/ meta.there
      BY <1>3 DEF Moves
    <3>2. QED
      BY <3>1, NoCallIs, NoMetaIs DEF StoreInv, UploadInv
  <2>3. place = "forget" => upload = "deleted"
    BY <1>3 DEF Moves, StoreInv, UploadInv
  <2>4. StoreParts'
    BY <1>3, <2>1, <2>2, <2>3, MoveKeeps
  <2>5. MasteringTypeOK'
    BY <1>3, <2>1, CallTyped DEF history, StoreInv, MasteringTypeOK
  <2>6. QED
    BY <2>4, <2>5 DEF StoreInv, StoreParts
<1>4. ASSUME NEW p \in Servers, DeleteAsset(p) PROVE StoreInv'
  BY <1>3, <1>4 DEF DeleteAsset, history, Moves, Places
<1>5. ASSUME NEW p \in Servers, Unloads(p) PROVE StoreInv'
  BY <1>3, <1>5 DEF Unloads, history, Moves, Places
<1>6. ASSUME NEW p \in Servers, Clears(p) PROVE StoreInv'
  BY <1>3, <1>6 DEF Clears, history, Moves, Places
<1>7. QED
  BY <1>1, <1>2, <1>4, <1>5, <1>6

\* The asset is forgotten when nothing of it is on disk.
LEMMA ForgetsStep ==
  ASSUME MasteringAssumption, StoreInv, NEW p \in Servers, Forgets(p)
  PROVE  StoreInv'
<1> USE StoreTypes
<1>1. /\ call[p].at = "forget" /\ call' = Ended(p) /\ meta' = NoMeta
      /\ deleted' = deleted \cup {o \in Outputs : Listed(o)}
      /\ UNCHANGED <<upload, audio, link, renders, links, revoked, unsure, kills>>
  BY DEF Forgets
<1>2. call' \in [Servers -> CallTypes] /\ call'[p] = NoCall /\ Others(p)
  BY <1>1, CallEnds
<1>3. upload = "deleted" /\ audio.wav = {} /\ audio.mp3 = {}
  BY <1>1 DEF StoreInv, UploadInv
<1>4. \A u \in deleted' : u \in deleted \/ u \in ToSet(meta.outputs)
  BY <1>1 DEF Listed
<1>5. MasteringTypeOK'
  BY <1>1, <1>2, NoMetaIs DEF StoreInv, MasteringTypeOK, CallTypes
<1>6. CallInv'
  BY <1>2, NoCallIs DEF StoreInv, CallInv, Others, Servers, Copying, PanelOnly, Deleting
<1>7. UploadInv'
  <2>1. \A q \in Servers \ {p} : call[q].at # "uploaded"
    BY <1>1, NoCallIs DEF StoreInv, UploadInv
  <2>2. QED
    BY <1>1, <1>2, <1>3, <2>1, NoCallIs DEF StoreInv, UploadInv, Others
<1>8. NumberInv'
  <2>1. Numbered(NoMeta) /\ Numbered(meta) /\ 0 <= renders /\ deleted \subseteq 1 .. renders
    BY NoMetaIs DEF Numbered, StoreInv, NumberInv
  <2>2. deleted' \subseteq 1 .. renders
    BY <1>4, <2>1 DEF Numbered
  <2>3. QED
    BY <1>1, <1>2, <2>1, <2>2, NoCallIs DEF StoreInv, NumberInv, Numbered, Others
<1>9. RenderInv'
  <2> SUFFICES ASSUME NEW q \in Servers, Rendering(q)'
               PROVE  LET u == call'[q].output
                      IN /\ u # 0 /\ u \notin deleted' /\ Unheard(u, meta')
                         /\ \A r \in Servers : Unheard(u, call'[r].copy) /\ (r # q => call'[r].output # u)
                         /\ call'[q].at = "shrink" /\ upload' = "there" => u \in audio'.wav
    BY Zenon DEF RenderInv, Rendering, Unheard
  <2> DEFINE u == call[q].output
  <2>1. q # p /\ call'[q] = call[q] /\ Rendering(q)
    BY <1>2, NoCallIs DEF Others, Rendering
  <2>2. /\ u # 0 /\ u \notin deleted /\ Unheard(u, meta)
        /\ \A r \in Servers : Unheard(u, call[r].copy) /\ (r # q => call[r].output # u)
    BY <2>1 DEF StoreInv, RenderInv
  <2>3. u \notin deleted' /\ Unheard(u, NoMeta)
    BY <1>4, <2>2, NoMetaIs DEF Unheard
  <2> HIDE DEF u
  <2>4. QED
    BY <1>1, <1>2, <1>3, <2>1, <2>2, <2>3, NoCallIs DEF Others, u
<1>10. PanelInv' /\ RecordInv' /\ DeletedInv' /\ ListedInv'
  BY <1>1, <1>3 DEF PanelInv, RecordInv, DeletedInv, ListedInv
<1>11. QED
  BY <1>5, <1>6, <1>7, <1>8, <1>9, <1>10 DEF StoreInv

LEMMA DiesStep ==
  ASSUME MasteringAssumption, StoreInv, NEW p \in Servers, MasteringDies(p)
  PROVE  StoreInv'
<1> USE StoreTypes
<1>1. /\ call' = Ended(p) /\ UNCHANGED <<meta, upload, audio, link, renders, links, deleted, revoked>>
      /\ unsure \subseteq unsure' /\ (call[p].at \in {"unshare", "unlist"} => call[p].output \in unsure')
      /\ unsure' \subseteq unsure \cup {call[p].output}
      /\ call[p].at \notin {"unshare", "unlist"} => unsure' = unsure
      /\ kills' \in 0 .. MaxKills
  BY DEF MasteringDies, StoreInv, MasteringTypeOK, MasteringAssumption
<1>2. AudioKept(p)
  BY <1>1 DEF AudioKept
<1>3. StoreParts'
  BY <1>1, <1>2, EndKeeps
<1>4. unsure' \subseteq Outputs
  <2>1. call[p].at \in {"unshare", "unlist"} => p = "panel" /\ call[p].output \in Outputs
    BY DEF StoreInv, CallInv, PanelOnly, Deleting, Servers
  <2>2. QED
    BY <1>1, <2>1 DEF StoreInv, MasteringTypeOK
<1>5. call' \in [Servers -> CallTypes]
  BY <1>1, CallEnds
<1>6. MasteringTypeOK'
  BY <1>1, <1>4, <1>5 DEF StoreInv, MasteringTypeOK, CallTypes
<1>7. QED
  BY <1>3, <1>6 DEF StoreInv, StoreParts

LEMMA StoreSteps ==
  ASSUME MasteringAssumption, StoreInv, [MasteringNext]_masteringVars
  PROVE  StoreInv'
<1>1. CASE UNCHANGED masteringVars
  <2>1. StoreParts' 
    BY <1>1, NothingMoves DEF masteringVars
  <2>2. MasteringTypeOK'
    BY <1>1 DEF masteringVars, StoreInv, MasteringTypeOK
  <2>3. QED
    BY <2>1, <2>2 DEF StoreInv, StoreParts
<1>2. ASSUME NEW p \in Servers, MasteringTool(p) PROVE StoreInv'
  BY <1>2, UploadStep, ReadStep, DeletesStep DEF MasteringTool
<1>3. ASSUME NEW p \in Servers, Continues(p) PROVE StoreInv'
  <2>1. CASE UploadSaves(p) \/ AnalyzeSaves(p) \/ RenderSaves(p)
    BY <2>1, UploadSavesStep, SavesStep
  <2>2. CASE Encodes(p) \/ Probes(p)
    BY <2>2, EncodesStep
  <2>3. CASE Unshares(p) \/ Unloads(p) \/ Clears(p)
    BY <2>3, DeletesStep
  <2>4. CASE Forgets(p)
    BY <2>4, ForgetsStep
  <2>5. QED
    BY <1>3, <2>1, <2>2, <2>3, <2>4 DEF Continues
<1>4. ASSUME NEW p \in Servers, MasteringDies(p) PROVE StoreInv'
  BY <1>4, DiesStep
<1>5. CASE PanelTool
  BY <1>5, ReadStep, ShareStep DEF PanelTool
<1>6. CASE PanelContinues
  BY <1>6, SavesStep, DerivesStep, DeletesStep DEF PanelContinues
<1>7. QED
  BY <1>1, <1>2, <1>3, <1>4, <1>5, <1>6 DEF MasteringNext

LEMMA StoreInit == ASSUME MasteringAssumption, MasteringInit PROVE StoreInv
<1>1. \A p \in Servers : call[p] = NoCall
  BY DEF MasteringInit
<1>2. MasteringTypeOK
  <2>1. call \in [Servers -> CallTypes]
    BY NoCallIs DEF MasteringInit
  <2>2. QED
    BY <2>1, NoMetaIs DEF MasteringInit, MasteringTypeOK, CallTypes, MasteringAssumption
<1>3. CallInv /\ UploadInv /\ RenderInv /\ PanelInv
  BY <1>1, NoCallIs DEF MasteringInit, CallInv, UploadInv, RenderInv, Rendering, PanelInv, Servers,
     Copying, PanelOnly, Deleting
<1>4. NumberInv
  <2>1. Numbered(NoMeta)
    BY NoMetaIs DEF Numbered
  <2>2. QED
    BY <1>1, <2>1, NoCallIs DEF MasteringInit, NumberInv
<1>5. RecordInv /\ DeletedInv /\ ListedInv
  BY <1>1, NoCallIs, NoMetaIs DEF MasteringInit, RecordInv, DeletedInv, ListedInv, Servers, Copying
<1>6. QED
  BY <1>2, <1>3, <1>4, <1>5 DEF StoreInv

\* The inductive invariant of the mastering store.
THEOREM StoreInvariant == MasteringSpec => []StoreInv
<1>1. MasteringInit => StoreInv
  BY StoreInit, MasteringAssumption
<1>2. StoreInv /\ [MasteringNext]_masteringVars => StoreInv'
  BY StoreSteps, MasteringAssumption
<1>3. QED
  BY <1>1, <1>2, PTL DEF MasteringSpec

\* Every variable of the mastering store keeps its type: what a process has read and
\* writes back, seconds or minutes later, is metadata about outputs and tokens.
THEOREM MasteringTypeCorrect == MasteringSpec => []MasteringTypeOK
BY StoreInvariant, PTL DEF StoreInv

\* An output whose deletion was answered is never served again, whatever stale metadata
\* the other process writes back; and what is listed has its audio, but for what is
\* being deleted, was brought back, or was left half deleted by a death.
THEOREM ServedAsListedThm == MasteringSpec => []ServedAsListed
<1>1. StoreInv => ServedAsListed
  BY DEF StoreInv, DeletedInv, ListedInv, ServedAsListed, Downloadable, Listed
<1>2. QED
  BY <1>1, StoreInvariant, PTL
=============================================================================
