------------------------------ MODULE FileVault ------------------------------
(* The file vault: runtime/file_vault/store.py behind the tools and routes of *)
(* runtime/file_vault_mcp_server.py.  A file is staged, moved into place and  *)
(* then entered into the database; deleting goes the other way round.         *)
(*                                                                            *)
(* The server is one event loop.  An upload from the browser lets others run  *)
(* while it awaits its next chunk; everything else runs to its end, or to the *)
(* death of the process.  Other programs use the same disk meanwhile.  Names, *)
(* tags, notes, hashes, the access counters and the audit log are left out.   *)
EXTENDS Integers

CONSTANTS Sessions,     \* browser uploads that may be open together
          Disk,         \* free space at the beginning, in chunks
          Reserve,      \* reserve_bytes
          MaxUpload,    \* max_upload_bytes
          Growth,       \* by how much a file may grow while it is imported
          MaxOthers,    \* bound: the most that other programs take
          MaxFiles,     \* bound: files are numbered up to this
          MaxShares,    \* bound: so are shares
          MaxDeaths     \* bound: how often the process dies

ASSUME VaultAssumption ==
  /\ Disk \in Nat /\ Reserve \in Nat /\ MaxUpload \in Nat
  /\ Growth \subseteq Nat
  /\ MaxOthers \in Nat /\ MaxFiles \in Nat /\ MaxShares \in Nat /\ MaxDeaths \in Nat

Files == 1 .. MaxFiles
Shares == 1 .. MaxShares

VARIABLES
  free,      \* free space on the disk
  part,      \* what each browser upload has staged, or Closed
  object,    \* the size of each object, or Missing
  rows,      \* the files that the database lists
  share,     \* the database's shares: the file each leads to, 0 if revoked or none
  section,   \* what the server does at this moment without letting others run
  files,     \* how many files and shares were numbered
  shares,
  others,    \* what other programs have taken
  cut,       \* history: files whose upload or deletion did not come to its end
  unfit,     \* history: a tool refused for lack of space what did fit
  deaths

vars == <<free, part, object, rows, share, section, files, shares, others, cut, unfit, deaths>>

Closed == -1
Missing == -1

\* "staged": store_stream wrote the bytes, "moved": os.replace put them in
\* place, "unlisted": the row is deleted and the object is not.  grown is what
\* an imported file had more than its size when it was looked up.
Idle == [at |-> "idle", size |-> 0, grown |-> 0, file |-> 0, tool |-> FALSE]

Sections == [at : {"idle", "staged", "moved", "unlisted"}, size : Nat, grown : Nat,
             file : Files \cup {0}, tool : BOOLEAN]

-----------------------------------------------------------------------------
(* StreamingUpload, driven by api_upload *)

Begin(s) ==
  /\ section = Idle
  /\ part[s] = Closed
  /\ part' = [part EXCEPT ![s] = 0]
  /\ UNCHANGED <<free, object, rows, share, section, files, shares, others, cut, unfit, deaths>>

\* abort, which finish does too when it fails.
Abort(s) ==
  /\ section = Idle
  /\ part[s] # Closed
  /\ part' = [part EXCEPT ![s] = Closed]
  /\ free' = free + part[s]
  /\ UNCHANGED <<object, rows, share, section, files, shares, others, cut, unfit, deaths>>

\* Fault: the space before the write is compared, not the space after it.
FitsBefore(n) == free >= Reserve

\* n more bytes leave the reserve untouched.
Fits(n) == free - n >= Reserve

\* write.  A chunk that does not fit aborts the upload.
Write(s) ==
  /\ section = Idle
  /\ part[s] # Closed
  /\ part[s] + 1 <= MaxUpload
  /\ Fits(1)
  /\ part' = [part EXCEPT ![s] = @ + 1]
  /\ free' = free - 1
  /\ UNCHANGED <<object, rows, share, section, files, shares, others, cut, unfit, deaths>>

\* The bytes get a file id and their place among the objects.
Moved(size, tool) ==
  /\ files < MaxFiles
  /\ files' = files + 1
  /\ object' = [object EXCEPT ![files'] = size]
  /\ section' = [Idle EXCEPT !.at = "moved", !.size = size, !.file = files', !.tool = tool]

\* finish: the reserve must still be there.
Finish(s) ==
  /\ section = Idle
  /\ part[s] # Closed
  /\ Fits(0)
  /\ Moved(part[s], FALSE)
  /\ part' = [part EXCEPT ![s] = Closed]
  /\ UNCHANGED <<free, rows, share, shares, others, cut, unfit, deaths>>

-----------------------------------------------------------------------------
(* store_bytes, import_path and store_stream *)

\* The size is checked before anything is written; what does not fit changes
\* nothing.  An imported file is read to its end, however long it has become.
Store(size, grown) ==
  /\ section = Idle
  /\ files < MaxFiles
  /\ size + grown <= MaxUpload
  /\ Fits(size)
  /\ size + grown <= free
  /\ free' = free - size - grown
  /\ section' = [Idle EXCEPT !.at = "staged", !.size = size + grown, !.grown = grown]
  /\ UNCHANGED <<part, object, rows, share, files, shares, others, cut, unfit, deaths>>

\* store_stream checks again, with the bytes already on the disk.
StoreMoves ==
  /\ section.at = "staged"
  /\ Fits(section.size)
  /\ Moved(section.size, TRUE)
  /\ UNCHANGED <<free, part, rows, share, shares, others, cut, unfit, deaths>>

StoreRefuses ==
  /\ section.at = "staged"
  /\ ~ Fits(section.size)
  /\ free' = free + section.size
  /\ section' = Idle
  /\ unfit' = (unfit \/ Fits(0))
  /\ UNCHANGED <<part, object, rows, share, files, shares, others, cut, deaths>>

-----------------------------------------------------------------------------
(* _finalize_staging after os.replace *)

Insert ==
  /\ section.at = "moved"
  /\ rows' = rows \cup {section.file}
  /\ section' = Idle
  /\ UNCHANGED <<free, part, object, share, files, shares, others, cut, unfit, deaths>>

\* Fault: the object stays when its row cannot be inserted.
InsertFailsSilently ==
  /\ section.at = "moved"
  /\ section' = Idle
  /\ UNCHANGED <<free, part, object, rows, share, files, shares, others, cut, unfit, deaths>>

\* The database refuses: the object is removed again.
InsertFails ==
  /\ section.at = "moved"
  /\ object' = [object EXCEPT ![section.file] = Missing]
  /\ free' = free + section.size
  /\ section' = Idle
  /\ UNCHANGED <<part, rows, share, files, shares, others, cut, unfit, deaths>>

\* Tags that are too long or too many are found only now, outside the handler
\* that removes the object.
TagsRefused ==
  /\ section.at = "moved" /\ section.tool
  /\ cut' = cut \cup {section.file}
  /\ section' = Idle
  /\ UNCHANGED <<free, part, object, rows, share, files, shares, others, unfit, deaths>>

-----------------------------------------------------------------------------
(* delete, and the shares *)

\* Fault: the object goes first.
DeleteObjectFirst(f) ==
  /\ section = Idle
  /\ f \in rows
  /\ object' = [object EXCEPT ![f] = Missing]
  /\ section' = [Idle EXCEPT !.at = "unlisted", !.file = f]
  /\ UNCHANGED <<free, part, rows, share, files, shares, others, cut, unfit, deaths>>

\* ON DELETE CASCADE.
SharesWithout(f) == [t \in Shares |-> IF share[t] = f THEN 0 ELSE share[t]]

\* The row and its shares go in one transaction, then the object.
Delete(f) ==
  /\ section = Idle
  /\ f \in rows
  /\ rows' = rows \ {f}
  /\ share' = SharesWithout(f)
  /\ section' = [Idle EXCEPT !.at = "unlisted", !.file = f]
  /\ UNCHANGED <<free, part, object, files, shares, others, cut, unfit, deaths>>

Unlink ==
  LET f == section.file
  IN /\ section.at = "unlisted"
     /\ free' = free + object[f]
     /\ object' = [object EXCEPT ![f] = Missing]
     /\ section' = Idle
     /\ UNCHANGED <<part, rows, share, files, shares, others, cut, unfit, deaths>>

CreateShare(f) ==
  /\ section = Idle
  /\ f \in rows /\ shares < MaxShares
  /\ shares' = shares + 1
  /\ share' = [share EXCEPT ![shares'] = f]
  /\ UNCHANGED <<free, part, object, rows, section, files, others, cut, unfit, deaths>>

\* revoke_share, or the expiry that resolve_share_token compares.
EndShare(t) ==
  /\ section = Idle
  /\ share[t] # 0
  /\ share' = [share EXCEPT ![t] = 0]
  /\ UNCHANGED <<free, part, object, rows, section, files, shares, others, cut, unfit, deaths>>

-----------------------------------------------------------------------------
\* The process dies.  What was staged stays on the disk and is not looked for
\* when it starts again.
Die ==
  /\ deaths < MaxDeaths
  /\ section # Idle \/ \E s \in Sessions : part[s] # Closed
  /\ deaths' = deaths + 1
  /\ part' = [s \in Sessions |-> Closed]
  /\ cut' = IF section.at \in {"moved", "unlisted"} THEN cut \cup {section.file} ELSE cut
  /\ section' = Idle
  /\ UNCHANGED <<free, object, rows, share, files, shares, others, unfit>>

OthersTake ==
  /\ others < MaxOthers /\ free > 0
  /\ others' = others + 1
  /\ free' = free - 1
  /\ UNCHANGED <<part, object, rows, share, section, files, shares, cut, unfit, deaths>>

OthersGive ==
  /\ others > 0
  /\ others' = others - 1
  /\ free' = free + 1
  /\ UNCHANGED <<part, object, rows, share, section, files, shares, cut, unfit, deaths>>

Init ==
  /\ free = Disk
  /\ part = [s \in Sessions |-> Closed]
  /\ object = [f \in Files |-> Missing]
  /\ rows = {}
  /\ share = [t \in Shares |-> 0]
  /\ section = Idle
  /\ files = 0
  /\ shares = 0
  /\ others = 0
  /\ cut = {}
  /\ unfit = FALSE
  /\ deaths = 0

Browser(s) == Begin(s) \/ Write(s) \/ Finish(s) \/ Abort(s)

Tool ==
  \/ \E size \in 0 .. MaxUpload, grown \in Growth : Store(size, grown)
  \/ \E f \in Files : Delete(f) \/ CreateShare(f)
  \/ \E t \in Shares : EndShare(t)

Section == StoreMoves \/ StoreRefuses \/ Insert \/ InsertFails \/ TagsRefused \/ Unlink

Next ==
  \/ \E s \in Sessions : Browser(s)
  \/ Tool
  \/ Section
  \/ Die \/ OthersTake \/ OthersGive

Spec == Init /\ [][Next]_vars

-----------------------------------------------------------------------------
(* Properties *)

\* Types.
TypeOK ==
  /\ free \in Nat
  /\ part \in [Sessions -> Nat \cup {Closed}]
  /\ object \in [Files -> Nat \cup {Missing}]
  /\ rows \subseteq Files
  /\ share \in [Shares -> Files \cup {0}]
  /\ section \in Sections
  /\ files \in 0 .. MaxFiles
  /\ shares \in 0 .. MaxShares
  /\ others \in 0 .. MaxOthers
  /\ cut \subseteq Files
  /\ unfit \in BOOLEAN
  /\ deaths \in 0 .. MaxDeaths

\* Whatever step the process dies at, a listed file has its object: nothing
\* that the vault shows is lost.
ListedIsStored == \A f \in rows : object[f] # Missing

\* A share that opens leads to a listed file: a deletion that died half way
\* has taken the shares along.
SharesEndWithFile == \A t \in Shares : share[t] # 0 => share[t] \in rows

\* An object that no row names, which nothing will ever remove, comes only from
\* a death in the middle or from tags that were refused.
OrphansHaveACause ==
  \A f \in Files :
    object[f] # Missing => f \in rows \/ f \in cut \/ f = section.file

\* However uploads interleave, no write of the vault takes the disk below the
\* reserve, except by what an imported file grew since its size was looked up.
ReserveKept ==
  [][free' < free /\ others' = others => free' >= Reserve - section'.grown]_vars

\* What the design promises: an upload is refused if it would cross the
\* reserve, so one that would not cross it is not refused for lack of space.
\* The code does not keep this one (README, Divergences).
AcceptsWhatFits == ~ unfit
=============================================================================
