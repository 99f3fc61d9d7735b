-------------------------- MODULE OperatorRecovery ---------------------------
(* Critical changes to the host: runtime/vps_operator/recovery.py behind the  *)
(* critical_* tools of runtime/vps_ops_server.py.  A transaction backs its    *)
(* files up, arms a timer of systemd that will restore them, and is then      *)
(* written, verified and committed, or rolled back.                           *)
(*                                                                            *)
(* Several servers offer the tools, each serving one call at a time, and the  *)
(* timer starts a process of its own (deploy/eiros_operator_rollback.py).     *)
(* They share the files, the manifests and systemd, and nothing is locked.    *)
(* Modes, owners and the output of the verifying command are left out.        *)
EXTENDS FiniteSets

CONSTANTS Paths, Txs,
          Servers,     \* processes that offer the tools
          Absent       \* the contents of a path where there is no file

ASSUME RecoveryAssumption == Servers \cap Txs = {}

\* The process that a transaction's timer starts goes by the transaction's name.
Processes == Servers \cup Txs

VARIABLES
  disk,      \* path -> its contents: Absent, the path itself (what was there at
             \* the beginning) or the transaction that wrote it
  state,     \* the state in each manifest; "none": there is no manifest
  entries,   \* the paths of each transaction
  backup,    \* and what they held
  timer,     \* transactions whose timer is armed
  known,     \* transactions whose stage has been answered
  op,        \* what each process is in the middle of
  late,      \* history: <<transaction, path>> written while it was rolled back
  lost       \* history: transactions whose rollback was cut off or failed

vars == <<disk, state, entries, backup, timer, known, op, late, lost>>

Idle == [do |-> "idle"]

\* A process's operation on a transaction; left are the paths still to be done.
Op(do, t, left) == [do |-> do, tx |-> t, left |-> left]

At(a, do) == op[a].do = do

RollingBack(t) == \E a \in Processes : op[a].do = "restore" /\ op[a].tx = t

-----------------------------------------------------------------------------
(* stage *)

Stage(a, t, ps) ==
  /\ At(a, "idle")
  /\ t \notin DOMAIN backup
  /\ ps # {}
  /\ entries' = [entries EXCEPT ![t] = ps]
  /\ backup' = [u \in DOMAIN backup \cup {t} |-> IF u = t THEN [p \in {} |-> Absent] ELSE backup[u]]
  /\ op' = [op EXCEPT ![a] = Op("backup", t, ps)]
  /\ UNCHANGED <<disk, state, timer, known, late, lost>>

Backup(a, p) ==
  LET t == op[a].tx
  IN /\ At(a, "backup") /\ p \in op[a].left
     /\ backup' = [backup EXCEPT ![t] =
                     [q \in DOMAIN @ \cup {p} |-> IF q = p THEN disk[p] ELSE @[q]]]
     /\ op' = [op EXCEPT ![a].left = @ \ {p}]
     /\ UNCHANGED <<disk, state, entries, timer, known, late, lost>>

SaveStaged(a) ==
  LET t == op[a].tx
  IN /\ At(a, "backup") /\ op[a].left = {}
     /\ state' = [state EXCEPT ![t] = "staged"]
     /\ op' = [op EXCEPT ![a] = Op("schedule", t, {})]
     /\ UNCHANGED <<disk, entries, backup, timer, known, late, lost>>

\* The name of the transaction is told when the timer is armed.
Schedule(a) ==
  LET t == op[a].tx
  IN /\ At(a, "schedule")
     /\ timer' = timer \cup {t}
     /\ known' = known \cup {t}
     /\ op' = [op EXCEPT ![a] = Idle]
     /\ UNCHANGED <<disk, state, entries, backup, late, lost>>

\* systemd-run fails: stage raises and its transaction is never heard of.
ScheduleFails(a) ==
  /\ At(a, "schedule")
  /\ op' = [op EXCEPT ![a] = Idle]
  /\ UNCHANGED <<disk, state, entries, backup, timer, known, late, lost>>

-----------------------------------------------------------------------------
(* atomic_write: the manifest is read, then the file is replaced *)

Write(a, t, p) ==
  /\ At(a, "idle")
  /\ t \in known /\ p \in entries[t]
  /\ state[t] = "staged"
  /\ op' = [op EXCEPT ![a] = Op("write", t, {p})]
  /\ UNCHANGED <<disk, state, entries, backup, timer, known, late, lost>>

Replace(a) ==
  LET t == op[a].tx
      ps == op[a].left
  IN /\ At(a, "write")
     /\ disk' = [p \in Paths |-> IF p \in ps THEN t ELSE disk[p]]
     /\ late' = IF RollingBack(t) \/ state[t] = "rolled_back"
                THEN late \cup ({t} \X ps) ELSE late
     /\ op' = [op EXCEPT ![a] = Idle]
     /\ UNCHANGED <<state, entries, backup, timer, known, lost>>

-----------------------------------------------------------------------------
(* commit *)

Commit(a, t) ==
  /\ At(a, "idle")
  /\ t \in known
  /\ state[t] # "rolled_back"
  /\ op' = [op EXCEPT ![a] = Op("commit", t, {})]
  /\ UNCHANGED <<disk, state, entries, backup, timer, known, late, lost>>

\* Fault: the timer is stopped before the manifest is saved.
CancelFirst(a) ==
  LET t == op[a].tx
  IN /\ At(a, "commit")
     /\ IF t \in timer
        THEN timer' = timer \ {t} /\ UNCHANGED <<op, state>>
        ELSE /\ state' = [state EXCEPT ![t] = "committed"]
             /\ op' = [op EXCEPT ![a] = Idle]
             /\ UNCHANGED timer
     /\ UNCHANGED <<disk, entries, backup, known, late, lost>>

SaveCommitted(a) ==
  LET t == op[a].tx
  IN /\ At(a, "commit")
     /\ state' = [state EXCEPT ![t] = "committed"]
     /\ op' = [op EXCEPT ![a] = Op("cancel", t, {})]
     /\ UNCHANGED <<disk, entries, backup, timer, known, late, lost>>

\* cancel, which ends both commit and rollback.  Stopping the timer does not
\* stop the process that it has started.
Cancel(a) ==
  /\ At(a, "cancel")
  /\ timer' = timer \ {op[a].tx}
  /\ op' = [op EXCEPT ![a] = Idle]
  /\ UNCHANGED <<disk, state, entries, backup, known, late, lost>>

-----------------------------------------------------------------------------
(* rollback: called by its tool, by verify when the command fails, and by the *)
(* process of the timer.  The state is read once, at the beginning.           *)

RollBack(a, t) ==
  /\ At(a, "idle")
  /\ state[t] = "staged"
  /\ op' = [op EXCEPT ![a] = Op("restore", t, entries[t])]

Tool(a, t) ==
  /\ t \in known
  /\ RollBack(a, t)
  /\ UNCHANGED <<disk, state, entries, backup, timer, known, late, lost>>

\* The timer elapses.  A process that finds the transaction committed or
\* rolled back raises or says so, and ends.
Elapse(t) ==
  /\ t \in timer
  /\ timer' = timer \ {t}
  /\ IF state[t] = "staged" THEN RollBack(t, t) ELSE UNCHANGED op
  /\ UNCHANGED <<disk, state, entries, backup, known, late, lost>>

\* Fault: only what existed is put back; a file that was new stays.
RestoreExisting(a, p) ==
  LET t == op[a].tx
  IN /\ At(a, "restore") /\ p \in op[a].left
     /\ disk' = [disk EXCEPT ![p] = IF backup[t][p] = Absent THEN @ ELSE backup[t][p]]
     /\ op' = [op EXCEPT ![a].left = @ \ {p}]
     /\ UNCHANGED <<state, entries, backup, timer, known, late, lost>>

Restore(a, p) ==
  LET t == op[a].tx
  IN /\ At(a, "restore") /\ p \in op[a].left
     /\ disk' = [disk EXCEPT ![p] = backup[t][p]]
     /\ op' = [op EXCEPT ![a].left = @ \ {p}]
     /\ UNCHANGED <<state, entries, backup, timer, known, late, lost>>

\* Copying or removing a file fails: the transaction stays staged.
RestoreFails(a) ==
  /\ At(a, "restore") /\ op[a].left # {}
  /\ lost' = lost \cup {op[a].tx}
  /\ op' = [op EXCEPT ![a] = Idle]
  /\ UNCHANGED <<disk, state, entries, backup, timer, known, late>>

SaveRolledBack(a) ==
  LET t == op[a].tx
  IN /\ At(a, "restore") /\ op[a].left = {}
     /\ state' = [state EXCEPT ![t] = "rolled_back"]
     /\ op' = [op EXCEPT ![a] = Op("cancel", t, {})]
     /\ UNCHANGED <<disk, entries, backup, timer, known, late, lost>>

-----------------------------------------------------------------------------
\* A process dies; only a timer's own process takes the rollback with it.
Die(a) ==
  /\ ~ At(a, "idle")
  /\ lost' = IF a \in Txs THEN lost \cup {a} ELSE lost
  /\ op' = [op EXCEPT ![a] = Idle]
  /\ UNCHANGED <<disk, state, entries, backup, timer, known, late>>

\* The host restarts: units made by systemd-run do not come back.
Reboot ==
  /\ timer # {}
  /\ lost' = lost \cup timer \cup {op[a].tx : a \in {b \in Processes : ~ At(b, "idle")}}
  /\ timer' = {}
  /\ op' = [a \in Processes |-> Idle]
  /\ UNCHANGED <<disk, state, entries, backup, known, late>>

Init ==
  /\ disk \in [Paths -> Paths \cup {Absent}]
  /\ \A p \in Paths : disk[p] \in {p, Absent}
  /\ state = [t \in Txs |-> "none"]
  /\ entries = [t \in Txs |-> {}]
  /\ backup = [t \in {} |-> [p \in {} |-> Absent]]
  /\ timer = {}
  /\ known = {}
  /\ op = [a \in Processes |-> Idle]
  /\ late = {}
  /\ lost = {}

Call(a) ==
  \E t \in Txs :
    \/ \E ps \in SUBSET Paths : Stage(a, t, ps)
    \/ \E p \in Paths : Write(a, t, p)
    \/ Commit(a, t)
    \/ Tool(a, t)

Step(a) ==
  \/ \E p \in Paths : Backup(a, p) \/ Restore(a, p)
  \/ SaveStaged(a) \/ Schedule(a) \/ ScheduleFails(a)
  \/ Replace(a)
  \/ SaveCommitted(a) \/ SaveRolledBack(a) \/ Cancel(a)
  \/ RestoreFails(a)
  \/ Die(a)

Next ==
  \/ \E a \in Servers : Call(a)
  \/ \E a \in Processes : Step(a)
  \/ \E t \in Txs : Elapse(t)
  \/ Reboot

Spec == Init /\ [][Next]_vars

-----------------------------------------------------------------------------
(* Properties *)

\* What a process may be in the middle of.
Ops == {Idle} \cup [do : {"backup", "schedule", "write", "commit", "cancel", "restore"},
                    tx : Txs, left : SUBSET Paths]

\* Types.
TypeOK ==
  /\ disk \in [Paths -> Paths \cup Txs \cup {Absent}]
  /\ state \in [Txs -> {"none", "staged", "committed", "rolled_back"}]
  /\ entries \in [Txs -> SUBSET Paths]
  /\ timer \subseteq known /\ known \subseteq DOMAIN backup /\ DOMAIN backup \subseteq Txs
  /\ \A t \in DOMAIN backup, p \in Paths :
       p \in DOMAIN backup[t] => backup[t][p] \in Paths \cup Txs \cup {Absent}
  /\ op \in [Processes -> Ops]
  /\ late \subseteq Txs \X Paths
  /\ lost \subseteq Txs

Touched(t) == \E p \in Paths : disk[p] = t

\* A change that has reached the disk and is not committed will be undone:
\* whichever server dies at whichever step, a transaction that was told to its
\* caller and still counts as staged has its timer armed or is just being
\* restored, unless a reboot, a failed restore or the death of the timer's own
\* process took that away.
WrittenIsGuarded ==
  \A t \in known :
    state[t] = "staged" /\ Touched(t)
      => t \in timer \/ RollingBack(t) \/ t \in lost

\* When a manifest says rolled_back, every file holds what it held before,
\* though two processes may have restored it at once and one of them died;
\* excepted are files that another transaction has too, and writes that had
\* read the manifest before the rollback and came after it.
RolledBackIsRestored ==
  \A t \in Txs : state[t] = "rolled_back" =>
    \A p \in entries[t] :
      \/ disk[p] = backup[t][p]
      \/ <<t, p>> \in late
      \/ \E u \in Txs \ {t} : p \in entries[u]

\* What the plan promises: commit cancels the timer, so that what is committed
\* stays as it is.
CommitStands ==
  [][\A t \in Txs : state[t] = "committed" => state'[t] = "committed"]_vars
=============================================================================
