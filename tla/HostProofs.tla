----------------------------- MODULE HostProofs ------------------------------
(* Proofs about OperatorRecovery, for all sets of paths, transactions and     *)
(* servers, and about TunnelConnector, for all sets of servers and urls and   *)
(* any number of tunnels.                                                     *)
(*                                                                            *)
(* Recovery: what is told to a caller must be guarded whatever was written,   *)
(* and what a restoring process has done so far must stay done, although      *)
(* others write, restore and stage beside it: those are the two parts of the  *)
(* invariant that the properties do not say.                                  *)
(*                                                                            *)
(* Connector: a call that is alone has, at each stage, made the profile its   *)
(* own, and from the restart on the daemon serves that profile or none.       *)
EXTENDS OperatorRecovery, TunnelConnector, TLAPS, SequenceTheorems

-----------------------------------------------------------------------------
(* OperatorRecovery *)


\* Nothing refers to a transaction that is not staged yet.
Fresh(t) ==
  /\ state[t] = "none" /\ entries[t] = {}
  /\ \A a \in Processes : op[a] # Idle => op[a].tx # t

\* A transaction that is being staged is one process's alone, which copies each
\* of its paths.
Staged(a) ==
  LET t == op[a].tx
  IN At(a, "backup") =>
       /\ state[t] = "none" /\ t \in DOMAIN backup
       /\ entries[t] \subseteq DOMAIN backup[t] \cup op[a].left
       /\ \A b \in Processes \ {a} : op[b] # Idle => op[b].tx # t

\* Path p is as it was before t, or it is excepted.
Restored(t, p) ==
  \/ disk[p] = backup[t][p]
  \/ <<t, p>> \in late
  \/ \E u \in Txs \ {t} : p \in entries[u]

\* What a process in the middle of an operation relies on.
Midway(a) ==
  LET t == op[a].tx
  IN /\ op[a] # Idle => t \in DOMAIN backup
     /\ op[a] # Idle /\ ~ At(a, "backup") => state[t] # "none"
     /\ At(a, "cancel") => state[t] \in {"committed", "rolled_back"}
     /\ At(a, "write") \/ At(a, "restore") => op[a].left \subseteq entries[t]
     /\ At(a, "restore") => \A p \in entries[t] \ op[a].left : Restored(t, p)

Guarded(t) ==
  t \in known /\ state[t] = "staged"
    => t \in timer \/ t \in lost \/ (At(t, "restore") /\ op[t].tx = t)

\* What was staged has a copy of each of its paths.
Backed(t) == state[t] # "none" => entries[t] \subseteq DOMAIN backup[t]

EachTransaction ==
  \A t \in Txs :
    /\ t \notin DOMAIN backup => Fresh(t)
    /\ t \in known => state[t] # "none"
    /\ Backed(t)

EachProcess == \A a \in Processes : Staged(a) /\ Midway(a)

EachRolledBack == \A t \in Txs : state[t] = "rolled_back" => \A p \in entries[t] : Restored(t, p)

EachGuarded == \A t \in Txs : Guarded(t)

RecoveryInv == TypeOK /\ EachTransaction /\ EachProcess /\ EachRolledBack /\ EachGuarded

-----------------------------------------------------------------------------
\* The invariant holds at the beginning: nothing is staged.
LEMMA RecoveryStart == Init => RecoveryInv
BY DEF Init, RecoveryInv, TypeOK, Fresh, Staged, Midway, Guarded, Ops, Idle, At, EachTransaction,
   EachProcess, EachRolledBack, EachGuarded, Backed

\* It implies the properties.
LEMMA RecoveryInvImplies == RecoveryInv => WrittenIsGuarded /\ RolledBackIsRestored
<1> SUFFICES ASSUME RecoveryInv PROVE WrittenIsGuarded /\ RolledBackIsRestored
  OBVIOUS
<1>1. WrittenIsGuarded
  <2> SUFFICES ASSUME NEW t \in known, state[t] = "staged"
               PROVE  t \in timer \/ RollingBack(t) \/ t \in lost
    BY DEF WrittenIsGuarded
  <2>1. t \in Txs
    BY DEF RecoveryInv, TypeOK
  <2>2. Guarded(t)
    BY <2>1 DEF RecoveryInv, EachGuarded
  <2>3. QED
    BY <2>1, <2>2 DEF Guarded, RollingBack, At, Processes
<1>2. RolledBackIsRestored
  BY DEF RecoveryInv, EachRolledBack, RolledBackIsRestored, Restored
<1>3. QED
  BY <1>1, <1>2

-----------------------------------------------------------------------------
(* One lemma per step *)

\* A transaction is new, so nothing refers to it.
LEMMA StageStep ==
  ASSUME RecoveryInv, NEW a \in Servers, NEW t \in Txs, NEW ps \in SUBSET Paths, Stage(a, t, ps)
  PROVE  RecoveryInv'
<1>1. TypeOK'
  BY RecoveryAssumption DEF RecoveryInv, Stage, TypeOK, Ops, Processes, Op
<1>2. EachTransaction'
  BY RecoveryAssumption DEF RecoveryInv, Stage, EachTransaction, Fresh, Backed, Op
<1>3. EachProcess'
  <2> SUFFICES ASSUME NEW b \in Processes PROVE Staged(b)' /\ Midway(b)'
    BY DEF EachProcess
  <2>1. CASE b = a
    BY <2>1 DEF RecoveryInv, Stage, Staged, Midway, EachTransaction, Fresh, TypeOK, Op, At
  <2>2. CASE b # a
    BY <2>2 DEF RecoveryInv, Stage, EachProcess, Staged, Midway, Restored, EachTransaction, Fresh, Op,
       Idle, At
  <2>3. QED
    BY <2>1, <2>2
<1>4. EachRolledBack'
  BY RecoveryAssumption DEF RecoveryInv, Stage, EachRolledBack, Restored, EachTransaction, Fresh
<1>5. EachGuarded'
  BY RecoveryAssumption DEF RecoveryInv, Stage, EachGuarded, Guarded, At
<1>6. QED
  BY <1>1, <1>2, <1>3, <1>4, <1>5 DEF RecoveryInv

\* Nobody else works on a transaction that is being staged.
LEMMA BackupStep ==
  ASSUME RecoveryInv, NEW a \in Processes, NEW p \in Paths, Backup(a, p)
  PROVE  RecoveryInv'
<1>1. TypeOK'
  BY RecoveryAssumption DEF RecoveryInv, Backup, TypeOK, Ops, Idle
<1>2. EachTransaction'
  BY RecoveryAssumption DEF RecoveryInv, Backup, EachTransaction, Fresh, Backed, EachProcess, Staged
<1>3. EachProcess'
  BY RecoveryAssumption DEF RecoveryInv, Backup, EachProcess, Staged, Midway, Restored, Idle, At
<1>4. EachRolledBack'
  BY RecoveryAssumption DEF RecoveryInv, Backup, EachRolledBack, Restored, EachProcess, Staged
<1>5. EachGuarded'
  BY RecoveryAssumption DEF RecoveryInv, Backup, EachGuarded, Guarded, At
<1>6. QED
  BY <1>1, <1>2, <1>3, <1>4, <1>5 DEF RecoveryInv

\* All paths are copied, and nobody has been told of the transaction.
LEMMA SaveStagedStep ==
  ASSUME RecoveryInv, NEW a \in Processes, SaveStaged(a)
  PROVE  RecoveryInv'
<1>1. TypeOK'
  BY RecoveryAssumption DEF RecoveryInv, SaveStaged, TypeOK, Ops, Idle, At, Op
<1>2. EachTransaction'
  BY RecoveryAssumption DEF RecoveryInv, SaveStaged, EachTransaction, Fresh, Backed, EachProcess, Staged,
     Op
<1>3. EachProcess'
  BY RecoveryAssumption DEF RecoveryInv, SaveStaged, EachProcess, Staged, Midway, Restored, TypeOK, Idle,
     At, Op
<1>4. EachRolledBack'
  BY RecoveryAssumption DEF RecoveryInv, SaveStaged, EachRolledBack, Restored
<1>5. EachGuarded'
  BY RecoveryAssumption DEF RecoveryInv, SaveStaged, EachGuarded, Guarded, EachProcess, Staged,
     EachTransaction, At
<1>6. QED
  BY <1>1, <1>2, <1>3, <1>4, <1>5 DEF RecoveryInv

\* The caller is told when the timer is armed.
LEMMA ScheduleStep ==
  ASSUME RecoveryInv, NEW a \in Processes, Schedule(a)
  PROVE  RecoveryInv'
<1>1. TypeOK'
  BY RecoveryAssumption DEF RecoveryInv, Schedule, TypeOK, Ops, Idle, At, EachProcess, Midway
<1>2. EachTransaction'
  BY RecoveryAssumption DEF RecoveryInv, Schedule, Idle, At, EachTransaction, Fresh, Backed, EachProcess,
     Midway
<1>3. EachProcess'
  BY RecoveryAssumption DEF RecoveryInv, Schedule, EachProcess, Staged, Midway, Restored, Idle, At
<1>4. EachRolledBack'
  BY RecoveryAssumption DEF RecoveryInv, Schedule, EachRolledBack, Restored
<1>5. EachGuarded'
  BY RecoveryAssumption DEF RecoveryInv, Schedule, EachGuarded, Guarded, At
<1>6. QED
  BY <1>1, <1>2, <1>3, <1>4, <1>5 DEF RecoveryInv

\* The caller is not told.
LEMMA ScheduleFailsStep ==
  ASSUME RecoveryInv, NEW a \in Processes, ScheduleFails(a)
  PROVE  RecoveryInv'
<1>1. TypeOK'
  BY RecoveryAssumption DEF RecoveryInv, ScheduleFails, TypeOK, Ops
<1>2. EachTransaction'
  BY RecoveryAssumption DEF RecoveryInv, ScheduleFails, EachTransaction, Fresh, Backed
<1>3. EachProcess'
  BY RecoveryAssumption DEF RecoveryInv, ScheduleFails, EachProcess, Staged, Midway, Restored, Idle, At
<1>4. EachRolledBack'
  BY RecoveryAssumption DEF RecoveryInv, ScheduleFails, EachRolledBack, Restored
<1>5. EachGuarded'
  BY RecoveryAssumption DEF RecoveryInv, ScheduleFails, EachGuarded, Guarded, At
<1>6. QED
  BY <1>1, <1>2, <1>3, <1>4, <1>5 DEF RecoveryInv

\* A call begins.
LEMMA WriteStep ==
  ASSUME RecoveryInv, NEW a \in Servers, NEW t \in Txs, NEW p \in Paths, Write(a, t, p)
  PROVE  RecoveryInv'
<1>1. TypeOK'
  BY RecoveryAssumption DEF RecoveryInv, Write, TypeOK, Ops, Processes, Op
<1>2. EachTransaction'
  BY RecoveryAssumption DEF RecoveryInv, Write, EachTransaction, Fresh, Backed, Op
<1>3. EachProcess'
  BY RecoveryAssumption DEF RecoveryInv, Write, EachProcess, Staged, Midway, Restored, TypeOK, At, Op
<1>4. EachRolledBack'
  BY RecoveryAssumption DEF RecoveryInv, Write, EachRolledBack, Restored
<1>5. EachGuarded'
  BY RecoveryAssumption DEF RecoveryInv, Write, EachGuarded, Guarded, At
<1>6. QED
  BY <1>1, <1>2, <1>3, <1>4, <1>5 DEF RecoveryInv

\* A write disturbs its own transaction, for which it is late if that was restored,
\* and those that share the path.
LEMMA ReplaceStep ==
  ASSUME RecoveryInv, NEW a \in Processes, Replace(a)
  PROVE  RecoveryInv'
<1>1. TypeOK'
  BY RecoveryAssumption DEF RecoveryInv, Replace, TypeOK, Ops, Idle, At
<1>2. EachTransaction'
  BY RecoveryAssumption DEF RecoveryInv, Replace, EachTransaction, Fresh, Backed
<1>3. EachProcess'
  BY RecoveryAssumption DEF RecoveryInv, Replace, EachProcess, Staged, Midway, Restored, RollingBack,
     TypeOK, Idle, At
<1>4. EachRolledBack'
  BY RecoveryAssumption DEF RecoveryInv, Replace, EachRolledBack, Restored, EachProcess, Midway, TypeOK,
     Idle, At
<1>5. EachGuarded'
  BY RecoveryAssumption DEF RecoveryInv, Replace, EachGuarded, Guarded, At
<1>6. QED
  BY <1>1, <1>2, <1>3, <1>4, <1>5 DEF RecoveryInv

\* A call begins.
LEMMA CommitStep ==
  ASSUME RecoveryInv, NEW a \in Servers, NEW t \in Txs, Commit(a, t)
  PROVE  RecoveryInv'
<1>1. TypeOK'
  BY RecoveryAssumption DEF RecoveryInv, Commit, TypeOK, Ops, Processes, Op
<1>2. EachTransaction'
  BY RecoveryAssumption DEF RecoveryInv, Commit, EachTransaction, Fresh, Backed, Op
<1>3. EachProcess'
  BY RecoveryAssumption DEF RecoveryInv, Commit, EachProcess, Staged, Midway, Restored, EachTransaction,
     TypeOK, At, Op
<1>4. EachRolledBack'
  BY RecoveryAssumption DEF RecoveryInv, Commit, EachRolledBack, Restored
<1>5. EachGuarded'
  BY RecoveryAssumption DEF RecoveryInv, Commit, EachGuarded, Guarded, At
<1>6. QED
  BY <1>1, <1>2, <1>3, <1>4, <1>5 DEF RecoveryInv

\* What is committed needs no guard.
LEMMA SaveCommittedStep ==
  ASSUME RecoveryInv, NEW a \in Processes, SaveCommitted(a)
  PROVE  RecoveryInv'
<1>1. TypeOK'
  BY RecoveryAssumption DEF RecoveryInv, SaveCommitted, TypeOK, Ops, Idle, At, Op
<1>2. EachTransaction'
  BY RecoveryAssumption DEF RecoveryInv, SaveCommitted, Idle, At, EachTransaction, Fresh, Backed,
     EachProcess, Midway, Op
<1>3. EachProcess'
  BY RecoveryAssumption DEF RecoveryInv, SaveCommitted, EachProcess, Staged, Midway, Restored, TypeOK,
     Idle, At, Op
<1>4. EachRolledBack'
  BY RecoveryAssumption DEF RecoveryInv, SaveCommitted, EachRolledBack, Restored
<1>5. EachGuarded'
  BY RecoveryAssumption DEF RecoveryInv, SaveCommitted, EachGuarded, Guarded, At
<1>6. QED
  BY <1>1, <1>2, <1>3, <1>4, <1>5 DEF RecoveryInv

\* The timer goes only when the transaction is not staged any more.
LEMMA CancelStep ==
  ASSUME RecoveryInv, NEW a \in Processes, Cancel(a)
  PROVE  RecoveryInv'
<1>1. TypeOK'
  BY RecoveryAssumption DEF RecoveryInv, Cancel, TypeOK, Ops
<1>2. EachTransaction'
  BY RecoveryAssumption DEF RecoveryInv, Cancel, EachTransaction, Fresh, Backed
<1>3. EachProcess'
  BY RecoveryAssumption DEF RecoveryInv, Cancel, EachProcess, Staged, Midway, Restored, Idle, At
<1>4. EachRolledBack'
  BY RecoveryAssumption DEF RecoveryInv, Cancel, EachRolledBack, Restored
<1>5. EachGuarded'
  BY RecoveryAssumption DEF RecoveryInv, Cancel, EachGuarded, Guarded, EachProcess, Midway, At
<1>6. QED
  BY <1>1, <1>2, <1>3, <1>4, <1>5 DEF RecoveryInv

\* A rollback begins: no path is restored yet.
LEMMA ToolStep ==
  ASSUME RecoveryInv, NEW a \in Servers, NEW t \in Txs, Tool(a, t)
  PROVE  RecoveryInv'
<1>1. TypeOK'
  BY RecoveryAssumption DEF RecoveryInv, Tool, TypeOK, Ops, Processes, Op, RollBack
<1>2. EachTransaction'
  BY RecoveryAssumption DEF RecoveryInv, Tool, EachTransaction, Fresh, Backed, Op, RollBack
<1>3. EachProcess'
  BY RecoveryAssumption DEF RecoveryInv, Tool, EachProcess, Staged, Midway, Restored, TypeOK, At, Op,
     RollBack
<1>4. EachRolledBack'
  BY RecoveryAssumption DEF RecoveryInv, Tool, EachRolledBack, Restored
<1>5. EachGuarded'
  BY RecoveryAssumption DEF RecoveryInv, Tool, EachGuarded, Guarded, At, RollBack
<1>6. QED
  BY <1>1, <1>2, <1>3, <1>4, <1>5 DEF RecoveryInv

\* The timer's own process takes over as the guard.
LEMMA ElapseStep ==
  ASSUME RecoveryInv, NEW t \in Txs, Elapse(t)
  PROVE  RecoveryInv'
<1>1. TypeOK'
  BY RecoveryAssumption DEF RecoveryInv, Elapse, TypeOK, Ops, Op, RollBack
<1>2. EachTransaction'
  BY RecoveryAssumption DEF RecoveryInv, Elapse, TypeOK, EachTransaction, Fresh, Backed, Op, RollBack
<1>3. EachProcess'
  BY RecoveryAssumption DEF RecoveryInv, Elapse, EachProcess, Staged, Midway, Restored, TypeOK, At, Op,
     RollBack
<1>4. EachRolledBack'
  BY RecoveryAssumption DEF RecoveryInv, Elapse, EachRolledBack, Restored
<1>5. EachGuarded'
  BY RecoveryAssumption DEF RecoveryInv, Elapse, EachGuarded, Guarded, TypeOK, At, Processes, Op, RollBack
<1>6. QED
  BY <1>1, <1>2, <1>3, <1>4, <1>5 DEF RecoveryInv

\* A restored path disturbs only those that share it.
LEMMA RestoreStep ==
  ASSUME RecoveryInv, NEW a \in Processes, NEW p \in Paths, Restore(a, p)
  PROVE  RecoveryInv'
<1>1. TypeOK'
  BY RecoveryAssumption DEF RecoveryInv, Restore, TypeOK, Ops, Idle, At, EachProcess, Midway,
     EachTransaction, Backed
<1>2. EachTransaction'
  BY RecoveryAssumption DEF RecoveryInv, Restore, EachTransaction, Fresh, Backed, EachProcess, Midway
<1>3. EachProcess'
  BY RecoveryAssumption DEF RecoveryInv, Restore, EachProcess, Staged, Midway, Restored, TypeOK, Idle, At
<1>4. EachRolledBack'
  BY RecoveryAssumption DEF RecoveryInv, Restore, EachRolledBack, Restored, EachProcess, Midway, TypeOK,
     Idle, At
<1>5. EachGuarded'
  BY RecoveryAssumption DEF RecoveryInv, Restore, EachGuarded, Guarded, At
<1>6. QED
  BY <1>1, <1>2, <1>3, <1>4, <1>5 DEF RecoveryInv

\* A rollback that fails is counted as lost.
LEMMA RestoreFailsStep ==
  ASSUME RecoveryInv, NEW a \in Processes, RestoreFails(a)
  PROVE  RecoveryInv'
<1>1. TypeOK'
  BY RecoveryAssumption DEF RecoveryInv, RestoreFails, TypeOK, Ops, Idle, At
<1>2. EachTransaction'
  BY RecoveryAssumption DEF RecoveryInv, RestoreFails, EachTransaction, Fresh, Backed
<1>3. EachProcess'
  BY RecoveryAssumption DEF RecoveryInv, RestoreFails, EachProcess, Staged, Midway, Restored, Idle, At
<1>4. EachRolledBack'
  BY RecoveryAssumption DEF RecoveryInv, RestoreFails, EachRolledBack, Restored
<1>5. EachGuarded'
  BY RecoveryAssumption DEF RecoveryInv, RestoreFails, EachGuarded, Guarded, At
<1>6. QED
  BY <1>1, <1>2, <1>3, <1>4, <1>5 DEF RecoveryInv

\* All paths are restored.
LEMMA SaveRolledBackStep ==
  ASSUME RecoveryInv, NEW a \in Processes, SaveRolledBack(a)
  PROVE  RecoveryInv'
<1>1. TypeOK'
  BY RecoveryAssumption DEF RecoveryInv, SaveRolledBack, TypeOK, Ops, Idle, At, Op
<1>2. EachTransaction'
  BY RecoveryAssumption DEF RecoveryInv, SaveRolledBack, Idle, At, EachTransaction, Fresh, Backed,
     EachProcess, Midway, Op
<1>3. EachProcess'
  BY RecoveryAssumption DEF RecoveryInv, SaveRolledBack, EachProcess, Staged, Midway, Restored, TypeOK,
     Idle, At, Op
<1>4. EachRolledBack'
  BY RecoveryAssumption DEF RecoveryInv, SaveRolledBack, EachRolledBack, Restored, EachProcess, Midway
<1>5. EachGuarded'
  BY RecoveryAssumption DEF RecoveryInv, SaveRolledBack, EachGuarded, Guarded, TypeOK, At
<1>6. QED
  BY <1>1, <1>2, <1>3, <1>4, <1>5 DEF RecoveryInv

\* A guard dies only with the timer's own process, which is counted as lost.
LEMMA DieStep ==
  ASSUME RecoveryInv, NEW a \in Processes, Die(a)
  PROVE  RecoveryInv'
<1>1. TypeOK'
  BY RecoveryAssumption DEF RecoveryInv, Die, TypeOK, Ops
<1>2. EachTransaction'
  BY RecoveryAssumption DEF RecoveryInv, Die, EachTransaction, Fresh, Backed
<1>3. EachProcess'
  BY RecoveryAssumption DEF RecoveryInv, Die, EachProcess, Staged, Midway, Restored, Idle, At
<1>4. EachRolledBack'
  BY RecoveryAssumption DEF RecoveryInv, Die, EachRolledBack, Restored
<1>5. EachGuarded'
  BY RecoveryAssumption DEF RecoveryInv, Die, EachGuarded, Guarded, At
<1>6. QED
  BY <1>1, <1>2, <1>3, <1>4, <1>5 DEF RecoveryInv

\* Timers and processes are counted as lost.
LEMMA RebootStep ==
  ASSUME RecoveryInv, Reboot
  PROVE  RecoveryInv'
<1>1. TypeOK'
  BY RecoveryAssumption DEF RecoveryInv, Reboot, TypeOK, Ops, Idle, At
<1>2. EachTransaction'
  BY RecoveryAssumption DEF RecoveryInv, Reboot, EachTransaction, Fresh, Backed
<1>3. EachProcess'
  BY RecoveryAssumption DEF Reboot, EachProcess, Staged, Midway, Idle, At
<1>4. EachRolledBack'
  BY RecoveryAssumption DEF RecoveryInv, Reboot, EachRolledBack, Restored
<1>5. EachGuarded'
  BY RecoveryAssumption DEF RecoveryInv, Reboot, EachGuarded, Guarded, At, Processes
<1>6. QED
  BY <1>1, <1>2, <1>3, <1>4, <1>5 DEF RecoveryInv

-----------------------------------------------------------------------------
\* No step breaks the invariant.
LEMMA RecoverySteps == RecoveryInv /\ [Next]_vars => RecoveryInv'
<1> SUFFICES ASSUME RecoveryInv, [Next]_vars PROVE RecoveryInv'
  OBVIOUS
<1>1. CASE \E a \in Servers : Call(a)
  BY <1>1, StageStep, WriteStep, CommitStep, ToolStep DEF Call
<1>2. CASE \E a \in Processes : Step(a)
  BY <1>2, BackupStep, RestoreStep, SaveStagedStep, ScheduleStep, ScheduleFailsStep, ReplaceStep,
     SaveCommittedStep, SaveRolledBackStep, CancelStep, RestoreFailsStep, DieStep DEF Step
<1>3. CASE \E t \in Txs : Elapse(t)
  BY <1>3, ElapseStep
<1>4. CASE Reboot
  BY <1>4, RebootStep
<1>5. CASE UNCHANGED vars
  BY <1>5 DEF vars, RecoveryInv, TypeOK, EachTransaction, Fresh, Backed, EachProcess, Staged, Midway,
     EachRolledBack, Restored, EachGuarded, Guarded, At
<1>6. QED
  BY <1>1, <1>2, <1>3, <1>4, <1>5 DEF Next

\* RecoveryInv is an invariant.
THEOREM RecoveryInvariance == Spec => []RecoveryInv
<1>1. Init => RecoveryInv
  BY RecoveryStart
<1>2. RecoveryInv /\ [Next]_vars => RecoveryInv'
  BY RecoverySteps
<1>3. QED
  BY <1>1, <1>2, PTL DEF Spec

\* Types.
THEOREM RecoveryTypeCorrect == Spec => []TypeOK
<1>1. RecoveryInv => TypeOK
  BY DEF RecoveryInv
<1>2. QED
  BY <1>1, RecoveryInvariance, PTL

\* What was written and told to its caller is guarded by its timer or its
\* rollback (RecoveryStore: stage, commit, rollback), whatever dies, for any
\* number of servers, transactions and paths.
THEOREM Guarding == Spec => []WrittenIsGuarded
<1>1. RecoveryInv => WrittenIsGuarded
  BY RecoveryInvImplies
<1>2. QED
  BY <1>1, RecoveryInvariance, PTL

\* What a manifest calls rolled_back is restored (RecoveryStore.rollback),
\* though several processes may restore it at once.
THEOREM Restoring == Spec => []RolledBackIsRestored
<1>1. RecoveryInv => RolledBackIsRestored
  BY RecoveryInvImplies
<1>2. QED
  BY <1>1, RecoveryInvariance, PTL

-----------------------------------------------------------------------------
(* TunnelConnector.  The calls, by what they have still to do. *)


\* What a call of connector_provision has before it: its profile is written,
\* then a unit that is there is restarted, and one that is not is started.
First == {<<"create", "init", "chown", "installed">>}
Named == {<<"init", "chown", "installed">>}
Filed == {<<"chown", "installed">>, <<"installed">>}
Afresh == {<<"unit", "reload", "enable", "restart", "health">>, <<"reload", "enable", "restart", "health">>,
           <<"enable", "restart", "health">>, <<"restart", "health">>}
Fitting == {<<"unit", "reload", "enable", "health">>, <<"reload", "enable", "health">>,
            <<"enable", "health">>, <<"health">>, <<"ready">>}

\* And what the other calls have: two write a profile.
Writes == {<<"connect">>, <<"init", "chown">>}
Other == {<<>>, <<"create">>, <<"stopped", "rm">>, <<"rm">>, <<"chown">>,
          <<"unit", "reload", "enable">>, <<"reload", "enable">>, <<"enable">>,
          <<"start">>, <<"restart">>, <<"stop">>,
          <<"disable", "unlink", "reload">>, <<"unlink", "reload">>, <<"reload">>}

Todos == First \cup Named \cup Filed \cup Afresh \cup Fitting \cup Writes \cup Other

\* What is left when the first command is done.
LEMMA FirstTails ==
  ASSUME NEW s \in First
  PROVE  s # <<>> /\ Head(s) = "create" /\ Tail(s) \in Named
<1>1. CASE s = <<"create", "init", "chown", "installed">>
  <2>1. Head(<<"create", "init", "chown", "installed">>) = "create" /\ Tail(<<"create", "init", "chown", "installed">>) = <<"init", "chown", "installed">>
    OBVIOUS
  <2>2. QED
    BY <1>1, <2>1 DEF Named
<1>2. QED
  BY <1>1 DEF First

LEMMA NamedTails ==
  ASSUME NEW s \in Named
  PROVE  s # <<>> /\ Head(s) = "init" /\ Tail(s) \in Filed
<1>1. CASE s = <<"init", "chown", "installed">>
  <2>1. Head(<<"init", "chown", "installed">>) = "init" /\ Tail(<<"init", "chown", "installed">>) = <<"chown", "installed">>
    OBVIOUS
  <2>2. QED
    BY <1>1, <2>1 DEF Filed
<1>2. QED
  BY <1>1 DEF Named

LEMMA FiledTails ==
  ASSUME NEW s \in Filed
  PROVE  s # <<>> /\ ((Head(s) = "chown" /\ Tail(s) \in Filed) \/ Head(s) = "installed")
<1>1. CASE s = <<"chown", "installed">>
  <2>1. Head(<<"chown", "installed">>) = "chown" /\ Tail(<<"chown", "installed">>) = <<"installed">>
    OBVIOUS
  <2>2. QED
    BY <1>1, <2>1 DEF Filed
<1>2. CASE s = <<"installed">>
  <2>1. Head(<<"installed">>) = "installed" /\ Tail(<<"installed">>) = <<>>
    OBVIOUS
  <2>2. QED
    BY <1>2, <2>1 DEF Filed
<1>3. QED
  BY <1>1, <1>2 DEF Filed

LEMMA AfreshTails ==
  ASSUME NEW s \in Afresh
  PROVE  /\ s # <<>>
         /\ \/ Head(s) \in {"unit", "reload", "enable"} /\ Tail(s) \in Afresh
            \/ Head(s) = "restart" /\ Tail(s) \in Fitting
<1>1. CASE s = <<"unit", "reload", "enable", "restart", "health">>
  <2>1. Head(<<"unit", "reload", "enable", "restart", "health">>) = "unit" /\ Tail(<<"unit", "reload", "enable", "restart", "health">>) = <<"reload", "enable", "restart", "health">>
    OBVIOUS
  <2>2. QED
    BY <1>1, <2>1 DEF Afresh, Fitting
<1>2. CASE s = <<"reload", "enable", "restart", "health">>
  <2>1. Head(<<"reload", "enable", "restart", "health">>) = "reload" /\ Tail(<<"reload", "enable", "restart", "health">>) = <<"enable", "restart", "health">>
    OBVIOUS
  <2>2. QED
    BY <1>2, <2>1 DEF Afresh, Fitting
<1>3. CASE s = <<"enable", "restart", "health">>
  <2>1. Head(<<"enable", "restart", "health">>) = "enable" /\ Tail(<<"enable", "restart", "health">>) = <<"restart", "health">>
    OBVIOUS
  <2>2. QED
    BY <1>3, <2>1 DEF Afresh, Fitting
<1>4. CASE s = <<"restart", "health">>
  <2>1. Head(<<"restart", "health">>) = "restart" /\ Tail(<<"restart", "health">>) = <<"health">>
    OBVIOUS
  <2>2. QED
    BY <1>4, <2>1 DEF Afresh, Fitting
<1>5. QED
  BY <1>1, <1>2, <1>3, <1>4 DEF Afresh

LEMMA FittingTails ==
  ASSUME NEW s \in Fitting
  PROVE  /\ s # <<>>
         /\ \/ Head(s) \in {"unit", "reload", "enable"} /\ Tail(s) \in Fitting
            \/ Head(s) \in {"health", "ready"} /\ Tail(s) = <<>>
<1>1. CASE s = <<"unit", "reload", "enable", "health">>
  <2>1. Head(<<"unit", "reload", "enable", "health">>) = "unit" /\ Tail(<<"unit", "reload", "enable", "health">>) = <<"reload", "enable", "health">>
    OBVIOUS
  <2>2. QED
    BY <1>1, <2>1 DEF Fitting
<1>2. CASE s = <<"reload", "enable", "health">>
  <2>1. Head(<<"reload", "enable", "health">>) = "reload" /\ Tail(<<"reload", "enable", "health">>) = <<"enable", "health">>
    OBVIOUS
  <2>2. QED
    BY <1>2, <2>1 DEF Fitting
<1>3. CASE s = <<"enable", "health">>
  <2>1. Head(<<"enable", "health">>) = "enable" /\ Tail(<<"enable", "health">>) = <<"health">>
    OBVIOUS
  <2>2. QED
    BY <1>3, <2>1 DEF Fitting
<1>4. CASE s = <<"health">>
  <2>1. Head(<<"health">>) = "health" /\ Tail(<<"health">>) = <<>>
    OBVIOUS
  <2>2. QED
    BY <1>4, <2>1 DEF Fitting
<1>5. CASE s = <<"ready">>
  <2>1. Head(<<"ready">>) = "ready" /\ Tail(<<"ready">>) = <<>>
    OBVIOUS
  <2>2. QED
    BY <1>5, <2>1 DEF Fitting
<1>6. QED
  BY <1>1, <1>2, <1>3, <1>4, <1>5 DEF Fitting

\* What daemon_remove has left when it has disabled the unit.
Removal == <<"unlink", "reload">>

LEMMA OtherTails ==
  ASSUME NEW s \in Other, s # <<>>
  PROVE  /\ Tail(s) \in Other
         /\ Head(s) \notin {"installed", "health", "ready", "init", "connect"}
         /\ Head(s) = "unlink" => s = Removal
         /\ Head(s) # "disable" => Tail(s) # Removal
<1>1. CASE s = <<"create">>
  <2>1. Head(<<"create">>) = "create" /\ Tail(<<"create">>) = <<>>
    OBVIOUS
  <2>2. QED
    BY <1>1, <2>1 DEF Other, Removal
<1>2. CASE s = <<"stopped", "rm">>
  <2>1. Head(<<"stopped", "rm">>) = "stopped" /\ Tail(<<"stopped", "rm">>) = <<"rm">>
    OBVIOUS
  <2>2. QED
    BY <1>2, <2>1 DEF Other, Removal
<1>3. CASE s = <<"rm">>
  <2>1. Head(<<"rm">>) = "rm" /\ Tail(<<"rm">>) = <<>>
    OBVIOUS
  <2>2. QED
    BY <1>3, <2>1 DEF Other, Removal
<1>4. CASE s = <<"chown">>
  <2>1. Head(<<"chown">>) = "chown" /\ Tail(<<"chown">>) = <<>>
    OBVIOUS
  <2>2. QED
    BY <1>4, <2>1 DEF Other, Removal
<1>5. CASE s = <<"unit", "reload", "enable">>
  <2>1. Head(<<"unit", "reload", "enable">>) = "unit" /\ Tail(<<"unit", "reload", "enable">>) = <<"reload", "enable">>
    OBVIOUS
  <2>2. QED
    BY <1>5, <2>1 DEF Other, Removal
<1>6. CASE s = <<"reload", "enable">>
  <2>1. Head(<<"reload", "enable">>) = "reload" /\ Tail(<<"reload", "enable">>) = <<"enable">>
    OBVIOUS
  <2>2. QED
    BY <1>6, <2>1 DEF Other, Removal
<1>7. CASE s = <<"enable">>
  <2>1. Head(<<"enable">>) = "enable" /\ Tail(<<"enable">>) = <<>>
    OBVIOUS
  <2>2. QED
    BY <1>7, <2>1 DEF Other, Removal
<1>8. CASE s = <<"start">>
  <2>1. Head(<<"start">>) = "start" /\ Tail(<<"start">>) = <<>>
    OBVIOUS
  <2>2. QED
    BY <1>8, <2>1 DEF Other, Removal
<1>9. CASE s = <<"restart">>
  <2>1. Head(<<"restart">>) = "restart" /\ Tail(<<"restart">>) = <<>>
    OBVIOUS
  <2>2. QED
    BY <1>9, <2>1 DEF Other, Removal
<1>10. CASE s = <<"stop">>
  <2>1. Head(<<"stop">>) = "stop" /\ Tail(<<"stop">>) = <<>>
    OBVIOUS
  <2>2. QED
    BY <1>10, <2>1 DEF Other, Removal
<1>11. CASE s = <<"disable", "unlink", "reload">>
  <2>1. Head(<<"disable", "unlink", "reload">>) = "disable" /\ Tail(<<"disable", "unlink", "reload">>) = <<"unlink", "reload">>
    OBVIOUS
  <2>2. QED
    BY <1>11, <2>1 DEF Other, Removal
<1>12. CASE s = <<"unlink", "reload">>
  <2>1. Head(<<"unlink", "reload">>) = "unlink" /\ Tail(<<"unlink", "reload">>) = <<"reload">>
    OBVIOUS
  <2>2. QED
    BY <1>12, <2>1 DEF Other, Removal
<1>13. CASE s = <<"reload">>
  <2>1. Head(<<"reload">>) = "reload" /\ Tail(<<"reload">>) = <<>>
    OBVIOUS
  <2>2. QED
    BY <1>13, <2>1 DEF Other, Removal
<1>14. QED
  BY <1>1, <1>2, <1>3, <1>4, <1>5, <1>6, <1>7, <1>8, <1>9, <1>10, <1>11, <1>12, <1>13 DEF Other

LEMMA WritesTails ==
  ASSUME NEW s \in Writes
  PROVE  /\ s # <<>>
         /\ Head(s) \in {"connect", "init"}
         /\ Tail(s) \in Other /\ Tail(s) # Removal
<1>1. CASE s = <<"connect">>
  <2>1. Head(<<"connect">>) = "connect" /\ Tail(<<"connect">>) = <<>>
    OBVIOUS
  <2>2. QED
    BY <1>1, <2>1 DEF Other, Removal
<1>2. CASE s = <<"init", "chown">>
  <2>1. Head(<<"init", "chown">>) = "init" /\ Tail(<<"init", "chown">>) = <<"chown">>
    OBVIOUS
  <2>2. QED
    BY <1>2, <2>1 DEF Other, Removal
<1>3. QED
  BY <1>1, <1>2 DEF Writes

LEMMA NothingLeft == <<>> \in Other /\ <<>> # Removal
BY DEF Other, Removal

\* The commands that connector_provision goes on with when the profile is there.
LEMMA Installs ==
  /\ Plan["install"] \o <<"restart">> \o <<"health">> = <<"unit", "reload", "enable", "restart", "health">>
  /\ Plan["install"] \o <<>> \o <<"health">> = <<"unit", "reload", "enable", "health">>
<1> DEFINE i == <<"unit", "reload", "enable">>
           r == <<"unit", "reload", "enable", "restart">>
           rh == <<"unit", "reload", "enable", "restart", "health">>
           Steps == {"unit", "reload", "enable", "restart", "health"}
           ih == <<"unit", "reload", "enable", "health">>
<1>1. Plan["install"] = i
  BY DEF Plan
<1>2. i \in Seq(Steps) /\ <<"restart">> \in Seq(Steps) /\ <<"health">> \in Seq(Steps)
  OBVIOUS
<1>3. r \in Seq(Steps) /\ Len(r) = 4
  OBVIOUS
<1>4. rh \in Seq(Steps) /\ Len(rh) = 5
  OBVIOUS
<1>5. ih \in Seq(Steps) /\ Len(ih) = 4
  OBVIOUS
<1>6. i \o <<>> = i
  BY <1>2, ConcatEmptySeq
<1>7. i \o <<"restart">> = r
  <2>1. i \o <<"restart">> \in Seq(Steps) /\ Len(i \o <<"restart">>) = 4
        /\ \A k \in 1 .. 4 : (i \o <<"restart">>)[k] = IF k <= 3 THEN i[k] ELSE <<"restart">>[k - 3]
    BY <1>2, ConcatProperties
  <2>2. \A k \in 1 .. 4 : (i \o <<"restart">>)[k] = r[k]
    BY <2>1
  <2>3. QED
    BY <1>3, <2>1, <2>2, SeqEqual
<1>8. r \o <<"health">> = rh
  <2>1. r \o <<"health">> \in Seq(Steps) /\ Len(r \o <<"health">>) = 5
        /\ \A k \in 1 .. 5 : (r \o <<"health">>)[k] = IF k <= 4 THEN r[k] ELSE <<"health">>[k - 4]
    BY <1>2, <1>3, ConcatProperties
  <2>2. \A k \in 1 .. 5 : (r \o <<"health">>)[k] = rh[k]
    BY <2>1
  <2> HIDE DEF r, rh
  <2>3. QED
    BY <1>4, <2>1, <2>2, SeqEqual
<1>9. i \o <<"health">> = ih
  <2>1. i \o <<"health">> \in Seq(Steps) /\ Len(i \o <<"health">>) = 4
        /\ \A k \in 1 .. 4 : (i \o <<"health">>)[k] = IF k <= 3 THEN i[k] ELSE <<"health">>[k - 3]
    BY <1>2, ConcatProperties
  <2>2. \A k \in 1 .. 4 : (i \o <<"health">>)[k] = ih[k]
    BY <2>1
  <2> HIDE DEF i, ih
  <2>3. QED
    BY <1>5, <2>1, <2>2, SeqEqual
<1>10. QED
  BY <1>1, <1>6, <1>7, <1>8, <1>9

-----------------------------------------------------------------------------
(* The invariant of the connector: at every stage of a call that had no other *)
(* beside it, the profile and the daemon are what the call has made of them.  *)
Wants == (0 .. MaxTunnels) \X (Urls \cup {"none"})
Calls == [ToolServers -> [todo : Todos, want : Wants, alone : BOOLEAN]]
Profiles == (Tunnels \X Urls) \cup {Nothing}
Made == (1 .. tunnels) \X Urls

\* The host alone.
HostOK ==
  /\ tunnels \in 0 .. MaxTunnels /\ dead \subseteq 1 .. tunnels
  /\ alias \in 0 .. tunnels
  /\ profile \in Profiles /\ serves \in Profiles
  /\ unit \in BOOLEAN /\ active \in BOOLEAN /\ left \in BOOLEAN
  /\ serves # Nothing => active
  /\ DaemonHasUnit

\* Beside a call that is alone there is none.
AloneInv ==
  \A k \in ToolServers : call[k].todo # <<>> /\ call[k].alone =>
    \A b \in ToolServers \ {k} : call[b].todo = <<>>

\* The profile, and what the daemon serves, come from the call k.
OwnProfile(k) == k.alone => profile \in {Nothing, k.want}
OwnDaemon(k) == k.alone => left \/ serves \in {Nothing, k.want}
Standing(k) ==
  \/ k.todo \in First /\ k.want \in {0} \X Urls
  \/ k.todo \in Named \cup Writes /\ k.want \in Made
  \/ k.todo \in Filed \cup Afresh /\ OwnProfile(k)
  \/ k.todo \in Fitting /\ OwnProfile(k) /\ OwnDaemon(k)
  \/ k.todo \in Other /\ (k.todo = Removal /\ k.alone => (active => left))

TunInv ==
  /\ call \in Calls
  /\ HostOK
  /\ AloneInv
  /\ \A k \in ToolServers : Standing(call[k])

\* The call of a goes on to s, for the tunnel and url w; the others do nothing.
Goes(a, s, w) ==
  /\ call' \in Calls
  /\ \A b \in ToolServers \ {a} : call'[b] = call[b]
  /\ call'[a].todo = s /\ call'[a].want = w /\ call'[a].alone = call[a].alone

LEMMA GoesOn ==
  ASSUME call \in Calls, NEW a \in ToolServers, NEW s \in Todos,
         call' = [call EXCEPT ![a].todo = s]
  PROVE  Goes(a, s, call[a].want)
BY DEF Calls, Goes

LEMMA TodoTails ==
  ASSUME NEW s \in Todos, s # <<>>, Head(s) # "installed"
  PROVE  Tail(s) \in Todos
BY FirstTails, NamedTails, FiledTails, AfreshTails, FittingTails, WritesTails, OtherTails, NothingLeft DEF Todos

LEMMA GoesToTail ==
  ASSUME call \in Calls, NEW a \in ToolServers, call[a].todo # <<>>,
         Head(call[a].todo) # "installed", Continue(a)
  PROVE  Goes(a, Tail(call[a].todo), call[a].want)
<1>1. call[a].todo \in Todos
  BY DEF Calls
<1>2. Tail(call[a].todo) \in Todos
  BY <1>1, TodoTails
<1>3. call' = [call EXCEPT ![a].todo = Tail(call[a].todo)]
  BY DEF Continue, Calls
<1>4. QED
  BY <1>2, <1>3, GoesOn

\* A command of one call leaves the others at their stage: a call that is
\* alone then has nothing left to do.
LEMMA OneGoes ==
  ASSUME TunInv, NEW a \in ToolServers, call[a].todo # <<>>,
         NEW s, NEW w, Goes(a, s, w), tunnels' \in Nat, tunnels <= tunnels',
         HostOK', Standing(call[a])'
  PROVE  TunInv'
<1>1. AloneInv'
  BY DEF TunInv, AloneInv, Goes
<1>2. ASSUME NEW b \in ToolServers, b # a
      PROVE  Standing(call[b])'
  <2>1. call'[b] = call[b] /\ Standing(call[b])
    BY <1>2 DEF Goes, TunInv
  <2>2. call[b].todo = <<>> \/ ~ call[b].alone
    BY <1>2 DEF TunInv, AloneInv
  <2>3. call[b].want \in Made => call[b].want \in Made'
    <3>1. 1 .. tunnels \subseteq 1 .. tunnels'
      BY DEF TunInv, HostOK
    <3>2. QED
      BY <3>1 DEF Made
  <2>4. CASE call[b].todo = <<>>
    BY <2>1, <2>4, NothingLeft DEF Standing
  <2>5. CASE ~ call[b].alone
    BY <2>1, <2>3, <2>5 DEF Standing, OwnProfile, OwnDaemon
  <2>6. QED
    BY <2>2, <2>4, <2>5
<1>3. QED
  BY <1>1, <1>2 DEF TunInv, Goes

\* The stages again, seen from the next command h of k and from what is left, t,
\* when it is done.
After(k, t, h) ==
  \/ h = "create" /\ t \in Named /\ k.want \in {0} \X Urls
  \/ h = "init" /\ t \in Filed /\ k.want \in Made
  \/ h \in {"init", "connect"} /\ t \in Other /\ t # Removal /\ k.want \in Made
  \/ h = "chown" /\ t \in Filed /\ OwnProfile(k)
  \/ h \in {"unit", "reload", "enable"} /\ t \in Afresh /\ OwnProfile(k)
  \/ h = "restart" /\ t \in Fitting /\ OwnProfile(k)
  \/ h \in {"unit", "reload", "enable"} /\ t \in Fitting /\ OwnProfile(k) /\ OwnDaemon(k)
  \/ h \in {"health", "ready"} /\ t = <<>> /\ t \in Other /\ t # Removal
  \/ /\ h \notin {"init", "connect", "health", "ready", "installed"} /\ t \in Other
     /\ h # "disable" => t # Removal
     /\ h = "unlink" /\ k.alone => (active => left)

LEMMA NextStage ==
  ASSUME NEW k, Standing(k), k.todo # <<>>, Head(k.todo) # "installed"
  PROVE  After(k, Tail(k.todo), Head(k.todo))
<1> DEFINE s == k.todo
<1>1. CASE s \in First /\ k.want \in {0} \X Urls
  BY <1>1, FirstTails DEF After
<1>2. CASE s \in Named /\ k.want \in Made
  BY <1>2, NamedTails DEF After
<1>3. CASE s \in Writes /\ k.want \in Made
  BY <1>3, WritesTails DEF After
<1>4. CASE s \in Filed /\ OwnProfile(k)
  BY <1>4, FiledTails DEF After
<1>5. CASE s \in Afresh /\ OwnProfile(k)
  BY <1>5, AfreshTails DEF After
<1>6. CASE s \in Fitting /\ OwnProfile(k) /\ OwnDaemon(k)
  BY <1>6, FittingTails, NothingLeft DEF After
<1>7. CASE s \in Other /\ (s = Removal /\ k.alone => (active => left))
  BY <1>7, OtherTails DEF After
<1>8. QED
  BY <1>1, <1>2, <1>3, <1>4, <1>5, <1>6, <1>7 DEF Standing

-----------------------------------------------------------------------------
(* The commands *)

LEMMA RuntimeConnectStep ==
  ASSUME TunnelAssumption, TunInv, NEW a \in ToolServers, RuntimeConnect(a)
  PROVE  TunInv'
<1> DEFINE k == call[a]
<1>1. k.todo # <<>> /\ Head(k.todo) = "connect" /\ k \in [todo : Todos, want : Wants, alone : BOOLEAN]
  BY DEF RuntimeConnect, Doing, TunInv, Calls
<1>2. Goes(a, Tail(k.todo), k.want)
  BY <1>1, GoesToTail DEF RuntimeConnect, TunInv
<1>3. After(k, Tail(k.todo), Head(k.todo))
  BY <1>1, NextStage DEF TunInv
<1>4. HostOK'
  BY <1>1, <1>3 DEF RuntimeConnect, TunInv, HostOK, After, Made, Profiles, Tunnels, Nothing, DaemonHasUnit, TunnelAssumption
<1>5. Standing(call[a])'
  BY <1>1, <1>2, <1>3 DEF RuntimeConnect, Standing, After, Goes, OwnProfile, OwnDaemon, Wants, Made
<1>6. tunnels' \in Nat /\ tunnels <= tunnels'
  BY DEF RuntimeConnect, host, TunInv, HostOK
<1>7. QED
  BY <1>1, <1>2, <1>4, <1>5, <1>6, OneGoes

LEMMA RuntimeDeleteStep ==
  ASSUME TunnelAssumption, TunInv, NEW a \in ToolServers, RuntimeDelete(a)
  PROVE  TunInv'
<1> DEFINE k == call[a]
<1>1. k.todo # <<>> /\ Head(k.todo) \in {"stopped", "rm"} /\ k \in [todo : Todos, want : Wants, alone : BOOLEAN]
  BY DEF RuntimeDelete, Doing, TunInv, Calls
<1>2. Goes(a, Tail(k.todo), k.want)
  BY <1>1, GoesToTail DEF RuntimeDelete, TunInv
<1>3. After(k, Tail(k.todo), Head(k.todo))
  BY <1>1, NextStage DEF TunInv
<1>4. HostOK'
  BY <1>1, <1>3 DEF RuntimeDelete, TunInv, HostOK, After, Made, Profiles, Tunnels, Nothing, DaemonHasUnit, TunnelAssumption
<1>5. Standing(call[a])'
  BY <1>1, <1>2, <1>3 DEF RuntimeDelete, Standing, After, Goes, OwnProfile, OwnDaemon, Wants, Made
<1>6. tunnels' \in Nat /\ tunnels <= tunnels'
  BY DEF RuntimeDelete, host, TunInv, HostOK
<1>7. QED
  BY <1>1, <1>2, <1>4, <1>5, <1>6, OneGoes

LEMMA ProfileInitStep ==
  ASSUME TunnelAssumption, TunInv, NEW a \in ToolServers, ProfileInit(a)
  PROVE  TunInv'
<1> DEFINE k == call[a]
<1>1. k.todo # <<>> /\ Head(k.todo) = "init" /\ k \in [todo : Todos, want : Wants, alone : BOOLEAN]
  BY DEF ProfileInit, Doing, TunInv, Calls
<1>2. Goes(a, Tail(k.todo), k.want)
  BY <1>1, GoesToTail DEF ProfileInit, TunInv
<1>3. After(k, Tail(k.todo), Head(k.todo))
  BY <1>1, NextStage DEF TunInv
<1>4. HostOK'
  BY <1>1, <1>3 DEF ProfileInit, TunInv, HostOK, After, Made, Profiles, Tunnels, Nothing, DaemonHasUnit, TunnelAssumption
<1>5. Standing(call[a])'
  BY <1>1, <1>2, <1>3 DEF ProfileInit, Standing, After, Goes, OwnProfile, OwnDaemon, Wants, Made
<1>6. tunnels' \in Nat /\ tunnels <= tunnels'
  BY DEF ProfileInit, host, TunInv, HostOK
<1>7. QED
  BY <1>1, <1>2, <1>4, <1>5, <1>6, OneGoes

LEMMA ProfileChownStep ==
  ASSUME TunnelAssumption, TunInv, NEW a \in ToolServers, ProfileChown(a)
  PROVE  TunInv'
<1> DEFINE k == call[a]
<1>1. k.todo # <<>> /\ Head(k.todo) = "chown" /\ k \in [todo : Todos, want : Wants, alone : BOOLEAN]
  BY DEF ProfileChown, Doing, TunInv, Calls
<1>2. Goes(a, Tail(k.todo), k.want)
  BY <1>1, GoesToTail DEF ProfileChown, TunInv
<1>3. After(k, Tail(k.todo), Head(k.todo))
  BY <1>1, NextStage DEF TunInv
<1>4. HostOK'
  BY <1>1, <1>3 DEF ProfileChown, host, TunInv, HostOK, After, Made, Profiles, Tunnels, Nothing, DaemonHasUnit, TunnelAssumption
<1>5. Standing(call[a])'
  BY <1>1, <1>2, <1>3 DEF ProfileChown, host, Standing, After, Goes, OwnProfile, OwnDaemon, Wants, Made
<1>6. tunnels' \in Nat /\ tunnels <= tunnels'
  BY DEF ProfileChown, host, TunInv, HostOK
<1>7. QED
  BY <1>1, <1>2, <1>4, <1>5, <1>6, OneGoes

LEMMA WriteUnitStep ==
  ASSUME TunnelAssumption, TunInv, NEW a \in ToolServers, WriteUnit(a)
  PROVE  TunInv'
<1> DEFINE k == call[a]
<1>1. k.todo # <<>> /\ Head(k.todo) = "unit" /\ k \in [todo : Todos, want : Wants, alone : BOOLEAN]
  BY DEF WriteUnit, Doing, TunInv, Calls
<1>2. Goes(a, Tail(k.todo), k.want)
  BY <1>1, GoesToTail DEF WriteUnit, TunInv
<1>3. After(k, Tail(k.todo), Head(k.todo))
  BY <1>1, NextStage DEF TunInv
<1>4. HostOK'
  BY <1>1, <1>3 DEF WriteUnit, TunInv, HostOK, After, Made, Profiles, Tunnels, Nothing, DaemonHasUnit, TunnelAssumption
<1>5. Standing(call[a])'
  BY <1>1, <1>2, <1>3 DEF WriteUnit, Standing, After, Goes, OwnProfile, OwnDaemon, Wants, Made
<1>6. tunnels' \in Nat /\ tunnels <= tunnels'
  BY DEF WriteUnit, host, TunInv, HostOK
<1>7. QED
  BY <1>1, <1>2, <1>4, <1>5, <1>6, OneGoes

LEMMA ReloadStep ==
  ASSUME TunnelAssumption, TunInv, NEW a \in ToolServers, Reload(a)
  PROVE  TunInv'
<1> DEFINE k == call[a]
<1>1. k.todo # <<>> /\ Head(k.todo) = "reload" /\ k \in [todo : Todos, want : Wants, alone : BOOLEAN]
  BY DEF Reload, Doing, TunInv, Calls
<1>2. Goes(a, Tail(k.todo), k.want)
  BY <1>1, GoesToTail DEF Reload, TunInv
<1>3. After(k, Tail(k.todo), Head(k.todo))
  BY <1>1, NextStage DEF TunInv
<1>4. HostOK'
  BY <1>1, <1>3 DEF Reload, host, TunInv, HostOK, After, Made, Profiles, Tunnels, Nothing, DaemonHasUnit, TunnelAssumption
<1>5. Standing(call[a])'
  BY <1>1, <1>2, <1>3 DEF Reload, host, Standing, After, Goes, OwnProfile, OwnDaemon, Wants, Made
<1>6. tunnels' \in Nat /\ tunnels <= tunnels'
  BY DEF Reload, host, TunInv, HostOK
<1>7. QED
  BY <1>1, <1>2, <1>4, <1>5, <1>6, OneGoes

LEMMA EnableStep ==
  ASSUME TunnelAssumption, TunInv, NEW a \in ToolServers, Enable(a)
  PROVE  TunInv'
<1> DEFINE k == call[a]
<1>1. k.todo # <<>> /\ Head(k.todo) \in {"enable", "start"} /\ k \in [todo : Todos, want : Wants, alone : BOOLEAN]
  BY DEF Enable, Doing, TunInv, Calls
<1>2. Goes(a, Tail(k.todo), k.want)
  BY <1>1, GoesToTail DEF Enable, TunInv
<1>3. After(k, Tail(k.todo), Head(k.todo))
  BY <1>1, NextStage DEF TunInv
<1>4. HostOK'
  BY <1>1, <1>3 DEF Enable, TunInv, HostOK, After, Made, Profiles, Tunnels, Nothing, DaemonHasUnit, TunnelAssumption
<1>5. Standing(call[a])'
  BY <1>1, <1>2, <1>3 DEF Enable, Standing, After, Goes, OwnProfile, OwnDaemon, Wants, Made
<1>6. tunnels' \in Nat /\ tunnels <= tunnels'
  BY DEF Enable, host, TunInv, HostOK
<1>7. QED
  BY <1>1, <1>2, <1>4, <1>5, <1>6, OneGoes

LEMMA RestartStep ==
  ASSUME TunnelAssumption, TunInv, NEW a \in ToolServers, Restart(a)
  PROVE  TunInv'
<1> DEFINE k == call[a]
<1>1. k.todo # <<>> /\ Head(k.todo) = "restart" /\ k \in [todo : Todos, want : Wants, alone : BOOLEAN]
  BY DEF Restart, Doing, TunInv, Calls
<1>2. Goes(a, Tail(k.todo), k.want)
  BY <1>1, GoesToTail DEF Restart, TunInv
<1>3. After(k, Tail(k.todo), Head(k.todo))
  BY <1>1, NextStage DEF TunInv
<1>4. HostOK'
  BY <1>1, <1>3 DEF Restart, TunInv, HostOK, After, Made, Profiles, Tunnels, Nothing, DaemonHasUnit, TunnelAssumption
<1>5. Standing(call[a])'
  BY <1>1, <1>2, <1>3 DEF Restart, Standing, After, Goes, OwnProfile, OwnDaemon, Wants, Made
<1>6. tunnels' \in Nat /\ tunnels <= tunnels'
  BY DEF Restart, host, TunInv, HostOK
<1>7. QED
  BY <1>1, <1>2, <1>4, <1>5, <1>6, OneGoes

LEMMA StopStep ==
  ASSUME TunnelAssumption, TunInv, NEW a \in ToolServers, Stop(a)
  PROVE  TunInv'
<1> DEFINE k == call[a]
<1>1. k.todo # <<>> /\ Head(k.todo) = "stop" /\ k \in [todo : Todos, want : Wants, alone : BOOLEAN]
  BY DEF Stop, Doing, TunInv, Calls
<1>2. Goes(a, Tail(k.todo), k.want)
  BY <1>1, GoesToTail DEF Stop, Halt, TunInv
<1>3. After(k, Tail(k.todo), Head(k.todo))
  BY <1>1, NextStage DEF TunInv
<1>4. HostOK'
  BY <1>1, <1>3 DEF Stop, Halt, TunInv, HostOK, After, Made, Profiles, Tunnels, Nothing, DaemonHasUnit, TunnelAssumption
<1>5. Standing(call[a])'
  BY <1>1, <1>2, <1>3 DEF Stop, Halt, Standing, After, Goes, OwnProfile, OwnDaemon, Wants, Made
<1>6. tunnels' \in Nat /\ tunnels <= tunnels'
  BY DEF Stop, Halt, host, TunInv, HostOK
<1>7. QED
  BY <1>1, <1>2, <1>4, <1>5, <1>6, OneGoes

LEMMA DisableStep ==
  ASSUME TunnelAssumption, TunInv, NEW a \in ToolServers, Disable(a)
  PROVE  TunInv'
<1> DEFINE k == call[a]
<1>1. k.todo # <<>> /\ Head(k.todo) = "disable" /\ k \in [todo : Todos, want : Wants, alone : BOOLEAN]
  BY DEF Disable, Doing, TunInv, Calls
<1>2. Goes(a, Tail(k.todo), k.want)
  BY <1>1, GoesToTail DEF Disable, Halt, TunInv
<1>3. After(k, Tail(k.todo), Head(k.todo))
  BY <1>1, NextStage DEF TunInv
<1>4. HostOK'
  BY <1>1, <1>3 DEF Disable, Halt, TunInv, HostOK, After, Made, Profiles, Tunnels, Nothing, DaemonHasUnit, TunnelAssumption
<1>5. Standing(call[a])'
  BY <1>1, <1>2, <1>3 DEF Disable, Halt, Standing, After, Goes, OwnProfile, OwnDaemon, Wants, Made
<1>6. tunnels' \in Nat /\ tunnels <= tunnels'
  BY DEF Disable, Halt, host, TunInv, HostOK
<1>7. QED
  BY <1>1, <1>2, <1>4, <1>5, <1>6, OneGoes

LEMMA DisableFailsStep ==
  ASSUME TunnelAssumption, TunInv, NEW a \in ToolServers, DisableFails(a)
  PROVE  TunInv'
<1> DEFINE k == call[a]
<1>1. k.todo # <<>> /\ Head(k.todo) = "disable" /\ k \in [todo : Todos, want : Wants, alone : BOOLEAN]
  BY DEF DisableFails, Doing, TunInv, Calls
<1>2. Goes(a, Tail(k.todo), k.want)
  BY <1>1, GoesToTail DEF DisableFails, TunInv
<1>3. After(k, Tail(k.todo), Head(k.todo))
  BY <1>1, NextStage DEF TunInv
<1>4. HostOK'
  BY <1>1, <1>3 DEF DisableFails, TunInv, HostOK, After, Made, Profiles, Tunnels, Nothing, DaemonHasUnit, TunnelAssumption
<1>5. Standing(call[a])'
  BY <1>1, <1>2, <1>3 DEF DisableFails, Standing, After, Goes, OwnProfile, OwnDaemon, Wants, Made
<1>6. tunnels' \in Nat /\ tunnels <= tunnels'
  BY DEF DisableFails, host, TunInv, HostOK
<1>7. QED
  BY <1>1, <1>2, <1>4, <1>5, <1>6, OneGoes

LEMMA UnlinkStep ==
  ASSUME TunnelAssumption, TunInv, NEW a \in ToolServers, Unlink(a)
  PROVE  TunInv'
<1> DEFINE k == call[a]
<1>1. k.todo # <<>> /\ Head(k.todo) = "unlink" /\ k \in [todo : Todos, want : Wants, alone : BOOLEAN]
  BY DEF Unlink, Doing, TunInv, Calls
<1>2. Goes(a, Tail(k.todo), k.want)
  BY <1>1, GoesToTail DEF Unlink, TunInv
<1>3. After(k, Tail(k.todo), Head(k.todo))
  BY <1>1, NextStage DEF TunInv
<1>4. HostOK'
  BY <1>1, <1>3 DEF Unlink, TunInv, HostOK, After, Made, Profiles, Tunnels, Nothing, DaemonHasUnit, TunnelAssumption
<1>5. Standing(call[a])'
  BY <1>1, <1>2, <1>3 DEF Unlink, Standing, After, Goes, OwnProfile, OwnDaemon, Wants, Made
<1>6. tunnels' \in Nat /\ tunnels <= tunnels'
  BY DEF Unlink, host, TunInv, HostOK
<1>7. QED
  BY <1>1, <1>2, <1>4, <1>5, <1>6, OneGoes

LEMMA ReturnStep ==
  ASSUME TunnelAssumption, TunInv, NEW a \in ToolServers, Return(a)
  PROVE  TunInv'
<1> DEFINE k == call[a]
<1>1. k.todo # <<>> /\ Head(k.todo) = "ready" /\ k \in [todo : Todos, want : Wants, alone : BOOLEAN]
  BY DEF Return, Doing, TunInv, Calls
<1>2. Goes(a, Tail(k.todo), k.want)
  BY <1>1, GoesToTail DEF Return, TunInv
<1>3. After(k, Tail(k.todo), Head(k.todo))
  BY <1>1, NextStage DEF TunInv
<1>4. HostOK'
  BY <1>1, <1>3 DEF Return, host, TunInv, HostOK, After, Made, Profiles, Tunnels, Nothing, DaemonHasUnit, TunnelAssumption
<1>5. Standing(call[a])'
  BY <1>1, <1>2, <1>3 DEF Return, host, Standing, After, Goes, OwnProfile, OwnDaemon, Wants, Made
<1>6. tunnels' \in Nat /\ tunnels <= tunnels'
  BY DEF Return, host, TunInv, HostOK
<1>7. QED
  BY <1>1, <1>2, <1>4, <1>5, <1>6, OneGoes


LEMMA RuntimeCreateStep ==
  ASSUME TunnelAssumption, TunInv, NEW a \in ToolServers, RuntimeCreate(a)
  PROVE  TunInv'
<1> DEFINE k == call[a]
           w == <<alias', k.want[2]>>
<1>1. k.todo # <<>> /\ Head(k.todo) = "create" /\ k \in [todo : Todos, want : Wants, alone : BOOLEAN]
  BY DEF RuntimeCreate, Doing, TunInv, Calls
<1>2. HostOK' /\ tunnels' \in Nat /\ tunnels <= tunnels' /\ alias' \in 1 .. tunnels'
  BY DEF RuntimeCreate, TunInv, HostOK, Profiles, Tunnels, Nothing, DaemonHasUnit, TunnelAssumption
<1>3. Goes(a, Tail(k.todo), w)
  <2>1. Tail(k.todo) \in Todos
    BY <1>1, TodoTails
  <2>2. w \in Wants /\ [k.want EXCEPT ![1] = alias'] = w
    BY <1>1, <1>2 DEF Wants, HostOK
  <2>3. call' = [call EXCEPT ![a].todo = Tail(k.todo), ![a].want[1] = alias']
    BY DEF RuntimeCreate, TunInv, Calls
  <2>4. /\ call'[a] = [k EXCEPT !.todo = Tail(k.todo), !.want = w]
        /\ \A b \in ToolServers \ {a} : call'[b] = call[b]
        /\ call' = [call EXCEPT ![a] = [k EXCEPT !.todo = Tail(k.todo), !.want = w]]
    BY <1>1, <2>2, <2>3 DEF TunInv, Calls
  <2>5. QED
    BY <1>1, <2>1, <2>2, <2>4 DEF TunInv, Calls, Goes
<1>4. After(k, Tail(k.todo), "create")
  BY <1>1, NextStage DEF TunInv
<1>5. Standing(call[a])'
  <2>1. CASE Tail(k.todo) \in Named /\ k.want \in {0} \X Urls
    BY <1>2, <1>3, <2>1 DEF Standing, Goes, Made
  <2>2. CASE Tail(k.todo) \in Other /\ Tail(k.todo) # Removal
    BY <1>3, <2>2 DEF Standing, Goes
  <2>3. QED
    BY <1>4, <2>1, <2>2 DEF After
<1>6. QED
  BY <1>1, <1>2, <1>3, <1>5, OneGoes

LEMMA InstalledStep ==
  ASSUME TunnelAssumption, TunInv, NEW a \in ToolServers, Installed(a)
  PROVE  TunInv'
<1> DEFINE k == call[a]
           s == IF unit THEN <<"unit", "reload", "enable", "restart", "health">>
                ELSE <<"unit", "reload", "enable", "health">>
<1>1. k.todo # <<>> /\ Head(k.todo) = "installed"
  BY DEF Installed, Doing
<1>2. s \in Todos
  BY DEF Todos, Afresh, Fitting
<1>3. Goes(a, s, k.want)
  <2>1. call' = [call EXCEPT ![a].todo = s]
    BY Installs DEF Installed
  <2> HIDE DEF s
  <2>2. QED
    BY <1>2, <2>1, GoesOn DEF TunInv
<1>4. k.todo \in Filed /\ OwnProfile(k)
  BY <1>1, FirstTails, NamedTails, WritesTails, AfreshTails, FittingTails, OtherTails DEF TunInv, Standing
<1>5. HostOK'
  BY DEF Installed, host, TunInv, HostOK, Profiles, DaemonHasUnit
<1>6. Standing(call[a])'
  <2>1. CASE unit
    <3>1. s \in Afresh
      BY <2>1 DEF Afresh
    <3>2. QED
      BY <1>3, <1>4, <3>1 DEF Installed, host, Standing, Goes, OwnProfile
  <2>2. CASE ~ unit
    <3>1. s \in Fitting
      BY <2>2 DEF Fitting
    <3>2. OwnDaemon(k)
      BY <2>2 DEF OwnDaemon, TunInv, HostOK, DaemonHasUnit
    <3>3. QED
      BY <1>3, <1>4, <3>1, <3>2 DEF Installed, host, Standing, Goes, OwnProfile, OwnDaemon
  <2>3. QED
    BY <2>1, <2>2
<1>7. tunnels' \in Nat /\ tunnels <= tunnels'
  BY DEF Installed, host, TunInv, HostOK
<1> HIDE DEF s
<1>8. QED
  BY <1>1, <1>3, <1>5, <1>6, <1>7, OneGoes

LEMMA HealthStep ==
  ASSUME TunnelAssumption, TunInv, NEW a \in ToolServers, Health(a)
  PROVE  TunInv'
<1> DEFINE k == call[a]
<1>1. k.todo # <<>> /\ Head(k.todo) = "health"
  BY DEF Health, Doing
<1>2. k.todo \in Fitting /\ OwnProfile(k) /\ OwnDaemon(k) /\ Tail(k.todo) = <<>>
  BY <1>1, FirstTails, NamedTails, WritesTails, AfreshTails, FiledTails, FittingTails, OtherTails DEF TunInv, Standing
<1>3. PICK s \in Todos : Goes(a, s, k.want) /\ (s = <<>> \/ s = <<"ready">>)
  <2>1. CASE Continue(a)
    BY <1>1, <1>2, <2>1, GoesToTail, NothingLeft DEF TunInv, Todos
  <2>2. CASE call' = [call EXCEPT ![a].todo = <<"ready">>]
    BY <2>2, GoesOn DEF TunInv, Todos, Fitting
  <2>3. QED
    BY <2>1, <2>2 DEF Health
<1>4. HostOK'
  BY DEF Health, host, TunInv, HostOK, Profiles, DaemonHasUnit
<1>5. s \in Fitting \/ (s \in Other /\ s # Removal)
  BY <1>3, NothingLeft DEF Fitting
<1>6. Standing(call[a])'
  BY <1>2, <1>3, <1>5 DEF Health, host, Standing, Goes, OwnProfile, OwnDaemon
<1>7. tunnels' \in Nat /\ tunnels <= tunnels'
  BY DEF Health, host, TunInv, HostOK
<1>8. QED
  BY <1>1, <1>3, <1>4, <1>6, <1>7, OneGoes

LEMMA GiveUpStep ==
  ASSUME TunnelAssumption, TunInv, NEW a \in ToolServers, GiveUp(a)
  PROVE  TunInv'
<1>1. call[a].todo # <<>>
  BY DEF GiveUp
<1>2. Goes(a, <<>>, call[a].want)
  BY GoesOn, NothingLeft DEF GiveUp, TunInv, Todos
<1>3. HostOK'
  BY DEF GiveUp, host, TunInv, HostOK, Profiles, DaemonHasUnit
<1>4. Standing(call[a])'
  BY <1>2, NothingLeft DEF Standing, Goes
<1>5. tunnels' \in Nat /\ tunnels <= tunnels'
  BY DEF GiveUp, host, TunInv, HostOK
<1>6. QED
  BY <1>1, <1>2, <1>3, <1>4, <1>5, OneGoes

\* What a call may begin with.
Given(job, w) ==
  \/ job = "provision" /\ w \in {0} \X Urls
  \/ job \in {"connect", "profile"} /\ w \in Made
  \/ job \in {"create", "delete", "install", "start", "restart", "stop", "remove"} /\ w = Nothing

LEMMA BeginStep ==
  ASSUME TunnelAssumption, TunInv, NEW a \in ToolServers, NEW job, NEW w, Given(job, w), Begin(a, job, w)
  PROVE  TunInv'
<1>1. \/ Plan[job] \in First /\ w \in {0} \X Urls
      \/ Plan[job] \in Writes /\ w \in Made
      \/ Plan[job] \in Other /\ Plan[job] # Removal
  <2>1. CASE job = "provision"
    BY <2>1 DEF Given, Plan, First
  <2>2. CASE job \in {"connect", "profile"}
    BY <2>2 DEF Given, Plan, Writes
  <2>3. ASSUME job \in {"create", "delete", "install", "start", "restart", "stop", "remove"}
        PROVE  Plan[job] \in Other
    BY <2>3 DEF Plan, Other
  <2>4. ASSUME job \in {"create", "delete", "install", "start", "restart", "stop", "remove"}
        PROVE  Plan[job] # Removal
    BY <2>4 DEF Plan, Removal
  <2>5. QED
    BY <2>1, <2>2, <2>3, <2>4 DEF Given
<1>2. Plan[job] \in Todos /\ w \in Wants
  <2>1. Plan[job] \in Todos
    BY <1>1 DEF Todos
  <2>2. w \in Wants
    BY DEF Given, Wants, Made, Nothing, TunInv, HostOK, TunnelAssumption
  <2>3. QED
    BY <2>1, <2>2
<1>3. /\ call'[a].todo = Plan[job] /\ call'[a].want = w
      /\ call'[a].alone <=> (\A c \in ToolServers \ {a} : call[c].todo = <<>>)
      /\ call'[a].alone \in BOOLEAN
  BY DEF Begin
<1>4. \A b \in ToolServers \ {a} :
        call'[b].todo = call[b].todo /\ call'[b].want = call[b].want /\ call'[b].alone = FALSE
  BY DEF Begin, TunInv, Calls
<1>5. call' \in Calls
  <2>1. [todo |-> Plan[job], want |-> w, alone |-> \A c \in ToolServers \ {a} : call[c].todo = <<>>]
          \in [todo : Todos, want : Wants, alone : BOOLEAN]
    BY <1>2
  <2>2. \A b \in ToolServers : [call[b] EXCEPT !.alone = FALSE] \in [todo : Todos, want : Wants, alone : BOOLEAN]
    BY DEF TunInv, Calls
  <2>3. QED
    BY <2>1, <2>2 DEF Begin, Calls
<1>6. HostOK'
  BY DEF Begin, host, TunInv, HostOK, Profiles, DaemonHasUnit
<1>7. AloneInv'
  BY <1>3, <1>4 DEF AloneInv
<1>8. Standing(call[a])'
  BY <1>1, <1>3 DEF Standing, Made, Begin, host
<1>9. ASSUME NEW b \in ToolServers \ {a}
      PROVE  Standing(call[b])'
  BY <1>4 DEF Standing, OwnProfile, OwnDaemon, TunInv, Begin, host, Made
<1>10. QED
  BY <1>5, <1>6, <1>7, <1>8, <1>9 DEF TunInv

\* Steps between the commands.
LEMMA NobodyCalls ==
  ASSUME TunnelAssumption, TunInv, call' = call, left' = left, active' = active,
         \/ /\ \/ \E a \in ToolServers : TunnelCreate(a) \/ \E t \in Tunnels : TunnelDelete(a, t)
               \/ \E a \in ToolServers : ProfileDelete(a)
         \/ DaemonUp \/ DaemonDown
  PROVE  TunInv'
<1>1. HostOK'
  <2> USE DEF TunInv, HostOK, Profiles, DaemonHasUnit
  <2>1. CASE \E a \in ToolServers : TunnelCreate(a)
    BY <2>1 DEF TunnelCreate, TunnelAssumption
  <2>2. ASSUME NEW a \in ToolServers, NEW t \in Tunnels, TunnelDelete(a, t)
        PROVE  HostOK'
    BY <2>2 DEF TunnelDelete, Tunnels
  <2>3. CASE \E a \in ToolServers : ProfileDelete(a)
    BY <2>3 DEF ProfileDelete
  <2>4. CASE DaemonUp \/ DaemonDown
    BY <2>4 DEF DaemonUp, DaemonDown
  <2>5. QED
    BY <2>1, <2>2, <2>3, <2>4
<1>2. AloneInv'
  BY DEF TunInv, AloneInv
<1>3. tunnels <= tunnels' /\ (profile' = profile \/ profile' = Nothing)
      /\ (serves' \in {serves, Nothing} \/ serves' = profile)
  BY <1>1 DEF TunnelCreate, TunnelDelete, ProfileDelete, DaemonUp, DaemonDown, TunInv, HostOK
<1>4. ASSUME NEW b \in ToolServers
      PROVE  Standing(call[b])'
  <2>1. call[b].want \in Made => call[b].want \in Made'
    <3>1. 1 .. tunnels \subseteq 1 .. tunnels'
      BY <1>1, <1>3 DEF TunInv, HostOK
    <3>2. QED
      BY <3>1 DEF Made
  <2>2. OwnProfile(call[b]) => OwnProfile(call[b])'
    BY <1>3 DEF OwnProfile
  <2>3. OwnProfile(call[b]) /\ OwnDaemon(call[b]) => OwnDaemon(call[b])'
    BY <1>3 DEF OwnProfile, OwnDaemon
  <2>4. QED
    BY <2>1, <2>2, <2>3 DEF TunInv, Standing
<1>5. QED
  BY <1>1, <1>2, <1>4 DEF TunInv

-----------------------------------------------------------------------------
(* The theorems about the connector *)

LEMMA TunInit ==
  ASSUME TunnelAssumption, TunnelInit
  PROVE  TunInv
<1>1. call \in Calls
  BY NothingLeft DEF TunnelInit, Calls, Todos, Wants, Nothing, TunnelAssumption
<1>2. HostOK
  <2>1. tunnels \in 0 .. MaxTunnels /\ dead \subseteq 1 .. tunnels /\ alias \in 0 .. tunnels
    BY DEF TunnelInit, TunnelAssumption
  <2>2. QED
    BY <2>1 DEF TunnelInit, HostOK, Profiles, DaemonHasUnit
<1>3. \A k \in ToolServers : call[k].todo = <<>>
  BY DEF TunnelInit
<1>4. QED
  BY <1>1, <1>2, <1>3, NothingLeft DEF TunInv, AloneInv, Standing

LEMMA TunStep ==
  ASSUME TunnelAssumption, TunInv, [TunnelNext]_tunnelVars
  PROVE  TunInv'
<1>1. ASSUME NEW a \in ToolServers, Command(a)
      PROVE  TunInv'
  BY <1>1, RuntimeCreateStep, RuntimeConnectStep, RuntimeDeleteStep, ProfileInitStep, ProfileChownStep,
     InstalledStep, WriteUnitStep, ReloadStep, EnableStep, RestartStep, StopStep, DisableStep,
     DisableFailsStep, UnlinkStep, HealthStep, ReturnStep, GiveUpStep DEF Command
<1>2. ASSUME NEW a \in ToolServers, TunnelTool(a)
      PROVE  TunInv'
  <2>1. CASE \/ TunnelCreate(a) \/ ProfileDelete(a)
             \/ \E t \in Tunnels : TunnelDelete(a, t)
    <3>1. call' = call /\ left' = left /\ active' = active
      BY <2>1 DEF TunnelCreate, TunnelDelete, ProfileDelete
    <3>2. QED
      BY <2>1, <3>1, NobodyCalls
  <2>2. CASE \/ Begin(a, "create", Nothing) \/ Begin(a, "delete", Nothing) \/ DaemonTool(a)
    <3>1. PICK job \in {"create", "delete", "install", "start", "restart", "stop", "remove"} : Begin(a, job, Nothing)
      BY <2>2 DEF DaemonTool
    <3>2. Given(job, Nothing)
      BY DEF Given
    <3>3. QED
      BY <3>1, <3>2, BeginStep
  <2>3. CASE \E t \in 1 .. tunnels, u \in Urls : Begin(a, "connect", <<t, u>>) \/ Begin(a, "profile", <<t, u>>)
    <3>1. PICK t \in 1 .. tunnels, u \in Urls : Begin(a, "connect", <<t, u>>) \/ Begin(a, "profile", <<t, u>>)
      BY <2>3
    <3>2. Given("connect", <<t, u>>) /\ Given("profile", <<t, u>>)
      BY DEF Given, Made
    <3>3. QED
      BY <3>1, <3>2, BeginStep
  <2>4. CASE Provision(a)
    <3>1. PICK u \in Urls : Begin(a, "provision", <<0, u>>)
      BY <2>4 DEF Provision
    <3>2. Given("provision", <<0, u>>)
      BY DEF Given
    <3>3. QED
      BY <3>1, <3>2, BeginStep
  <2>5. QED
    BY <1>2, <2>1, <2>2, <2>3, <2>4 DEF TunnelTool, RuntimeTool, ProfileTool
<1>3. CASE DaemonUp \/ DaemonDown
  <2>1. call' = call /\ left' = left /\ active' = active
    BY <1>3 DEF DaemonUp, DaemonDown
  <2>2. QED
    BY <1>3, <2>1, NobodyCalls
<1>4. CASE UNCHANGED tunnelVars
  BY <1>4 DEF tunnelVars, TunInv, HostOK, AloneInv, Standing, OwnProfile, OwnDaemon, Made, Profiles, DaemonHasUnit
<1>5. QED
  BY <1>1, <1>2, <1>3, <1>4 DEF TunnelNext

\* The invariant holds whatever the calls of the servers, how they interleave,
\* and which of their commands fail.
THEOREM TunnelInvariant == TunnelSpec => []TunInv
BY TunnelAssumption, TunInit, TunStep, PTL DEF TunnelSpec

\* The types, and that the daemon serves only while systemd wants it to run.
THEOREM TunnelTypeCorrect == TunnelSpec => []TunnelTypeOK
<1>1. ASSUME TunInv
      PROVE  TunnelTypeOK
  <2>1. \A a \in ToolServers : call[a].alone \in BOOLEAN /\ call[a].want[1] \in 0 .. MaxTunnels
    BY <1>1 DEF TunInv, Calls, Wants
  <2>2. QED
    BY <1>1, <2>1 DEF TunInv, HostOK, TunnelTypeOK, Profiles
<1>2. QED
  BY <1>1, TunnelInvariant, PTL

\* No daemon runs on without its unit file, except one left over from a removal
\* whose disable failed or that ran beside another call (daemon_remove).
THEOREM DaemonHasUnitThm == TunnelSpec => []DaemonHasUnit
<1>1. TunInv => DaemonHasUnit
  BY DEF TunInv, HostOK
<1>2. QED
  BY <1>1, TunnelInvariant, PTL

\* connector_provision answers ready only over a daemon that serves its tunnel
\* and url, when no other call ran beside it and no removal left a daemon over.
THEOREM ReadyRunsItsProfileThm == TunnelSpec => []ReadyRunsItsProfile
<1>1. ASSUME TunInv
      PROVE  ReadyRunsItsProfile
  <2>1. SUFFICES ASSUME NEW a \in ToolServers, call[a].todo # <<>>, Head(call[a].todo) = "ready",
                        call[a].alone, ~ left
                 PROVE  serves \in {Nothing, call[a].want}
    BY DEF ReadyRunsItsProfile
  <2>2. Standing(call[a])
    BY <1>1 DEF TunInv
  <2>3. OwnDaemon(call[a])
    BY <2>1, <2>2, FirstTails, NamedTails, WritesTails, AfreshTails, FiledTails, OtherTails DEF Standing
  <2>4. QED
    BY <2>1, <2>3 DEF OwnDaemon
<1>2. QED
  BY <1>1, TunnelInvariant, PTL
=============================================================================
