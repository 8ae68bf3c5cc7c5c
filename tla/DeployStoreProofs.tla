------------------------- MODULE DeployStoreProofs -------------------------
(***************************************************************************)
(* Proofs about the deployment history: mutual exclusion under the lock     *)
(* file, no lost append, and that the store implements AppendLog.           *)
(*                                                                         *)
(* The invariant: at most one writer is past the creation of the lock file, *)
(* the lock file exists while one is, what it has read is what the history  *)
(* holds, the running appends have different records, and the record of a   *)
(* running append is in the history exactly from the rename on.             *)
(***************************************************************************)
EXTENDS DeployStore, TLAPS

LockOwned ==
    \A w \in Writers : Holding(w) =>
        /\ locked
        /\ \A v \in Writers : Holding(v) => v = w

Stored(r) == \E k \in DOMAIN file : file[k] = r

RecordsApart ==
    /\ \A w \in Writers : pc[w] # "idle" => record[w] \in 1..started
    /\ \A v, w \in Writers :
          pc[v] # "idle" /\ pc[w] # "idle" /\ record[v] = record[w] => v = w

StoredWhenDone ==
    /\ \A k \in DOMAIN file : file[k] <= started
    /\ \A w \in Writers : pc[w] # "idle" => (pc[w] = "done" <=> Stored(record[w]))

StoreInv ==
    /\ TypeOK
    /\ LockOwned
    /\ RewritesCurrentContent
    /\ RecordsApart
    /\ StoredWhenDone

-----------------------------------------------------------------------------
(* The invariant is inductive: one lemma per part, one step per action *)

\* The variables that only control the steps keep their types.
LEMMA ControlTypeStep ==
  ASSUME TypeOK, [Next]_vars
  PROVE  /\ locked' \in BOOLEAN
         /\ pc' \in [Writers -> Steps]
         /\ started' \in 0..MaxAppends
         /\ failures' \in 0..MaxFailures
         /\ crashes' \in 0..MaxCrashes
<1>1. locked' \in BOOLEAN
  BY DEF TypeOK, Next, Work, vars, Crash, Submit, TakeLock, GiveUp,
         ReadFile, WriteTemp, Rename, Unlock
<1>2. \A w \in Writers, step \in Steps : Goto(w, step) => pc' \in [Writers -> Steps]
  BY DEF TypeOK, Goto
<1>3. pc' \in [Writers -> Steps]
  <2>1. ASSUME NEW w \in Writers, Submit(w) \/ Work(w)
        PROVE  \E step \in Steps : Goto(w, step)
    BY <2>1 DEF Work, Submit, TakeLock, GiveUp, ReadFile, WriteTemp, Rename,
                Unlock, Steps
  <2>2. CASE Crash
    BY <2>2 DEF Crash, Steps
  <2> QED
    BY <1>2, <2>1, <2>2 DEF Next, vars, TypeOK
<1>4. failures' \in {failures, failures + 1} /\ (failures' # failures => failures < MaxFailures)
  BY DEF TypeOK, Next, Work, vars, Crash, Submit, TakeLock, GiveUp,
         ReadFile, WriteTemp, Rename, Unlock, NoFault, Fault
<1>5. started' \in {started, started + 1} /\ (started' # started => started < MaxAppends)
  BY DEF TypeOK, Next, Work, vars, Crash, Submit, TakeLock, GiveUp,
         ReadFile, WriteTemp, Rename, Unlock
<1>6. crashes' \in {crashes, crashes + 1} /\ (crashes' # crashes => crashes < MaxCrashes)
  BY DEF TypeOK, Next, Work, vars, Crash, Submit, TakeLock, GiveUp,
         ReadFile, WriteTemp, Rename, Unlock
<1> QED
  BY <1>1, <1>3, <1>4, <1>5, <1>6, StoreBoundsAssumption DEF TypeOK

\* So do those that carry records; a rename writes a record, not the initial 0,
\* because its writer is running.
LEMMA TypeStep == ASSUME TypeOK, RecordsApart, [Next]_vars PROVE TypeOK'
<1>0. \A w \in Writers : pc[w] # "idle" => record[w] \in Records
  BY StoreBoundsAssumption DEF RecordsApart, TypeOK, Records
<1>2. record' \in [Writers -> Records \cup {0}]
  <2>1. ASSUME NEW w \in Writers, Submit(w)
        PROVE  record' \in [Writers -> Records \cup {0}]
    BY <2>1, StoreBoundsAssumption DEF Submit, TypeOK, Records
  <2> QED
    BY <2>1 DEF TypeOK, Next, Work, vars, Crash, TakeLock, GiveUp,
                ReadFile, WriteTemp, Rename, Unlock
<1>3. seen' \in [Writers -> Seq(Records)]
  BY DEF TypeOK, Next, Work, vars, Crash, Submit, TakeLock, GiveUp,
         ReadFile, WriteTemp, Rename, Unlock
<1>4. file' \in Seq(Records)
  <2>1. ASSUME NEW w \in Writers, Rename(w) PROVE file' \in Seq(Records)
    <3>1. record[w] \in Records /\ seen[w] \in Seq(Records)
      BY <1>0, <2>1 DEF Rename, TypeOK
    <3>2. Append(seen[w], record[w]) \in Seq(Records)
      BY <3>1
    <3> QED
      BY <2>1, <3>2 DEF Rename, TypeOK
  <2> QED
    BY <2>1 DEF TypeOK, Next, Work, vars, Crash, Submit, TakeLock, GiveUp,
                ReadFile, WriteTemp, Unlock
<1>5. confirmed' \in SUBSET Records
  <2>1. ASSUME NEW w \in Writers, Unlock(w) PROVE confirmed' \in SUBSET Records
    BY <1>0, <2>1 DEF Unlock, TypeOK
  <2> QED
    BY <2>1 DEF TypeOK, Next, Work, vars, Crash, Submit, TakeLock, GiveUp,
                ReadFile, WriteTemp, Rename
<1> QED
  BY ControlTypeStep, <1>2, <1>3, <1>4, <1>5 DEF TypeOK

\* The lock file keeps all writers but one out of the steps it protects.
LEMMA LockStep == ASSUME TypeOK, LockOwned, [Next]_vars PROVE LockOwned'
<1> USE DEF TypeOK, LockOwned, Holding, Goto
<1>1. CASE UNCHANGED vars
  BY <1>1 DEF vars
<1>2. ASSUME NEW w \in Writers, Submit(w) PROVE LockOwned'
  BY <1>2 DEF Submit
<1>3. ASSUME NEW w \in Writers, TakeLock(w) PROVE LockOwned'
  BY <1>3 DEF TakeLock
<1>4. ASSUME NEW w \in Writers, GiveUp(w) PROVE LockOwned'
  BY <1>4 DEF GiveUp
<1>5. ASSUME NEW w \in Writers, ReadFile(w) PROVE LockOwned'
  BY <1>5 DEF ReadFile
<1>6. ASSUME NEW w \in Writers, WriteTemp(w) PROVE LockOwned'
  BY <1>6 DEF WriteTemp
<1>7. ASSUME NEW w \in Writers, Rename(w) PROVE LockOwned'
  BY <1>7 DEF Rename
<1>8. ASSUME NEW w \in Writers, Unlock(w) PROVE LockOwned'
  BY <1>8 DEF Unlock
<1>9. CASE Crash
  BY <1>9 DEF Crash
<1> QED
  BY <1>1, <1>2, <1>3, <1>4, <1>5, <1>6, <1>7, <1>8, <1>9 DEF Next, Work

\* Only the writer that holds the lock changes the history.
LEMMA ContentStep ==
  ASSUME TypeOK, LockOwned, RewritesCurrentContent, [Next]_vars
  PROVE  RewritesCurrentContent'
<1> USE DEF TypeOK, LockOwned, Holding, RewritesCurrentContent, Goto
<1>1. CASE UNCHANGED vars
  BY <1>1 DEF vars
<1>2. ASSUME NEW w \in Writers, Submit(w) PROVE RewritesCurrentContent'
  BY <1>2 DEF Submit
<1>3. ASSUME NEW w \in Writers, TakeLock(w) PROVE RewritesCurrentContent'
  BY <1>3 DEF TakeLock
<1>4. ASSUME NEW w \in Writers, GiveUp(w) PROVE RewritesCurrentContent'
  BY <1>4 DEF GiveUp
<1>5. ASSUME NEW w \in Writers, ReadFile(w) PROVE RewritesCurrentContent'
  BY <1>5 DEF ReadFile
<1>6. ASSUME NEW w \in Writers, WriteTemp(w) PROVE RewritesCurrentContent'
  BY <1>6 DEF WriteTemp
<1>7. ASSUME NEW w \in Writers, Rename(w) PROVE RewritesCurrentContent'
  BY <1>7 DEF Rename
<1>8. ASSUME NEW w \in Writers, Unlock(w) PROVE RewritesCurrentContent'
  BY <1>8 DEF Unlock
<1>9. CASE Crash
  BY <1>9 DEF Crash
<1> QED
  BY <1>1, <1>2, <1>3, <1>4, <1>5, <1>6, <1>7, <1>8, <1>9 DEF Next, Work

\* Request numbers are not reused.
LEMMA RecordsStep == ASSUME TypeOK, RecordsApart, [Next]_vars PROVE RecordsApart'
<1> USE StoreBoundsAssumption DEF TypeOK, RecordsApart, Goto
<1>1. CASE UNCHANGED vars
  BY <1>1 DEF vars
<1>2. ASSUME NEW w \in Writers, Submit(w) PROVE RecordsApart'
  BY <1>2 DEF Submit
<1>3. ASSUME NEW w \in Writers, Work(w) PROVE RecordsApart'
  BY <1>3 DEF Work, TakeLock, GiveUp, ReadFile, WriteTemp, Rename, Unlock
<1>4. CASE Crash
  BY <1>4 DEF Crash
<1> QED
  BY <1>1, <1>2, <1>3, <1>4 DEF Next

\* What an append does to the records in the history.
LEMMA AppendStores ==
  ASSUME NEW S, NEW s \in Seq(S), NEW e \in S
  PROVE  /\ Append(s, e)[Len(s) + 1] = e
         /\ DOMAIN Append(s, e) = DOMAIN s \cup {Len(s) + 1}
         /\ \A k \in DOMAIN s : Append(s, e)[k] = s[k]
  OBVIOUS

\* A record is in the history exactly from its writer's rename on.
LEMMA StoredStep == ASSUME StoreInv, [Next]_vars PROVE StoredWhenDone'
<1> USE StoreBoundsAssumption
    DEF StoreInv, TypeOK, RecordsApart, StoredWhenDone, Stored, Records, Goto
<1>1. CASE UNCHANGED vars
  BY <1>1 DEF vars
<1>2. ASSUME NEW w \in Writers, Submit(w) PROVE StoredWhenDone'
  BY <1>2 DEF Submit
<1>3. ASSUME NEW w \in Writers, Rename(w), file' = Append(file, record[w]), pc'[w] = "done"
      PROVE StoredWhenDone'
  <2>1. \A r : Stored(r)' <=> Stored(r) \/ r = record[w]
    BY <1>3, AppendStores
  <2>2. \A k \in DOMAIN file' : file'[k] <= started'
    BY <1>3, AppendStores DEF Rename
  <2>3. ASSUME NEW v \in Writers, pc'[v] # "idle"
        PROVE  pc'[v] = "done" <=> Stored(record[v])'
    <3>1. Stored(record[v])' <=> Stored(record[v]) \/ record[v] = record[w]
      BY <1>3, <2>1 DEF Rename
    <3>2. CASE v = w
      BY <1>3, <3>1, <3>2
    <3>3. CASE v # w
      <4>1. pc'[v] = pc[v] /\ record[v] # record[w]
        BY <1>3, <2>3, <3>3 DEF Rename
      <4> QED
        BY <2>3, <3>1, <4>1
    <3> QED
      BY <3>2, <3>3
  <2> QED
    BY <1>3, <2>2, <2>3 DEF Rename
<1>4. ASSUME NEW w \in Writers, Rename(w), UNCHANGED file, pc'[w] = "failed"
      PROVE StoredWhenDone'
  BY <1>4 DEF Rename
<1>5. ASSUME NEW w \in Writers, Rename(w) PROVE StoredWhenDone'
  BY <1>3, <1>4, <1>5 DEF Rename, RewritesCurrentContent, Steps
<1>6. ASSUME NEW w \in Writers, TakeLock(w) \/ GiveUp(w) \/ ReadFile(w) \/ WriteTemp(w)
      PROVE StoredWhenDone'
  BY <1>6 DEF TakeLock, GiveUp, ReadFile, WriteTemp
<1>7. ASSUME NEW w \in Writers, Unlock(w) PROVE StoredWhenDone'
  BY <1>7 DEF Unlock
<1>8. CASE Crash
  BY <1>8 DEF Crash
<1> QED
  BY <1>1, <1>2, <1>5, <1>6, <1>7, <1>8 DEF Next, Work

\* The invariant holds initially.
LEMMA StoreInit == Init => StoreInv
<1> SUFFICES ASSUME Init PROVE StoreInv
  OBVIOUS
<1>1. TypeOK
  <2>1. file \in Seq(Records) /\ seen \in [Writers -> Seq(Records)]
    BY DEF Init
  <2>2. /\ record \in [Writers -> Records \cup {0}]
        /\ pc \in [Writers -> Steps]
        /\ locked \in BOOLEAN
        /\ confirmed \in SUBSET Records
    BY DEF Init, Steps
  <2>3. started \in 0..MaxAppends /\ failures \in 0..MaxFailures /\ crashes \in 0..MaxCrashes
    BY StoreBoundsAssumption DEF Init
  <2> QED
    BY <2>1, <2>2, <2>3 DEF TypeOK
<1>2. LockOwned /\ RewritesCurrentContent /\ RecordsApart
  BY DEF Init, LockOwned, Holding, RewritesCurrentContent, RecordsApart
<1>3. StoredWhenDone
  BY DEF Init, StoredWhenDone, Stored
<1> QED
  BY <1>1, <1>2, <1>3 DEF StoreInv

\* Every step keeps the invariant.
LEMMA StoreStep == StoreInv /\ [Next]_vars => StoreInv'
  BY TypeStep, LockStep, ContentStep, RecordsStep, StoredStep DEF StoreInv

\* The invariant holds in every reachable state.
THEOREM StoreInvariant == Spec => []StoreInv
  BY StoreInit, StoreStep, PTL DEF Spec

-----------------------------------------------------------------------------
(* What follows from it *)

\* The variables of the store keep their types.
THEOREM StoreTypeCorrect == Spec => []TypeOK
<1>1. StoreInv => TypeOK
  BY DEF StoreInv
<1> QED
  BY <1>1, StoreInvariant, PTL

\* No append is lost: a writer about to rename rewrites the current content of
\* the history, whatever crashed before it (withFileLock, AppendDeployment).
THEOREM NoLostAppend == Spec => []RewritesCurrentContent
<1>1. StoreInv => RewritesCurrentContent
  BY DEF StoreInv
<1> QED
  BY <1>1, StoreInvariant, PTL
-----------------------------------------------------------------------------
(* The store implements AppendLog *)

Pending == {record[w] : w \in {v \in Writers : pc[v] # "idle"}}

\* A step in which no writer starts or returns leaves the same records pending.
LEMMA SamePending ==
  ASSUME record' = record, \A v \in Writers : pc'[v] # "idle" <=> pc[v] # "idle"
  PROVE  Pending' = Pending
  BY DEF Pending

\* A writer that returns takes its own record, and no other, out of the pending.
LEMMA ReturnRemoves ==
  ASSUME TypeOK, RecordsApart, NEW w \in Writers, pc[w] # "idle",
         Goto(w, "idle"), record' = record
  PROVE  record[w] \in Pending /\ Pending' = Pending \ {record[w]}
<1>1. \A v \in Writers : pc'[v] # "idle" <=> pc[v] # "idle" /\ v # w
  BY DEF Goto, TypeOK
<1>2. \A v \in Writers : pc[v] # "idle" /\ record[v] = record[w] => v = w
  BY DEF RecordsApart
<1> QED
  BY <1>1, <1>2 DEF Pending

\* The record of a running append is a request number.
LEMMA RunningRecord ==
  ASSUME TypeOK, RecordsApart, NEW w \in Writers, pc[w] # "idle"
  PROVE  record[w] \in Records
  BY StoreBoundsAssumption DEF TypeOK, RecordsApart, Records

\* Every step of the store is a step of AppendLog or leaves its variables alone.
LEMMA HistoryStep ==
  ASSUME StoreInv, [Next]_vars
  PROVE  [History!Next]_<<file, Pending, confirmed>>
<1> USE DEF StoreInv
<1>0. \A r : History!In(r) <=> Stored(r)
  BY DEF History!In, Stored
<1>1. CASE UNCHANGED vars
  BY <1>1 DEF vars, Pending
<1>2. ASSUME NEW w \in Writers, Submit(w) PROVE History!Next
  <2>1. PICK r \in Records : r = started + 1
    BY <1>2, StoreBoundsAssumption DEF Submit, TypeOK, Records
  <2>2. started + 1 \notin Pending /\ ~Stored(started + 1)
    BY StoreBoundsAssumption
    DEF TypeOK, Pending, Stored, StoredWhenDone, RecordsApart, Records
  <2>3. Pending' = Pending \cup {started + 1}
    BY <1>2 DEF Submit, Pending, Goto, TypeOK
  <2>4. History!Submit(r)
    BY <1>0, <1>2, <2>1, <2>2, <2>3 DEF Submit, History!Submit, Pending
  <2> QED
    BY <2>4 DEF History!Next
<1>3. ASSUME NEW w \in Writers, TakeLock(w) \/ ReadFile(w) \/ WriteTemp(w)
      PROVE  UNCHANGED <<file, Pending, confirmed>>
  <2>1. record' = record /\ UNCHANGED <<file, confirmed>>
    BY <1>3 DEF TakeLock, ReadFile, WriteTemp
  <2>2. \A v \in Writers : pc'[v] # "idle" <=> pc[v] # "idle"
    BY <1>3 DEF TakeLock, ReadFile, WriteTemp, Goto, TypeOK
  <2> QED
    BY <2>1, <2>2, SamePending
<1>4. ASSUME NEW w \in Writers, pc[w] \notin {"idle", "done"}, Goto(w, "idle"),
             UNCHANGED <<file, record, confirmed>>
      PROVE  History!Next
  <2>1. PICK r \in Records : r = record[w]
    BY <1>4, RunningRecord
  <2>2. ~Stored(r)
    BY <1>4, <2>1 DEF StoredWhenDone
  <2>3. History!Refuse(r)
    BY <1>0, <1>4, <2>1, <2>2, ReturnRemoves DEF History!Refuse, Pending
  <2> QED
    BY <2>3 DEF History!Next
<1>5. ASSUME NEW w \in Writers, GiveUp(w) PROVE History!Next
  BY <1>4, <1>5 DEF GiveUp
<1>6. ASSUME NEW w \in Writers, Rename(w)
      PROVE  [History!Next]_<<file, Pending, confirmed>>
  <2>1. Pending' = Pending
    <3>1. \A v \in Writers : pc'[v] # "idle" <=> pc[v] # "idle"
      BY <1>6 DEF Rename, Goto, TypeOK
    <3> QED
      BY <1>6, <3>1, SamePending DEF Rename
  <2>2. CASE UNCHANGED file
    BY <1>6, <2>1, <2>2 DEF Rename
  <2>3. CASE file' = Append(seen[w], record[w])
    <3>0. pc[w] = "rename"
      BY <1>6 DEF Rename
    <3>1. PICK r \in Records : r = record[w]
      BY <3>0, RunningRecord
    <3>2. r \in Pending /\ ~Stored(r)
      BY <3>0, <3>1 DEF Pending, StoredWhenDone
    <3>3. seen[w] = file
      BY <3>0 DEF RewritesCurrentContent
    <3>4. History!Commit(r)
      BY <1>0, <1>6, <2>1, <2>3, <3>1, <3>2, <3>3 DEF Rename, History!Commit, Pending
    <3> QED
      BY <3>4 DEF History!Next
  <2> QED
    BY <1>6, <2>2, <2>3 DEF Rename
<1>7. ASSUME NEW w \in Writers, Unlock(w) PROVE History!Next
  <2>1. CASE pc[w] = "done"
    <3>1. PICK r \in Records : r = record[w]
      BY <2>1, RunningRecord
    <3>2. Stored(r)
      BY <2>1, <3>1 DEF StoredWhenDone
    <3>3. History!Confirm(r)
      BY <1>0, <1>7, <2>1, <3>1, <3>2, ReturnRemoves
      DEF Unlock, History!Confirm, Pending
    <3> QED
      BY <3>3 DEF History!Next
  <2>2. CASE pc[w] = "failed"
    BY <1>4, <1>7, <2>2 DEF Unlock
  <2> QED
    BY <1>7, <2>1, <2>2 DEF Unlock
<1>8. CASE Crash
  <2>1. Pending' = {}
    BY <1>8 DEF Crash, Pending
  <2>2. History!Kill
    BY <1>8, <2>1 DEF Crash, History!Kill, Pending
  <2> QED
    BY <2>2 DEF History!Next
<1> QED
  BY <1>1, <1>2, <1>3, <1>5, <1>6, <1>7, <1>8 DEF Next, Work

\* The store keeps the promise of AppendLog: records are added once, whole and
\* in order, an append that returns without an error is in the history, and one
\* that returns an error is not (AppendDeployment, withFileLock).
THEOREM StoreImplementsAppendLog == Spec => ImplementsAppendLog
<1>1. Init => History!Init
  BY DEF Init, History!Init
<1>2. StoreInv /\ [Next]_vars => [History!Next]_(History!logVars)
  BY HistoryStep DEF History!logVars, Pending
<1> QED
  BY <1>1, <1>2, StoreInvariant, PTL DEF Spec, ImplementsAppendLog, History!Spec
=============================================================================
