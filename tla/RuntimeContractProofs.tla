----------------------- MODULE RuntimeContractProofs -----------------------
(***************************************************************************)
(* What RuntimeDeploy promises of the requests of one runtime, for any      *)
(* number of them.                                                          *)
(*                                                                         *)
(* - It implements RuntimeContract: one at a time, and with any failures    *)
(*   but those of the store's own writes, a request changes at most the     *)
(*   item it names, and a checkpoint, a reload and a rolled-back request    *)
(*   change nothing.  The one step that breaks this is a kill between the   *)
(*   two writes of a checkpoint's rollback (CutUndo).                       *)
(* - A request that fails puts back what it found: a deploy log, directory  *)
(*   and checkpoint, an install the runtime.                                *)
(* - A recorded change has taken effect, whatever failed or was killed      *)
(*   before it.                                                             *)
(* - A recorded event keeps the staged package it is replayed from,         *)
(*   whatever overlaps, fails or is killed, outside the replay that packs   *)
(*   it anew.                                                               *)
(* - Between requests that do not fail, directory, log and checkpoint       *)
(*   agree.                                                                 *)
(*                                                                         *)
(* The first invariant relates the two files to what the running request    *)
(* holds: an edit's log is the edited one from its save to its undo, and a  *)
(* checkpoint's metadata is the effective state it started from.  That a    *)
(* log replayed over its own effect changes nothing (EffectiveTwice) makes  *)
(* the two writes of a checkpoint stutter.  The others build on it.         *)
(***************************************************************************)
EXTENDS RuntimeDeployProofs, RuntimeAudit

AfterSave == {"restore", "undo_log"} \cup RebuildSteps

\* What an edit holds of the log.
Edited(h) ==
    req[h].op \in EditOps =>
        /\ pc[h] = "save" => log = req[h].log0
        /\ (pc[h] = "baseline" /\ req[h].op = "plugin_remove") => log = req[h].log0
        /\ pc[h] \in AfterSave => log = EditedLog(req[h]) /\ Findable(req[h])

\* What a checkpoint holds of the checkpoint and the log.
Collected(h) ==
    req[h].op = "checkpoint" =>
        /\ pc[h] \in {"load", "skills", "plugins", "save_cp"}
              => req[h].previous = checkpoint
        /\ pc[h] \in {"skills", "plugins", "save_cp", "clear"} => log = req[h].log0
        /\ pc[h] = "plugins"
              => \A i \in Skills : req[h].meta[i] = Effective(checkpoint.meta, log)[i]
        /\ pc[h] = "save_cp" => req[h].meta = Effective(checkpoint.meta, log)
        /\ pc[h] \in {"clear", "restore", "undo_cp"} \cup RebuildSteps
              => checkpoint.meta = Effective(req[h].previous.meta, req[h].log0)
        /\ pc[h] \in {"restore", "undo_cp", "undo_log"} \cup RebuildSteps => log = <<>>
        /\ pc[h] = "undo_log" => checkpoint = req[h].previous

Holds(h) == Edited(h) /\ Collected(h)

ContractInv == DeployInv /\ Single /\ \A h \in Handlers : Holds(h)

-----------------------------------------------------------------------------
(* The replay *)

\* A step of the replay touches neither file, and goes on or fails the deploy.
LEMMA Replaying ==
  ASSUME TypeOK, NEW h \in Handlers, ReplayEvent(h) \/ Repack(h) \/ Reinstall(h)
  PROVE  /\ pc[h] \in ReplaySteps /\ UNCHANGED <<checkpoint, log, history, started, crashes>>
         /\ \/ DeployFailed(h)
            \/ /\ pc'[h] \in ReplaySteps
               /\ UNCHANGED req \/ \E k : req' = [req EXCEPT ![h].todo = @ \ {k}]
<1>0. pc \in [Handlers -> Steps]
  BY DEF TypeOK
<1> USE DEF Goto, ReplaySteps
<1>1. CASE ReplayEvent(h)
  BY <1>0, <1>1, ReplayContinues DEF Replayed, Repacking, ReplayEvent, At
<1>2. CASE Repack(h)
  BY <1>0, <1>2, RepackContinues DEF Repacking
<1>3. CASE Reinstall(h)
  BY <1>0, <1>3, ReinstallContinues
<1> QED
  BY <1>1, <1>2, <1>3

-----------------------------------------------------------------------------
(* The edit *)

\* The edited log depends on the arguments and the loaded values only.
LEMMA EditedLogSame ==
  ASSUME NEW r, NEW s, s.op = r.op, s.id = r.id, s.item = r.item, s.version = r.version,
         s.source = r.source, s.base = r.base, s.log0 = r.log0
  PROVE  EditedLog(s) = EditedLog(r) /\ (Findable(r) => Findable(s))
  BY DEF EditedLog, NewEvent, Findable

\* It differs from the loaded log in the request's item only.
LEMMA EditedChangesItem ==
  ASSUME NEW r \in Request, r.op \in EditOps, ArgumentsFit(r), Findable(r),
         NEW base, NEW i \in Items, i # r.item
  PROVE  Effective(base, EditedLog(r))[i] = Effective(base, r.log0)[i]
<1>1. r.log0 \in Log /\ r.source \in Sources /\ r.id \in Nat
  BY DEF Request
<1>2. CASE r.op \in Installs \/ (r.op = "plugin_remove" /\ r.base # None)
  <2>1. EditedLog(r) = Append(r.log0, NewEvent(r))
    BY <1>2 DEF EditedLog, Installs
  <2>2. NewEvent(r) \in Event
    <3>1. CASE r.op \in Installs
      <4>1. NewEvent(r) \in SkillInstall \cup PluginInstall
        BY <1>1, <3>1 DEF NewEvent, Installs, ArgumentsFit, SkillInstall, PluginInstall
      <4> QED
        BY <4>1 DEF Event
    <3>2. CASE r.op = "plugin_remove"
      <4>1. NewEvent(r) \in PluginRemove
        BY <1>1, <3>2 DEF NewEvent, ArgumentsFit, PluginRemove
      <4> QED
        BY <4>1 DEF Event
    <3> QED
      BY <1>2, <3>1, <3>2
  <2>3. NewEvent(r).item = r.item
    BY DEF NewEvent
  <2> QED
    BY <1>1, <2>1, <2>2, <2>3, AppendChangesItem
<1>3. CASE ~(r.op \in Installs \/ (r.op = "plugin_remove" /\ r.base # None))
  <2>1. HasInstall(r.log0, r.item)
    BY <1>3 DEF Findable
  <2>2. IsLatestInstall(r.log0, r.item, LatestInstall(r.log0, r.item))
    BY <2>1 DEF HasInstall, LatestInstall
  <2>3. EditedLog(r) = RemoveAt(r.log0, LatestInstall(r.log0, r.item))
    BY <1>3 DEF EditedLog, Installs, DropLatestInstall
  <2>4. /\ LatestInstall(r.log0, r.item) \in DOMAIN r.log0
        /\ r.log0[LatestInstall(r.log0, r.item)].item = r.item
    BY <2>2 DEF IsLatestInstall
  <2> QED
    BY <1>1, <2>3, <2>4, RemoveChangesItem
<1> QED
  BY <1>2, <1>3
-----------------------------------------------------------------------------
(* The invariant *)

\* The fields an edit is computed from.
SameEdit(h) ==
    /\ SameRequest(h)
    /\ req'[h].base = req[h].base /\ req'[h].log0 = req[h].log0

\* The fields a checkpoint is undone from.
SameUndo(h) ==
    /\ SameRequest(h)
    /\ req'[h].previous = req[h].previous /\ req'[h].log0 = req[h].log0

\* After its save an operation keeps what its undo needs.
LEMMA HeldKept ==
  ASSUME TypeOK, NEW h \in Handlers, Work(h), pc'[h] # "idle",
         pc[h] \in {"save", "save_cp", "clear", "undo_cp"} \cup AfterSave
  PROVE  SameEdit(h) /\ SameUndo(h)
<1>0. pc \in [Handlers -> Steps] /\ req \in [Handlers -> Request]
  BY DEF TypeOK
<1> USE DEF At, Goto, Return, SameEdit, SameUndo, SameRequest, Request, AfterSave, RebuildSteps,
            ReplaySteps
<1>1. CASE UNCHANGED req
  BY <1>1
<1>2. ASSUME DeployFailed(h) PROVE UNCHANGED req
  BY <1>0, <1>2 DEF DeployFailed
<1>3. CASE SaveLog(h) \/ SaveCheckpoint(h) \/ ClearLog(h)
  BY <1>0, <1>1, <1>3 DEF SaveLog, SaveCheckpoint, ClearLog
<1>4. CASE LoadBaseline(h)
  BY <1>0, <1>4 DEF LoadBaseline
<1>5. CASE Reset(h) \/ CopySnapshot(h) \/ Up(h) \/ RecordDeploy(h)
  BY <1>0, <1>1, <1>2, <1>5 DEF Reset, CopySnapshot, Up, RecordDeploy
<1>6. CASE LoadReplay(h)
  BY <1>0, <1>6 DEF LoadReplay
<1>7. CASE ReplayEvent(h) \/ Repack(h) \/ Reinstall(h)
  BY <1>0, <1>1, <1>2, <1>7, Replaying
<1>8. CASE UndoCheckpoint(h) \/ UndoLog(h)
  BY <1>0, <1>1, <1>8 DEF UndoCheckpoint, UndoLog
<1>9. CASE \/ ReadBaseline(h) \/ ReadEffective(h) \/ Backup(h) \/ StagePackage(h)
           \/ PackPlugin(h) \/ InstallPlugin(h) \/ LoadLog(h)
  BY <1>9 DEF ReadBaseline, ReadEffective, Backup, StagePackage, PackPlugin,
              InstallPlugin, LoadLog
<1>10. CASE \/ Capture(h) \/ LoadPrevious(h) \/ ReadSkills(h) \/ ReadPlugins(h)
            \/ AppendRecord(h) \/ Unwind(h)
  BY <1>10 DEF Capture, LoadPrevious, ReadSkills, ReadPlugins, AppendRecord, Unwind
<1> QED
  BY <1>3, <1>4, <1>5, <1>6, <1>7, <1>8, <1>9, <1>10 DEF Work

\* The steps by which a handler gets to the rebuild and its undo.
LEMMA RestoreActions ==
  ASSUME TypeOK, Fits, NEW h \in Handlers, Work(h),
         pc'[h] \in {"restore", "undo_cp"} \cup AfterSave
  PROVE  \/ SaveLog(h) /\ pc[h] = "save" /\ req[h].op \in EditOps
         \/ ClearLog(h) /\ pc[h] = "clear" /\ req[h].op = "checkpoint"
         \/ UndoCheckpoint(h) /\ pc[h] = "undo_cp" /\ pc'[h] = "undo_log"
               /\ req[h].op = "checkpoint"
         \/ /\ pc[h] \in {"restore"} \cup RebuildSteps
            /\ UNCHANGED <<checkpoint, log>>
            /\ pc'[h] = "undo_cp" => req[h].op = "checkpoint"
            /\ pc'[h] = "undo_log" => req[h].op # "checkpoint"
            /\ pc'[h] # "restore"
<1>0. pc \in [Handlers -> Steps]
  BY DEF TypeOK
<1>00. pc[h] # "idle" /\ OpFits(pc[h], req[h].op)
  BY Working DEF Fits
<1> USE DEF At, Goto, Return, AfterSave, RebuildSteps, ReplaySteps
<1>1. CASE \/ ReadBaseline(h) \/ ReadEffective(h) \/ Backup(h) \/ StagePackage(h)
           \/ PackPlugin(h) \/ InstallPlugin(h) \/ LoadLog(h)
  BY <1>0, <1>1 DEF ReadBaseline, ReadEffective, Backup, StagePackage, PackPlugin,
              InstallPlugin, LoadLog
<1>2. CASE SaveLog(h)
  BY <1>0, <1>00, <1>2 DEF SaveLog, OpFits
<1>3. CASE \/ Capture(h) \/ LoadPrevious(h) \/ ReadSkills(h) \/ ReadPlugins(h)
           \/ SaveCheckpoint(h)
  BY <1>0, <1>3 DEF Capture, LoadPrevious, ReadSkills, ReadPlugins, SaveCheckpoint
<1>4. CASE ClearLog(h)
  BY <1>0, <1>00, <1>4 DEF ClearLog, OpFits, CheckpointSteps
<1>5. ASSUME DeployFailed(h)
      PROVE  /\ pc'[h] = "undo_cp" => req[h].op = "checkpoint"
             /\ pc'[h] = "undo_log" => req[h].op # "checkpoint"
             /\ pc'[h] # "restore"
  BY <1>0, <1>5 DEF DeployFailed
<1>6. CASE \/ LoadBaseline(h) \/ Reset(h) \/ CopySnapshot(h) \/ Up(h) \/ LoadReplay(h)
  BY <1>0, <1>5, <1>6 DEF LoadBaseline, Reset, CopySnapshot, Up, LoadReplay, stores
<1>7. CASE ReplayEvent(h) \/ Repack(h) \/ Reinstall(h)
  <2>1. /\ pc[h] \in ReplaySteps /\ UNCHANGED <<checkpoint, log>>
        /\ pc'[h] \in ReplaySteps \/ DeployFailed(h)
    BY <1>7, Replaying
  <2> QED
    BY <1>5, <2>1
<1>8. CASE RecordDeploy(h)
  BY <1>0, <1>5, <1>8 DEF RecordDeploy
<1>9. CASE UndoCheckpoint(h)
  BY <1>0, <1>00, <1>9 DEF UndoCheckpoint, OpFits, CheckpointSteps
<1>10. CASE AppendRecord(h) \/ UndoLog(h) \/ Unwind(h)
  BY <1>0, <1>10 DEF AppendRecord, UndoLog, Unwind
<1> QED
  BY <1>1, <1>2, <1>3, <1>4, <1>6, <1>7, <1>8, <1>9, <1>10 DEF Work

\* How an edit gets to its save.
LEMMA SaveActions ==
  ASSUME TypeOK, Fits, NEW h \in Handlers, Work(h)
  PROVE  \/ LoadLog(h)
         \/ ReadBaseline(h) /\ pc'[h] = "save" /\ req[h].op = "plugin_remove"
         \/ pc'[h] = "baseline" /\ req[h].op = "plugin_install"
         \/ pc'[h] \notin {"save", "baseline"}
<1>0. pc \in [Handlers -> Steps]
  BY DEF TypeOK
<1>00. OpFits(pc[h], req[h].op)
  BY Working DEF Fits
<1> USE DEF At, Goto, Return
<1>1. CASE ReadBaseline(h)
  BY <1>0, <1>1 DEF ReadBaseline
<1>7. CASE InstallPlugin(h)
  BY <1>0, <1>00, <1>7 DEF InstallPlugin, OpFits
<1>2. CASE ReadEffective(h) \/ Backup(h) \/ StagePackage(h) \/ PackPlugin(h) \/ SaveLog(h)
  BY <1>0, <1>2 DEF ReadEffective, Backup, StagePackage, PackPlugin, SaveLog
<1>3. CASE \/ Capture(h) \/ LoadPrevious(h) \/ ReadSkills(h) \/ ReadPlugins(h)
           \/ SaveCheckpoint(h) \/ ClearLog(h)
  BY <1>0, <1>3
  DEF Capture, LoadPrevious, ReadSkills, ReadPlugins, SaveCheckpoint, ClearLog
<1>4. CASE \/ LoadBaseline(h) \/ Reset(h) \/ CopySnapshot(h) \/ Up(h) \/ LoadReplay(h)
           \/ RecordDeploy(h)
  BY <1>0, <1>4
  DEF LoadBaseline, Reset, CopySnapshot, Up, LoadReplay, RecordDeploy, DeployFailed
<1>5. CASE ReplayEvent(h) \/ Repack(h) \/ Reinstall(h)
  <2>1. pc[h] \in ReplaySteps /\ (pc'[h] \in ReplaySteps \/ DeployFailed(h))
    BY <1>5, Replaying
  <2> QED
    BY <1>0, <2>1 DEF DeployFailed, ReplaySteps
<1>6. CASE AppendRecord(h) \/ UndoCheckpoint(h) \/ UndoLog(h) \/ Unwind(h)
  BY <1>0, <1>6 DEF AppendRecord, UndoCheckpoint, UndoLog, Unwind
<1> QED
  BY <1>1, <1>2, <1>3, <1>4, <1>5, <1>6, <1>7 DEF Work

LEMMA EditedKept ==
  ASSUME TypeOK, Fits, NEW h \in Handlers, Work(h), Edited(h)
  PROVE  Edited(h)'
<1>0. pc \in [Handlers -> Steps] /\ req \in [Handlers -> Request] /\ pc[h] # "idle"
  BY Working DEF TypeOK
<1>1. CASE pc'[h] = "idle"
  <2>1. req'[h].op = "none"
    BY <1>1, RequestKept DEF NoRequest
  <2> QED
    BY <2>1 DEF Edited, EditOps, Ops
<1>2. ASSUME pc'[h] # "idle", req[h].op \in EditOps
      PROVE  Edited(h)'
  <2>0. SameRequest(h)
    BY <1>2, RequestKept
  <2>1. ASSUME \/ pc'[h] = "save"
               \/ pc'[h] = "baseline" /\ req[h].op = "plugin_remove"
        PROVE  log' = req'[h].log0
    <3>1. CASE LoadLog(h)
      <4>1. req' = [req EXCEPT ![h].log0 = log] /\ UNCHANGED log
        BY <1>0, <1>2, <3>1 DEF LoadLog, Return, Goto, stores
      <4> QED
        BY <1>0, <4>1
    <3>2. CASE ReadBaseline(h) /\ req[h].op = "plugin_remove"
      <4>1. /\ req' = [req EXCEPT ![h].base = checkpoint.meta[req[h].item]]
            /\ UNCHANGED log /\ pc[h] = "baseline"
        BY <1>0, <1>2, <3>2 DEF ReadBaseline, Return, Goto, At, stores
      <4>2. req'[h].log0 = req[h].log0
        BY <1>0, <4>1 DEF Request
      <4> QED
        BY <1>2, <3>2, <4>1, <4>2 DEF Edited
    <3> QED
      BY <2>1, <3>1, <3>2, SaveActions
  <2>2. ASSUME pc'[h] \in AfterSave
        PROVE  log' = EditedLog(req'[h]) /\ Findable(req'[h])
    <3>1. pc[h] = "save" => Findable(req[h])
      BY <1>0 DEF Fits
    <3>2. CASE SaveLog(h) /\ pc[h] = "save"
      <4>1. log' = EditedLog(req[h]) /\ UNCHANGED req
        BY <1>0, <2>2, <3>2 DEF SaveLog, Goto, Return, AfterSave, RebuildSteps, ReplaySteps
      <4> QED
        BY <3>1, <3>2, <4>1
    <3>3. CASE pc[h] \in {"restore"} \cup RebuildSteps /\ UNCHANGED log
      <4>1. pc[h] \in AfterSave
        BY <3>3 DEF AfterSave
      <4>2. SameEdit(h)
        BY <1>2, <4>1, HeldKept
      <4>3. log = EditedLog(req[h]) /\ Findable(req[h])
        BY <1>2, <4>1 DEF Edited
      <4>4. EditedLog(req'[h]) = EditedLog(req[h]) /\ Findable(req'[h])
        BY <4>2, <4>3, EditedLogSame DEF SameEdit, SameRequest
      <4> QED
        BY <3>3, <4>3, <4>4
    <3> QED
      BY <1>2, <2>2, <3>2, <3>3, RestoreActions DEF EditOps
  <2> QED
    BY <2>0, <2>1, <2>2 DEF Edited, SameRequest
<1>3. CASE pc'[h] # "idle" /\ req[h].op \notin EditOps
  BY <1>3, RequestKept DEF Edited, SameRequest
<1> QED
  BY <1>1, <1>2, <1>3

\* How a checkpoint gets to its first write.
LEMMA CollectActions ==
  ASSUME TypeOK, Fits, NEW h \in Handlers, Work(h), req[h].op = "checkpoint"
  PROVE  /\ pc'[h] = "load" => LoadPrevious(h)
         /\ pc'[h] = "skills" => LoadLog(h) /\ pc[h] = "load"
         /\ pc'[h] = "plugins" => ReadSkills(h) /\ pc[h] = "skills"
         /\ pc'[h] = "save_cp" => ReadPlugins(h) /\ pc[h] = "plugins"
         /\ pc'[h] = "clear" => SaveCheckpoint(h) /\ pc[h] = "save_cp"
<1>0. pc \in [Handlers -> Steps]
  BY DEF TypeOK
<1>00. OpFits(pc[h], req[h].op)
  BY Working DEF Fits
<1> USE DEF At, Goto, Return
<1>1. CASE \/ ReadBaseline(h) \/ ReadEffective(h) \/ Backup(h) \/ StagePackage(h)
           \/ PackPlugin(h) \/ InstallPlugin(h) \/ SaveLog(h)
  BY <1>0, <1>00, <1>1
  DEF ReadBaseline, ReadEffective, Backup, StagePackage, PackPlugin, InstallPlugin,
      SaveLog, OpFits, Installs
<1>2. CASE LoadLog(h) \/ Capture(h) \/ LoadPrevious(h) \/ ReadSkills(h) \/ ReadPlugins(h)
  BY <1>0, <1>2 DEF LoadLog, Capture, LoadPrevious, ReadSkills, ReadPlugins
<1>3. CASE SaveCheckpoint(h) \/ ClearLog(h)
  BY <1>0, <1>3 DEF SaveCheckpoint, ClearLog
<1>4. CASE \/ LoadBaseline(h) \/ Reset(h) \/ CopySnapshot(h) \/ Up(h) \/ LoadReplay(h)
           \/ RecordDeploy(h)
  BY <1>0, <1>4
  DEF LoadBaseline, Reset, CopySnapshot, Up, LoadReplay, RecordDeploy, DeployFailed
<1>5. CASE ReplayEvent(h) \/ Repack(h) \/ Reinstall(h)
  <2>1. pc[h] \in ReplaySteps /\ (pc'[h] \in ReplaySteps \/ DeployFailed(h))
    BY <1>5, Replaying
  <2> QED
    BY <1>0, <2>1 DEF DeployFailed, ReplaySteps
<1>6. CASE AppendRecord(h) \/ UndoCheckpoint(h) \/ UndoLog(h) \/ Unwind(h)
  BY <1>0, <1>6 DEF AppendRecord, UndoCheckpoint, UndoLog, Unwind
<1> QED
  BY <1>1, <1>2, <1>3, <1>4, <1>5, <1>6 DEF Work

LEMMA CollectedKept ==
  ASSUME TypeOK, Fits, "store" \notin Faults, NEW h \in Handlers, Work(h), Collected(h)
  PROVE  Collected(h)'
<1>0. /\ pc \in [Handlers -> Steps] /\ req \in [Handlers -> Request] /\ pc[h] # "idle"
      /\ req[h] \in Request
  BY Working DEF TypeOK
<1>00. Effective(checkpoint.meta, log) \in Content
  BY EffectiveType DEF TypeOK, Checkpoint
<1>1. CASE pc'[h] = "idle"
  <2>1. req'[h].op = "none"
    BY <1>1, RequestKept DEF NoRequest
  <2> QED
    BY <2>1 DEF Collected
<1>2. CASE pc'[h] # "idle" /\ req[h].op # "checkpoint"
  BY <1>2, RequestKept DEF Collected, SameRequest
<1>3. CASE pc'[h] # "idle" /\ req[h].op = "checkpoint"
  <2> DEFINE p == pc'[h]
             r == req[h]
             s == req'[h]
  <2>1. CASE p = "load"
    <3>1. LoadPrevious(h)
      BY <1>3, <2>1, CollectActions
    <3>2. s.previous = checkpoint /\ UNCHANGED checkpoint
      BY <1>0, <3>1 DEF LoadPrevious, stores, Request
    <3> QED
      BY <2>1, <3>2 DEF Collected, RebuildSteps, ReplaySteps
  <2>2. CASE p = "skills"
    <3>1. LoadLog(h) /\ pc[h] = "load"
      BY <1>3, <2>2, CollectActions
    <3>2. req' = [req EXCEPT ![h].log0 = log] /\ UNCHANGED <<checkpoint, log>>
      BY <1>3, <3>1 DEF LoadLog, stores
    <3>3. s.previous = r.previous /\ s.log0 = log
      BY <1>0, <3>2 DEF Request
    <3>4. r.previous = checkpoint
      BY <1>3, <3>1 DEF Collected
    <3> QED
      BY <2>2, <3>2, <3>3, <3>4 DEF Collected, RebuildSteps, ReplaySteps
  <2>3. CASE p = "plugins"
    <3>1. ReadSkills(h) /\ pc[h] = "skills"
      BY <1>3, <2>3, CollectActions
    <3>2. /\ UNCHANGED <<checkpoint, log>>
          /\ req' = [req EXCEPT ![h].meta =
                [i \in Items |-> IF i \in Skills THEN Effective(checkpoint.meta, log)[i]
                                 ELSE None]]
      BY <3>1 DEF ReadSkills, stores
    <3>3. /\ s.previous = r.previous /\ s.log0 = r.log0
          /\ \A i \in Skills : s.meta[i] = Effective(checkpoint.meta, log)[i]
      BY <1>0, <3>2 DEF Request, Items
    <3>4. r.previous = checkpoint /\ log = r.log0
      BY <1>3, <3>1 DEF Collected
    <3> QED
      BY <2>3, <3>2, <3>3, <3>4 DEF Collected, RebuildSteps, ReplaySteps
  <2>4. CASE p = "save_cp"
    <3>1. ReadPlugins(h) /\ pc[h] = "plugins"
      BY <1>3, <2>4, CollectActions
    <3> DEFINE effective == Effective(checkpoint.meta, log)
               m == [i \in Items |-> IF i \in Plugins THEN effective[i] ELSE r.meta[i]]
    <3>2. UNCHANGED <<checkpoint, log>> /\ req' = [req EXCEPT ![h].meta = m]
      BY <3>1 DEF ReadPlugins, stores
    <3>3. s.previous = r.previous /\ s.log0 = r.log0 /\ s.meta = m
      BY <1>0, <3>2 DEF Request
    <3>4. /\ r.previous = checkpoint /\ log = r.log0
          /\ \A i \in Skills : r.meta[i] = effective[i]
      BY <1>3, <3>1 DEF Collected
    <3>5. m = effective
      BY <1>00, <3>4 DEF Content, Items
    <3> QED
      BY <2>4, <3>2, <3>3, <3>4, <3>5 DEF Collected, RebuildSteps, ReplaySteps
  <2>5. CASE p = "clear"
    <3>1. SaveCheckpoint(h) /\ pc[h] = "save_cp"
      BY <1>3, <2>5, CollectActions
    <3>2. checkpoint'.meta = r.meta /\ UNCHANGED <<req, log>>
      BY <1>0, <1>3, <2>5, <3>1 DEF SaveCheckpoint, Return, Goto
    <3>3. r.previous = checkpoint /\ log = r.log0 /\ r.meta = Effective(checkpoint.meta, log)
      BY <1>3, <3>1 DEF Collected
    <3> QED
      BY <2>5, <3>2, <3>3 DEF Collected, RebuildSteps, ReplaySteps
  <2>6. CASE p \in {"restore", "undo_cp"} \cup RebuildSteps
    <3>1. pc[h] \in {"save", "save_cp", "clear", "undo_cp"} \cup AfterSave
      BY <1>3, <2>6, RestoreActions DEF AfterSave, RebuildSteps, ReplaySteps
    <3>2. s.previous = r.previous /\ s.log0 = r.log0
      BY <1>3, <3>1, HeldKept DEF SameUndo
    <3>3. CASE ClearLog(h) /\ pc[h] = "clear"
      <4>1. UNCHANGED checkpoint /\ log' = <<>>
        BY <1>0, <1>3, <3>3 DEF ClearLog, Return, Goto
      <4>2. checkpoint.meta = Effective(r.previous.meta, r.log0)
        BY <1>3, <3>3 DEF Collected
      <4> QED
        BY <2>6, <3>2, <4>1, <4>2 DEF Collected, RebuildSteps, ReplaySteps
    <3>4. CASE pc[h] \in {"restore"} \cup RebuildSteps /\ UNCHANGED <<checkpoint, log>>
      <4>1. checkpoint.meta = Effective(r.previous.meta, r.log0) /\ log = <<>>
        BY <1>3, <3>4 DEF Collected
      <4> QED
        BY <2>6, <3>2, <3>4, <4>1 DEF Collected, RebuildSteps, ReplaySteps
    <3> QED
      BY <1>3, <2>6, <3>3, <3>4, RestoreActions DEF EditOps, AfterSave, RebuildSteps, ReplaySteps
  <2>7. CASE p = "undo_log"
    <3>1. UndoCheckpoint(h) /\ pc[h] = "undo_cp"
      <4>1. ~(ClearLog(h) /\ pc[h] = "clear")
        BY <1>0, <2>7 DEF ClearLog, Goto, Return
      <4> QED
        BY <1>3, <2>7, <4>1, RestoreActions DEF EditOps, AfterSave
    <3>2. checkpoint' = r.previous /\ UNCHANGED <<req, log>>
      BY <3>1 DEF UndoCheckpoint, Fault
    <3>3. log = <<>>
      BY <1>3, <3>1 DEF Collected
    <3> QED
      BY <2>7, <3>2, <3>3 DEF Collected, RebuildSteps, ReplaySteps
  <2>8. CASE p \notin {"load", "skills", "plugins", "save_cp", "clear", "restore",
                       "undo_cp", "undo_log"} \cup RebuildSteps
    BY <2>8 DEF Collected, RebuildSteps, ReplaySteps
  <2> QED
    BY <2>1, <2>2, <2>3, <2>4, <2>5, <2>6, <2>7, <2>8
<1> QED
  BY <1>1, <1>2, <1>3

LEMMA BeginHolds ==
  ASSUME TypeOK, NEW h \in Handlers, Begin(h)
  PROVE  Holds(h)'
<1>1. PICK r \in Requests :
        /\ pc' = [pc EXCEPT ![h] = FirstStep(r.op)]
        /\ req' = [req EXCEPT ![h] =
              [NoRequest EXCEPT !.op = r.op, !.id = started + 1, !.item = r.item,
                                !.version = r.version, !.source = r.source]]
  BY DEF Begin, Goto
<1>2. pc'[h] = FirstStep(r.op) /\ req'[h].op = r.op
  BY <1>1 DEF TypeOK, NoRequest
<1>3. r.op \in Ops
  BY DEF Requests, Ops
<1>4. Edited(h)'
  BY <1>2, <1>3 DEF Edited, FirstStep, AfterSave, RebuildSteps, ReplaySteps, EditOps, Ops
<1>5. Collected(h)'
  BY <1>2, <1>3 DEF Collected, FirstStep, RebuildSteps, ReplaySteps
<1> QED
  BY <1>4, <1>5 DEF Holds

\* A handler at rest holds nothing.
LEMMA IdleHolds ==
  ASSUME NEW h \in Handlers
  PROVE  (pc[h] = "idle" => Holds(h)) /\ (pc'[h] = "idle" => Holds(h)')
  BY DEF Holds, Edited, Collected, AfterSave, RebuildSteps, ReplaySteps

LEMMA ContractKept ==
  ASSUME ContractInv, ~Overlap, "store" \notin Faults, [Next]_vars
  PROVE  ContractInv'
<1>1. TypeOK /\ Fits
  BY DEF ContractInv, DeployInv
<1>2. ASSUME NEW h \in Handlers, Begin(h) \/ Work(h)
      PROVE  ContractInv'
  <2>1. DeployInv'
    BY <1>2, HandlerInv DEF ContractInv
  <2>2. Single' /\ \A g \in Handlers : g # h => pc'[g] = "idle"
    BY <1>1, <1>2, SingleKept DEF ContractInv
  <2>3. Holds(h)'
    BY <1>1, <1>2, BeginHolds, EditedKept, CollectedKept DEF ContractInv, Holds
  <2>4. \A g \in Handlers : Holds(g)'
    BY <2>2, <2>3, IdleHolds
  <2> QED
    BY <2>1, <2>2, <2>4 DEF ContractInv
<1>3. CASE Crash
  <2>1. DeployInv'
    BY <1>3, CrashInv DEF ContractInv
  <2>2. \A g \in Handlers : pc'[g] = "idle"
    BY <1>3 DEF Crash
  <2> QED
    BY <2>1, <2>2, IdleHolds DEF ContractInv, Single
<1>4. CASE UNCHANGED vars
  <2>1. DeployInv'
    BY <1>4, StutterInv DEF ContractInv
  <2>2. Single' /\ \A g \in Handlers : Holds(g)'
    BY <1>4 DEF vars, ContractInv, Single, Holds, Edited, Collected
  <2> QED
    BY <2>1, <2>2 DEF ContractInv
<1> QED
  BY <1>2, <1>3, <1>4 DEF Next

LEMMA InitContract == Init => ContractInv
<1> SUFFICES ASSUME Init PROVE ContractInv
  OBVIOUS
<1>1. \A h \in Handlers : pc[h] = "idle"
  BY DEF Init
<1> QED
  BY <1>1, InitInv, IdleHolds DEF ContractInv, Single
-----------------------------------------------------------------------------
(* The steps of the contract *)

\* What one handler makes of the declared content and the current item.
DeclaredBy(h) ==
    IF UndoingCheckpoint(h)
    THEN Effective(req[h].previous.meta, req[h].log0)
    ELSE EffectiveState

CurrentBy(h) == IF pc[h] = "idle" THEN NoCurrent ELSE req[h].item

\* When the others are at rest, it decides.
LEMMA OneRequest ==
  ASSUME NEW h \in Handlers,
         \A g \in Handlers : g # h => pc[g] = "idle" /\ pc'[g] = "idle"
  PROVE  /\ Declared = DeclaredBy(h) /\ Current = CurrentBy(h)
         /\ Declared' = DeclaredBy(h)' /\ Current' = CurrentBy(h)'
<1> USE DEF At
<1>1. Declared = DeclaredBy(h)
  BY DEF Declared, DeclaredBy, UndoingCheckpoint
<1>2. Declared' = DeclaredBy(h)'
  BY DEF Declared, DeclaredBy, UndoingCheckpoint
<1>3. Current = CurrentBy(h)
  BY DEF Current, CurrentBy, Quiescent
<1>4. Current' = CurrentBy(h)'
  BY DEF Current, CurrentBy, Quiescent
<1> QED
  BY <1>1, <1>2, <1>3, <1>4

\* Only the last step of an undo starts with the checkpoint back.
LEMMA UndoStep ==
  ASSUME NEW h \in Handlers, Work(h), pc[h] = "undo_log"
  PROVE  UndoLog(h)
<1> USE DEF At
<1>1. CASE \/ ReadBaseline(h) \/ ReadEffective(h) \/ Backup(h) \/ StagePackage(h)
           \/ PackPlugin(h) \/ InstallPlugin(h) \/ LoadLog(h) \/ SaveLog(h)
  BY <1>1 DEF ReadBaseline, ReadEffective, Backup, StagePackage, PackPlugin,
              InstallPlugin, LoadLog, SaveLog
<1>2. CASE \/ Capture(h) \/ LoadPrevious(h) \/ ReadSkills(h) \/ ReadPlugins(h)
           \/ SaveCheckpoint(h) \/ ClearLog(h)
  BY <1>2 DEF Capture, LoadPrevious, ReadSkills, ReadPlugins, SaveCheckpoint, ClearLog
<1>3. CASE \/ LoadBaseline(h) \/ Reset(h) \/ CopySnapshot(h) \/ Up(h)
           \/ LoadReplay(h) \/ ReplayEvent(h) \/ Repack(h) \/ Reinstall(h) \/ RecordDeploy(h)
  BY <1>3 DEF LoadBaseline, Reset, CopySnapshot, Up, LoadReplay, ReplayEvent, Repack,
              Reinstall, RecordDeploy
<1>4. CASE AppendRecord(h) \/ UndoCheckpoint(h) \/ Unwind(h)
  BY <1>4 DEF AppendRecord, UndoCheckpoint, Unwind
<1> QED
  BY <1>1, <1>2, <1>3, <1>4 DEF Work

\* A step on an edit changes the edited item, a step on anything else nothing.
LEMMA WorkDeclares ==
  ASSUME ContractInv, "store" \notin Faults, NEW h \in Handlers, Work(h)
  PROVE  \/ DeclaredBy(h)' = DeclaredBy(h)
         \/ /\ req[h].item \in Items
            /\ \A i \in Items : i # req[h].item => DeclaredBy(h)'[i] = DeclaredBy(h)[i]
<1> DEFINE r == req[h]
<1>0. /\ TypeOK /\ Fits /\ Edited(h) /\ Collected(h)
      /\ pc \in [Handlers -> Steps] /\ r \in Request /\ log \in Log
      /\ checkpoint.meta \in Content /\ r.previous.meta \in Content /\ r.log0 \in Log
      /\ pc[h] # "idle" /\ OpFits(pc[h], r.op) /\ ArgumentsFit(r)
  BY Working DEF ContractInv, DeployInv, TypeOK, Holds, Checkpoint, Request, Fits
<1>00. r.op \in EditOps => r.item \in Items
  BY <1>0 DEF ArgumentsFit, EditOps, Ops, Items
<1>1. CASE SaveLog(h)
  <2>1. pc[h] = "save" /\ pc'[h] = "restore" /\ UNCHANGED checkpoint /\ log' = EditedLog(r)
    BY <1>0, <1>1 DEF SaveLog, At, Goto, Fault
  <2>2. log = r.log0 /\ r.op \in EditOps /\ Findable(r)
    BY <1>0, <2>1 DEF Edited, OpFits, Fits
  <2>3. /\ DeclaredBy(h) = Effective(checkpoint.meta, r.log0)
        /\ DeclaredBy(h)' = Effective(checkpoint.meta, EditedLog(r))
    BY <2>1, <2>2 DEF DeclaredBy, UndoingCheckpoint, At, EffectiveState
  <2> QED
    BY <1>0, <1>00, <2>2, <2>3, EditedChangesItem
<1>2. CASE UndoLog(h)
  <2>1. pc[h] = "undo_log" /\ pc'[h] # "undo_log" /\ UNCHANGED checkpoint /\ log' = r.log0
    BY <1>0, <1>2 DEF UndoLog, At, Goto, Return, Fault
  <2>2. DeclaredBy(h)' = Effective(checkpoint.meta, r.log0)
    BY <2>1 DEF DeclaredBy, UndoingCheckpoint, At, EffectiveState
  <2>3. CASE r.op = "checkpoint"
    <3>1. checkpoint = r.previous
      BY <1>0, <2>1, <2>3 DEF Collected
    <3> QED
      BY <2>1, <2>2, <2>3, <3>1 DEF DeclaredBy, UndoingCheckpoint, At
  <2>4. CASE r.op # "checkpoint"
    <3>1. r.op \in EditOps
      BY <1>0, <2>1, <2>4 DEF OpFits, EditOps, DeploySteps
    <3>2. log = EditedLog(r) /\ Findable(r)
      BY <1>0, <2>1, <3>1 DEF Edited, AfterSave
    <3>3. DeclaredBy(h) = Effective(checkpoint.meta, EditedLog(r))
      BY <2>4, <3>2 DEF DeclaredBy, UndoingCheckpoint, EffectiveState
    <3> QED
      BY <1>0, <1>00, <2>2, <3>1, <3>2, <3>3, EditedChangesItem
  <2> QED
    BY <2>3, <2>4
<1>3. CASE SaveCheckpoint(h)
  <2>1. /\ pc[h] = "save_cp" /\ pc'[h] = "clear" /\ UNCHANGED log
        /\ checkpoint'.meta = r.meta
    BY <1>0, <1>3 DEF SaveCheckpoint, At, Goto, Fault
  <2>2. r.meta = Effective(checkpoint.meta, log)
    BY <1>0, <2>1 DEF Collected, OpFits, CheckpointSteps
  <2>3. /\ DeclaredBy(h) = Effective(checkpoint.meta, log)
        /\ DeclaredBy(h)' = Effective(Effective(checkpoint.meta, log), log)
    BY <2>1, <2>2 DEF DeclaredBy, UndoingCheckpoint, At, EffectiveState
  <2> QED
    BY <1>0, <2>3, EffectiveTwice
<1>4. CASE ClearLog(h)
  <2>1. pc[h] = "clear" /\ pc'[h] = "restore" /\ UNCHANGED checkpoint /\ log' = <<>>
    BY <1>0, <1>4 DEF ClearLog, At, Goto, Fault
  <2>2. log = r.log0 /\ checkpoint.meta = Effective(r.previous.meta, r.log0)
    BY <1>0, <2>1 DEF Collected, OpFits, CheckpointSteps
  <2>3. /\ DeclaredBy(h) = Effective(checkpoint.meta, log)
        /\ DeclaredBy(h)' = Effective(checkpoint.meta, <<>>)
    BY <2>1 DEF DeclaredBy, UndoingCheckpoint, At, EffectiveState
  <2>4. DeclaredBy(h) = checkpoint.meta
    BY <1>0, <2>2, <2>3, EffectiveTwice
  <2>5. DeclaredBy(h)' = checkpoint.meta
    BY <1>0, <2>3, EffectiveOfEmpty
  <2> QED
    BY <2>4, <2>5
<1>5. CASE UndoCheckpoint(h)
  <2>1. pc[h] = "undo_cp" /\ pc'[h] = "undo_log" /\ UNCHANGED <<log, req>>
    BY <1>0, <1>5 DEF UndoCheckpoint, At, Goto
  <2>2. /\ r.op = "checkpoint" /\ log = <<>>
        /\ checkpoint.meta = Effective(r.previous.meta, r.log0)
    BY <1>0, <2>1 DEF Collected, OpFits, CheckpointSteps
  <2>3. DeclaredBy(h)' = Effective(r.previous.meta, r.log0)
    BY <2>1, <2>2 DEF DeclaredBy, UndoingCheckpoint, At
  <2>4. DeclaredBy(h) = Effective(checkpoint.meta, <<>>)
    BY <2>1, <2>2 DEF DeclaredBy, UndoingCheckpoint, At, EffectiveState
  <2> QED
    BY <1>0, <2>2, <2>3, <2>4, EffectiveOfEmpty
<1>6. CASE ~(SaveLog(h) \/ UndoLog(h) \/ SaveCheckpoint(h) \/ ClearLog(h) \/ UndoCheckpoint(h))
  <2>1. UNCHANGED <<checkpoint, log>>
    BY <1>6, CheckpointWriters, LogWriters
  <2>2. pc[h] # "undo_log"
    BY <1>6, UndoStep
  <2>3. ~(pc'[h] = "undo_log" /\ req'[h].op = "checkpoint")
    <3> SUFFICES ASSUME pc'[h] = "undo_log", req'[h].op = "checkpoint" PROVE FALSE
      OBVIOUS
    <3>1. r.op = "checkpoint"
      BY <1>0, RequestKept DEF SameRequest
    <3> QED
      BY <1>0, <1>6, <3>1, RestoreActions DEF AfterSave
  <2> QED
    BY <2>1, <2>2, <2>3 DEF DeclaredBy, UndoingCheckpoint, At, EffectiveState
<1> QED
  BY <1>1, <1>2, <1>3, <1>4, <1>5, <1>6

LEMMA DeclaredType ==
  ASSUME TypeOK, NEW h \in Handlers
  PROVE  DeclaredBy(h) \in Content
<1>1. /\ checkpoint.meta \in Content /\ log \in Log
      /\ req[h].previous.meta \in Content /\ req[h].log0 \in Log
  BY DEF TypeOK, Checkpoint, Request
<1> QED
  BY <1>1, EffectiveType DEF DeclaredBy, EffectiveState

LEMMA DeclaredTypeNext ==
  ASSUME TypeOK', NEW h \in Handlers
  PROVE  DeclaredBy(h)' \in Content
<1>1. /\ checkpoint'.meta \in Content /\ log' \in Log
      /\ req'[h].previous.meta \in Content /\ req'[h].log0 \in Log
  BY DEF TypeOK, Checkpoint, Request
<1> QED
  BY <1>1, EffectiveType DEF DeclaredBy, EffectiveState

\* A kill between the two writes by which a failed checkpoint is undone.
CutUndo == Crash /\ \E h \in Handlers : UndoingCheckpoint(h)

\* Every other step of the gateway is a step of the contract or a stutter.
LEMMA ContractStep ==
  ASSUME ContractInv, ContractInv', ~Overlap, "store" \notin Faults, ~CutUndo,
         [Next]_vars
  PROVE  [Contract!Next]_<<Declared, Current>>
<1>0. TypeOK /\ Fits /\ Single /\ TypeOK'
  BY DEF ContractInv, DeployInv
<1>1. ASSUME NEW h \in Handlers, Begin(h)
      PROVE  Contract!Next
  <2>1. /\ Declared = DeclaredBy(h) /\ Current = CurrentBy(h)
        /\ Declared' = DeclaredBy(h)' /\ Current' = CurrentBy(h)'
    BY <1>0, <1>1, SingleKept, OneRequest
  <2>2. pc[h] = "idle" /\ UNCHANGED <<checkpoint, log>>
    BY <1>1 DEF Begin, At, stores
  <2>3. pc'[h] \notin {"idle", "undo_log"} /\ req'[h].item \in Items \cup {None}
    <3>1. PICK q \in Requests : pc' = [pc EXCEPT ![h] = FirstStep(q.op)]
      BY <1>1 DEF Begin, Goto
    <3>2. pc'[h] = FirstStep(q.op)
      BY <1>0, <3>1 DEF TypeOK
    <3> QED
      BY <1>0, <3>2 DEF FirstStep, TypeOK, Request
  <2>4. UNCHANGED Declared /\ Current = NoCurrent
    BY <2>1, <2>2, <2>3 DEF DeclaredBy, CurrentBy, UndoingCheckpoint, At, EffectiveState
  <2>5. PICK subject \in Items \cup {None} : subject = req'[h].item
    BY <2>3
  <2>6. Contract!Start(subject)
    BY <2>1, <2>3, <2>4, <2>5 DEF Contract!Start, CurrentBy
  <2> QED
    BY <2>6 DEF Contract!Next
<1>2. ASSUME NEW h \in Handlers, Work(h)
      PROVE  [Contract!Next]_<<Declared, Current>>
  <2>1. /\ Declared = DeclaredBy(h) /\ Current = CurrentBy(h)
        /\ Declared' = DeclaredBy(h)' /\ Current' = CurrentBy(h)'
    BY <1>0, <1>2, SingleKept, OneRequest
  <2>2. pc[h] # "idle" /\ req[h].item \in Items \cup {None}
    BY <1>0, <1>2, Working DEF TypeOK, Request
  <2>3. Current = req[h].item /\ Current # NoCurrent
    BY <2>1, <2>2, CurrentAssumption DEF CurrentBy
  <2>4. \/ pc'[h] = "idle" /\ Current' = NoCurrent
        \/ pc'[h] # "idle" /\ Current' = Current
    BY <1>0, <1>2, <2>1, <2>3, RequestKept DEF CurrentBy, SameRequest
  <2>5. CASE UNCHANGED Declared
    <3>1. CASE pc'[h] # "idle"
      BY <2>4, <2>5, <3>1
    <3>2. CASE pc'[h] = "idle"
      <4>1. Contract!End
        BY <2>3, <2>4, <2>5, <3>2 DEF Contract!End
      <4> QED
        BY <4>1 DEF Contract!Next
    <3> QED
      BY <3>1, <3>2
  <2>6. CASE /\ req[h].item \in Items
             /\ \A i \in Items : i # req[h].item => Declared'[i] = Declared[i]
    <3>1. Declared \in Content /\ Declared' \in Content
      BY <1>0, <2>1, DeclaredType, DeclaredTypeNext
    <3>2. PICK i \in Items, v \in Versions \cup {None} :
             i = req[h].item /\ v = Declared'[req[h].item]
      BY <2>6, <3>1 DEF Content
    <3>3. Declared' = [Declared EXCEPT ![i] = v]
      BY <2>6, <3>1, <3>2 DEF Content
    <3>4. CASE pc'[h] # "idle"
      <4>1. Contract!Edit(i, v)
        BY <2>3, <2>4, <3>2, <3>3, <3>4 DEF Contract!Edit
      <4> QED
        BY <4>1 DEF Contract!Next
    <3>5. CASE pc'[h] = "idle"
      <4>1. Contract!End
        BY <2>3, <2>4, <3>2, <3>3, <3>5 DEF Contract!End
      <4> QED
        BY <4>1 DEF Contract!Next
    <3> QED
      BY <3>4, <3>5
  <2> QED
    BY <1>2, <2>1, <2>5, <2>6, WorkDeclares
<1>3. ASSUME Crash
      PROVE  Contract!Next
  <2>1. PICK h \in Handlers : pc[h] # "idle"
    BY <1>3 DEF Crash, At
  <2>2. /\ \A g \in Handlers : pc'[g] = "idle"
        /\ UNCHANGED <<checkpoint, log>>
    BY <1>3 DEF Crash, stores
  <2>3. \A g \in Handlers : g # h => pc[g] = "idle" /\ pc'[g] = "idle"
    BY <1>0, <2>1, <2>2 DEF Single
  <2>4. /\ Declared = DeclaredBy(h) /\ Current = CurrentBy(h)
        /\ Declared' = DeclaredBy(h)' /\ Current' = CurrentBy(h)'
    BY <2>3, OneRequest
  <2>5. ~UndoingCheckpoint(h)
    BY <1>3 DEF CutUndo
  <2>6. UNCHANGED Declared
    BY <2>2, <2>4, <2>5 DEF DeclaredBy, UndoingCheckpoint, At, EffectiveState
  <2>7. Current # NoCurrent /\ Current' = NoCurrent
    BY <1>0, <2>1, <2>2, <2>4, CurrentAssumption DEF CurrentBy, TypeOK, Request
  <2>8. Contract!End
    BY <2>6, <2>7 DEF Contract!End
  <2> QED
    BY <2>8 DEF Contract!Next
<1>4. CASE UNCHANGED vars
  BY <1>4 DEF vars, Declared, Current, UndoingCheckpoint, At, Quiescent, EffectiveState
<1> QED
  BY <1>1, <1>2, <1>3, <1>4 DEF Next

\* One request at a time and with a store whose writes succeed, every step of
\* the gateway is one RuntimeContract allows, whatever else fails and whenever
\* the gateway is killed; but for a kill between the two writes by which a failed
\* checkpoint is undone (runtime_state.go:1187).
THEOREM OnlyCutUndoBreaksContract ==
  ASSUME ~Overlap, "store" \notin Faults
  PROVE  Spec => [][Contract!Next \/ CutUndo]_(Contract!contractVars)
<1>1. ContractInv /\ [Next]_vars => ContractInv'
  BY ContractKept
<1>2. ContractInv /\ ContractInv' /\ [Next]_vars
      => [Contract!Next \/ CutUndo]_(Contract!contractVars)
  BY ContractStep DEF Contract!contractVars
<1> QED
  BY InitContract, <1>1, <1>2, PTL DEF Spec
-----------------------------------------------------------------------------
(* What a recorded request has done *)

\* A handler at rest has no locals.
Blank == \A h \in Handlers : pc[h] = "idle" => req[h] = NoRequest

\* What an operation about to record its success has done.
Recording(h) ==
    pc[h] = "append" =>
        /\ component = RebuiltState
        /\ req[h].op \in EditOps => log = EditedLog(req[h]) /\ Findable(req[h])

\* What the remove of a plugin knows of the checkpoint.
BaseRead(h) ==
    (req[h].op = "plugin_remove" /\ pc[h] \in {"save", "append"} \cup AfterSave)
    => req[h].base = checkpoint.meta[req[h].item]

RecordInv ==
    /\ DeployInv /\ RebuildInv /\ Blank
    /\ \A h \in Handlers : Edited(h) /\ Recording(h) /\ BaseRead(h)

LEMMA BeginBusy ==
  ASSUME TypeOK, NEW h \in Handlers, Begin(h)
  PROVE  pc'[h] \in {"baseline", "load", "backup", "effective", "capture", "restore"}
<1>1. PICK r \in Requests : pc' = [pc EXCEPT ![h] = FirstStep(r.op)]
  BY DEF Begin, Goto
<1> QED
  BY <1>1 DEF TypeOK, FirstStep

LEMMA BlankKept ==
  ASSUME TypeOK, Blank, [Next]_vars
  PROVE  Blank'
<1>1. ASSUME NEW h \in Handlers, Begin(h) \/ Work(h)
      PROVE  Blank'
  <2>1. pc'[h] = "idle" => req'[h] = NoRequest
    BY <1>1, BeginBusy, RequestKept
  <2> QED
    BY <1>1, <2>1, OthersAlone DEF Blank
<1>2. CASE Crash
  BY <1>2 DEF Crash, Blank
<1>3. CASE UNCHANGED vars
  BY <1>3 DEF vars, Blank
<1> QED
  BY <1>1, <1>2, <1>3 DEF Next

\* An operation records its success after its deploy only.
LEMMA AppendActions ==
  ASSUME TypeOK, NEW h \in Handlers, Work(h), pc'[h] = "append"
  PROVE  /\ RecordDeploy(h) /\ pc[h] = "replay" /\ req[h].todo = {}
         /\ UNCHANGED <<req, checkpoint, log, component>>
<1>0. pc \in [Handlers -> Steps]
  BY DEF TypeOK
<1> USE DEF At, Goto, Return
<1>1. CASE \/ ReadBaseline(h) \/ ReadEffective(h) \/ Backup(h) \/ StagePackage(h)
           \/ PackPlugin(h) \/ InstallPlugin(h) \/ LoadLog(h) \/ SaveLog(h)
  BY <1>0, <1>1 DEF ReadBaseline, ReadEffective, Backup, StagePackage, PackPlugin,
              InstallPlugin, LoadLog, SaveLog
<1>2. CASE \/ Capture(h) \/ LoadPrevious(h) \/ ReadSkills(h) \/ ReadPlugins(h)
           \/ SaveCheckpoint(h) \/ ClearLog(h)
  BY <1>0, <1>2
  DEF Capture, LoadPrevious, ReadSkills, ReadPlugins, SaveCheckpoint, ClearLog
<1>3. CASE \/ LoadBaseline(h) \/ Reset(h) \/ CopySnapshot(h) \/ Up(h) \/ LoadReplay(h)
  BY <1>0, <1>3 DEF LoadBaseline, Reset, CopySnapshot, Up, LoadReplay, DeployFailed
<1>4. CASE ReplayEvent(h) \/ Repack(h) \/ Reinstall(h)
  <2>1. pc[h] \in ReplaySteps /\ (pc'[h] \in ReplaySteps \/ DeployFailed(h))
    BY <1>4, Replaying
  <2> QED
    BY <1>0, <2>1 DEF DeployFailed, ReplaySteps
<1>5. CASE RecordDeploy(h)
  BY <1>0, <1>5 DEF RecordDeploy, DeployFailed
<1>6. CASE AppendRecord(h) \/ UndoCheckpoint(h) \/ UndoLog(h) \/ Unwind(h)
  BY <1>0, <1>6 DEF AppendRecord, UndoCheckpoint, UndoLog, Unwind
<1> QED
  BY <1>1, <1>2, <1>3, <1>4, <1>5, <1>6 DEF Work

LEMMA RecordingKept ==
  ASSUME DeployInv, NEW h \in Handlers, Work(h), Rebuilding(h), Edited(h)
  PROVE  Recording(h)'
<1>0. TypeOK
  BY DEF DeployInv
<1> SUFFICES ASSUME pc'[h] = "append"
             PROVE  /\ component' = RebuiltState'
                    /\ req'[h].op \in EditOps =>
                          log' = EditedLog(req'[h]) /\ Findable(req'[h])
  BY DEF Recording
<1>1. /\ RecordDeploy(h) /\ pc[h] = "replay" /\ req[h].todo = {}
      /\ UNCHANGED <<req, checkpoint, log, component>>
  BY <1>0, AppendActions
<1>2. /\ req[h].snapshot = checkpoint.snapshot /\ req[h].events = log
      /\ Progress(req[h], component)
  BY <1>1 DEF Rebuilding, RebuildSteps, ReplaySteps
<1>3. req[h] \in Request /\ component \in Content
  BY <1>0 DEF TypeOK
<1>4. component = Effective(req[h].snapshot, req[h].events)
  BY <1>1, <1>2, <1>3, ProgressEnd
<1>5. component' = RebuiltState'
  BY <1>1, <1>2, <1>4 DEF RebuiltState
<1>6. req[h].op \in EditOps => log = EditedLog(req[h]) /\ Findable(req[h])
  BY <1>1 DEF Edited, AfterSave, RebuildSteps, ReplaySteps
<1> QED
  BY <1>1, <1>5, <1>6

LEMMA BaseReadKept ==
  ASSUME TypeOK, Fits, NEW h \in Handlers, Work(h), BaseRead(h)
  PROVE  BaseRead(h)'
<1>0. /\ pc \in [Handlers -> Steps] /\ req \in [Handlers -> Request]
      /\ OpFits(pc[h], req[h].op)
  BY Working DEF TypeOK, Fits
<1> SUFFICES ASSUME req'[h].op = "plugin_remove",
                    pc'[h] \in {"save", "append"} \cup AfterSave
             PROVE  req'[h].base = checkpoint'.meta[req'[h].item]
  BY DEF BaseRead
<1>1. pc'[h] # "idle" /\ SameRequest(h) /\ req[h].op = "plugin_remove"
  BY RequestKept DEF NoRequest, SameRequest
<1>2. UNCHANGED checkpoint
  <2>1. ~SaveCheckpoint(h) /\ ~UndoCheckpoint(h)
    BY <1>0, <1>1 DEF SaveCheckpoint, UndoCheckpoint, At, OpFits, CheckpointSteps
  <2> QED
    BY <2>1, CheckpointWriters
<1>3. CASE pc'[h] = "save"
  <2>1. ~LoadLog(h)
    BY <1>0, <1>1, <1>3 DEF LoadLog, Goto, Return
  <2>2. ReadBaseline(h)
    BY <1>1, <1>3, <2>1, SaveActions
  <2>3. req' = [req EXCEPT ![h].base = checkpoint.meta[req[h].item]]
    BY <1>0, <1>1, <1>3, <2>2 DEF ReadBaseline, Goto, Return
  <2>4. req'[h].base = checkpoint.meta[req[h].item]
    BY <1>0, <2>3 DEF Request
  <2> QED
    BY <1>1, <1>2, <2>4 DEF SameRequest
<1>4. CASE pc'[h] \in AfterSave
  <2>1. pc[h] \in {"save"} \cup AfterSave
    BY <1>1, <1>4, RestoreActions DEF AfterSave
  <2>2. req'[h].base = req[h].base
    BY <1>1, <2>1, HeldKept DEF SameEdit
  <2> QED
    BY <1>1, <1>2, <2>1, <2>2 DEF BaseRead, SameRequest
<1>5. CASE pc'[h] = "append"
  BY <1>1, <1>2, <1>5, AppendActions DEF BaseRead, AfterSave, RebuildSteps, ReplaySteps
<1> QED
  BY <1>3, <1>4, <1>5

LEMMA IdleRecords ==
  ASSUME NEW h \in Handlers
  PROVE  pc'[h] = "idle" => Edited(h)' /\ Recording(h)' /\ BaseRead(h)'
  BY DEF Edited, Recording, BaseRead, AfterSave, RebuildSteps, ReplaySteps

LEMMA BeginRecords ==
  ASSUME TypeOK, NEW h \in Handlers, Begin(h)
  PROVE  Edited(h)' /\ Recording(h)' /\ BaseRead(h)'
<1>1. Edited(h)'
  BY BeginHolds DEF Holds
<1>2. PICK r \in Requests :
        /\ pc' = [pc EXCEPT ![h] = FirstStep(r.op)]
        /\ req' = [req EXCEPT ![h] =
              [NoRequest EXCEPT !.op = r.op, !.id = started + 1, !.item = r.item,
                                !.version = r.version, !.source = r.source]]
  BY DEF Begin, Goto
<1>3. pc'[h] = FirstStep(r.op) /\ req'[h].op = r.op
  BY <1>2 DEF TypeOK, NoRequest
<1>4. Recording(h)' /\ BaseRead(h)'
  BY <1>3 DEF Recording, BaseRead, FirstStep, AfterSave, RebuildSteps, ReplaySteps
<1> QED
  BY <1>1, <1>4

LEMMA RecordKept ==
  ASSUME RecordInv, ~Overlap, [Next]_vars
  PROVE  RecordInv'
<1>0. TypeOK /\ Fits
  BY DEF RecordInv, DeployInv
<1>1. DeployInv'
  BY HandlerInv, CrashInv, StutterInv DEF RecordInv, Next
<1>2. RebuildInv' /\ Blank'
  BY <1>0, RebuildKept, BlankKept DEF RecordInv
<1>3. ASSUME NEW h \in Handlers, Begin(h) \/ Work(h)
      PROVE  \A g \in Handlers : Edited(g)' /\ Recording(g)' /\ BaseRead(g)'
  <2>1. \A g \in Handlers : g # h => pc'[g] = "idle"
    BY <1>0, <1>3, SingleKept DEF RecordInv, RebuildInv
  <2>2. Edited(h)' /\ Recording(h)' /\ BaseRead(h)'
    BY <1>0, <1>3, BeginRecords, EditedKept, RecordingKept, BaseReadKept DEF RecordInv, RebuildInv
  <2> QED
    BY <2>1, <2>2, IdleRecords
<1>4. CASE Crash
  BY <1>4, <1>1, <1>2, IdleRecords DEF Crash, RecordInv
<1>5. CASE UNCHANGED vars
  <2>1. \A g \in Handlers : Edited(g)' /\ Recording(g)' /\ BaseRead(g)'
    BY <1>5 DEF vars, RecordInv, Edited, Recording, BaseRead, RebuiltState
  <2> QED
    BY <1>1, <1>2, <2>1 DEF RecordInv
<1> QED
  BY <1>1, <1>2, <1>3, <1>4, <1>5 DEF Next, RecordInv

LEMMA InitRecord == Init => RecordInv
<1> SUFFICES ASSUME Init PROVE RecordInv
  OBVIOUS
<1>1. \A h \in Handlers : pc[h] = "idle" /\ req[h] = NoRequest
  BY DEF Init
<1>2. \A h \in Handlers : Edited(h) /\ Recording(h) /\ BaseRead(h)
  BY <1>1 DEF Edited, Recording, BaseRead, AfterSave, RebuildSteps, ReplaySteps
<1> QED
  BY <1>1, <1>2, InitInv, InitRebuild DEF RecordInv, Blank

\* An appended event is the last of its item.
LEMMA AppendDecides ==
  ASSUME NEW base, NEW events \in Log, NEW e \in Event
  PROVE  Effective(base, Append(events, e))[e.item] = e.version
<1> DEFINE new == Append(events, e)
           n == Len(events) + 1
<1>1. new \in Log /\ e.item \in Items
  BY EventFields DEF Log
<1>2. n \in DOMAIN new /\ new[n] = e /\ \A j \in DOMAIN new : j <= n
  BY DEF Log
<1>3. IsLast(new, e.item, n)
  BY <1>1, <1>2 DEF IsLast, Log
<1> HIDE DEF new, n
<1>4. Effective(base, new)[e.item] = new[n].version
  BY <1>1, <1>2, <1>3, LastDecides
<1> QED
  BY <1>2, <1>4 DEF new

\* Effect of a remove on the item: gone, as before the log, or the last install
\* that is left.
LEMMA LeftDecides ==
  ASSUME NEW base, NEW events \in Log, NEW i \in Items,
         \A k \in DOMAIN events : ~(IsLast(events, i, k) /\ events[k].type = "plugin_install"),
         i \in Plugins
  PROVE  Effective(base, events)[i] \in {None, base[i]}
<1>1. CASE \E k \in DOMAIN events : IsLast(events, i, k)
  <2>1. PICK k \in DOMAIN events : IsLast(events, i, k)
    BY <1>1
  <2>2. events[k] \in Event /\ events[k].item = i /\ events[k].type # "plugin_install"
    BY <2>1 DEF Log, IsLast
  <2>3. events[k].version = None
    BY <2>2, EventFields DEF EventTypes, IsPluginEvent
  <2> QED
    BY <2>1, <2>3, LastDecides
<1>2. CASE ~\E k \in DOMAIN events : IsLast(events, i, k)
  BY <1>2, NoneDecides
<1> QED
  BY <1>1, <1>2

LEMMA EditTakesEffect ==
  ASSUME NEW r \in Request, r.op \in EditOps, ArgumentsFit(r), Findable(r), NEW base
  PROVE  /\ r.op \in Installs => Effective(base, EditedLog(r))[r.item] = r.version
         /\ r.op = "plugin_remove" /\ r.base # None =>
               Effective(base, EditedLog(r))[r.item] = None
<1>1. r.log0 \in Log /\ r.source \in Sources /\ r.id \in Nat
  BY DEF Request
<1>2. CASE r.op \in Installs
  <2>1. /\ NewEvent(r) \in SkillInstall \cup PluginInstall
        /\ NewEvent(r).item = r.item /\ NewEvent(r).version = r.version
    BY <1>1, <1>2 DEF NewEvent, Installs, ArgumentsFit, SkillInstall, PluginInstall
  <2>2. EditedLog(r) = Append(r.log0, NewEvent(r))
    BY <1>2 DEF EditedLog, Installs
  <2>3. NewEvent(r) \in Event
    BY <2>1 DEF Event
  <2>4. Effective(base, EditedLog(r))[NewEvent(r).item] = NewEvent(r).version
    BY <1>1, <2>2, <2>3, AppendDecides
  <2> QED
    BY <1>2, <2>1, <2>4 DEF Installs
<1>3. CASE r.op = "plugin_remove" /\ r.base # None
  <2>1. /\ NewEvent(r) \in PluginRemove
        /\ NewEvent(r).item = r.item /\ NewEvent(r).version = None
    BY <1>1, <1>3 DEF NewEvent, ArgumentsFit, PluginRemove
  <2>2. EditedLog(r) = Append(r.log0, NewEvent(r))
    BY <1>3 DEF EditedLog
  <2>3. NewEvent(r) \in Event
    BY <2>1 DEF Event
  <2>4. Effective(base, EditedLog(r))[NewEvent(r).item] = NewEvent(r).version
    BY <1>1, <2>2, <2>3, AppendDecides
  <2> QED
    BY <1>3, <2>1, <2>4 DEF Installs
<1> QED
  BY <1>2, <1>3

\* A request recorded as a success has its change in effect, whatever failed or
\* was killed before (RuntimeSkillDeploy, RuntimePluginInstall, RuntimePluginRemove).
THEOREM RecordedChangesAreEffective ==
  ASSUME ~Overlap
  PROVE  Spec => RecordedChangeIsEffective
<1> DEFINE Done1(h) ==
      /\ req[h].op \in Installs => EffectiveState'[req[h].item] = req[h].version
      /\ (/\ req[h].op = "plugin_remove"
          /\ checkpoint.snapshot[req[h].item] = checkpoint.meta[req[h].item])
         => \/ component'[req[h].item] = None
            \/ \E k \in DOMAIN log :
                  IsLast(log, req[h].item, k) /\ log[k].type = "plugin_install"
    Recorded == \A h \in Handlers :
      <<req[h].id, "success">> \in history' \ history => Done1(h)
<1>1. ASSUME RecordInv, Next
      PROVE  Recorded
  <2>1. SUFFICES ASSUME NEW h \in Handlers, <<req[h].id, "success">> \in history' \ history
                 PROVE  Done1(h)
    OBVIOUS
  <2>2. PICK g \in Handlers : Begin(g) \/ Work(g)
    BY <1>1, <2>1 DEF Next, Crash, stores
  <2>3. AppendRecord(g)
    <3>1. ~(UNCHANGED history) /\ ~RecordDeploy(g)
      BY <2>1 DEF RecordDeploy
    <3> QED
      BY <2>2, <3>1, HistoryWriters
  <2>4. /\ pc[g] = "append" /\ UNCHANGED <<component, log, checkpoint>>
        /\ req[h].id = req[g].id
    BY <2>1, <2>3 DEF AppendRecord, At
  <2>5. req[g].id \in RequestIds /\ ArgumentsFit(req[g])
    BY <1>1, <2>4 DEF RecordInv, DeployInv, Fits, ArgumentsFit
  <2>6. h = g
    <3>1. req[h].id # 0
      BY <2>4, <2>5, BoundsAssumption DEF RequestIds
    <3>2. pc[h] # "idle"
      BY <1>1, <3>1 DEF RecordInv, Blank, NoRequest
    <3> QED
      BY <1>1, <2>4, <3>2 DEF RecordInv, RebuildInv, Single
  <2> DEFINE r == req[g]
  <2>7. /\ r \in Request /\ log \in Log /\ component = Effective(checkpoint.snapshot, log)
        /\ r.op \in EditOps => log = EditedLog(r) /\ Findable(r)
        /\ r.op = "plugin_remove" => r.base = checkpoint.meta[r.item]
    BY <1>1, <2>4
    DEF RecordInv, DeployInv, TypeOK, Recording, BaseRead, RebuiltState
  <2>8. r.op \in Installs => Effective(checkpoint.meta, log)[r.item] = r.version
    BY <2>5, <2>7, EditTakesEffect DEF EditOps, Installs, Ops
  <2>9. ASSUME r.op = "plugin_remove", checkpoint.snapshot[r.item] = checkpoint.meta[r.item],
               \A k \in DOMAIN log :
                  ~(IsLast(log, r.item, k) /\ log[k].type = "plugin_install")
        PROVE  component[r.item] = None
    <3>1. r.op \in EditOps /\ r.item \in Plugins /\ r.item \in Items
      BY <2>5, <2>9 DEF EditOps, Ops, ArgumentsFit, Items
    <3>2. CASE r.base # None
      BY <2>5, <2>7, <2>9, <3>1, <3>2, EditTakesEffect
    <3>3. CASE r.base = None
      BY <2>7, <2>9, <3>1, <3>3, LeftDecides
    <3> QED
      BY <3>2, <3>3
  <2> QED
    BY <2>4, <2>6, <2>8, <2>9 DEF EffectiveState
<1>2. RecordInv /\ [Next]_vars => RecordInv'
  BY RecordKept
<1>3. RecordInv /\ [Next]_vars => [Recorded]_history
  BY <1>1 DEF vars
<1> QED
  BY InitRecord, <1>2, <1>3, PTL DEF Spec, RecordedChangeIsEffective
-----------------------------------------------------------------------------
(* The packages of the log *)

\* An event of the log, or of one a request goes on to save or to replay.
Known(e) ==
    \/ \E k \in DOMAIN log : log[k] = e
    \/ \E h \in Handlers : \E k \in DOMAIN req[h].log0 : req[h].log0[k] = e
    \/ \E h \in Handlers : pc[h] \in ReplaySteps /\ \E k \in DOMAIN req[h].events : req[h].events[k] = e

\* The steps before the event of a request is saved.
Unlogged == {"capture", "previous", "baseline", "backup", "stage", "pack", "install",
             "effective", "load", "save"}

\* The package a request has staged.
Packed(h) ==
    /\ (req[h].op = "skill_deploy" /\ pc[h] \in {"load", "save"})
       => packages[req[h].id] = [version |-> req[h].version, packed |-> FALSE]
    /\ (req[h].op = "plugin_install"
        /\ pc[h] \in {"install", "baseline", "effective", "load", "save"})
       => packages[req[h].id] = [version |-> req[h].version, packed |-> TRUE]

\* It is there until the request unwinds.
OwnKept(h) ==
    pc[h] \in {"restore", "append"} \cup RebuildSteps /\ req[h].op \in Installs
    => packages[req[h].id] # None

\* Every request has a number of its own.
Numbered ==
    /\ \A h \in Handlers : pc[h] # "idle" => req[h].id <= started
    /\ \A g, h \in Handlers :
          pc[g] # "idle" /\ pc[h] # "idle" /\ req[g].id = req[h].id => g = h

\* So has every event.
Distinct ==
    /\ \A e \in Event : Known(e) => e.id \in RequestIds /\ e.id <= started
    /\ \A h \in Handlers : pc[h] # "idle" => \A e \in Event :
          Known(e) /\ e.id = req[h].id => pc[h] \notin Unlogged /\ e = NewEvent(req[h])
    /\ \A e, f \in Event : Known(e) /\ Known(f) /\ e.id = f.id => e = f

Finished ==
    /\ \A id \in RequestIds : <<id, "success">> \in history => id <= started
    /\ \A h \in Handlers : pc[h] # "idle" => <<req[h].id, "success">> \notin history

\* A plugin's package without its tarball.
Loose(e) ==
    e.type = "plugin_install" /\ packages[e.id] = [version |-> e.version, packed |-> FALSE]

\* What is left of the package of an event: it may lack its tarball, for a reason,
\* and be gone when its request failed.
PackageKept(e) ==
    /\ Staged(e) \/ Loose(e) \/ packages[e.id] = None
    /\ Loose(e) => crashes > 0 \/ failures > 0 \/ BeingRepacked(e.id)
    /\ <<e.id, "success">> \in history => packages[e.id] # None

PackagesKept == \A e \in Event : Known(e) /\ e.type # "plugin_remove" => PackageKept(e)

StagedInv ==
    /\ DeployInv /\ Blank /\ Numbered /\ Distinct /\ Finished /\ PackagesKept
    /\ \A h \in Handlers : Packed(h) /\ OwnKept(h)


LEMMA NumberedKept ==
  ASSUME TypeOK, Fits, Numbered, NEW h \in Handlers, Begin(h) \/ Work(h)
  PROVE  Numbered' /\ started' >= started
<1>0. started \in Nat /\ \A g \in Handlers : pc[g] # "idle" => req[g].id \in Nat
  <2>1. started \in 0..MaxOps /\ MaxOps \in Nat
    BY BoundsAssumption DEF TypeOK
  <2> QED
    BY <2>1 DEF TypeOK, Request
<1>1. CASE Begin(h)
  <2>1. PICK r \in Requests :
          /\ req' = [req EXCEPT ![h] =
                [NoRequest EXCEPT !.op = r.op, !.id = started + 1, !.item = r.item,
                                  !.version = r.version, !.source = r.source]]
    BY <1>1 DEF Begin
  <2>2. req'[h].id = started + 1 /\ started' = started + 1
    BY <1>1, <2>1 DEF TypeOK, NoRequest, Begin
  <2>3. \A g \in Handlers : g # h => pc'[g] = pc[g] /\ req'[g] = req[g]
    BY <1>1, OthersAlone
  <2>4. \A g \in Handlers : g # h /\ pc[g] # "idle" => req[g].id <= started
    BY DEF Numbered
  <2>5. ASSUME NEW f \in Handlers, NEW g \in Handlers, pc'[f] # "idle", pc'[g] # "idle",
               req'[f].id = req'[g].id
        PROVE  f = g
    BY <1>0, <2>2, <2>3, <2>4, <2>5 DEF Numbered
  <2>6. \A g \in Handlers : pc'[g] # "idle" => req'[g].id <= started'
    BY <1>0, <2>2, <2>3, <2>4
  <2> QED
    BY <1>0, <2>2, <2>5, <2>6 DEF Numbered
<1>2. CASE Work(h)
  <2>1. started' = started
    BY <1>2, CounterTypes
  <2>2. pc[h] # "idle" /\ (pc'[h] # "idle" => req'[h].id = req[h].id)
    BY <1>2, Working, RequestKept DEF SameRequest
  <2>3. \A g \in Handlers : g # h => pc'[g] = pc[g] /\ req'[g] = req[g]
    BY <1>2, OthersAlone
  <2> QED
    BY <1>0, <2>1, <2>2, <2>3 DEF Numbered
<1> QED
  BY <1>1, <1>2

\* How the logs of a handler change.
LEMMA HeldLogs ==
  ASSUME TypeOK, NEW h \in Handlers, Work(h)
  PROVE  /\ \/ req'[h].log0 = req[h].log0
            \/ req'[h].log0 = <<>>
            \/ LoadLog(h) /\ req'[h].log0 = log
         /\ pc'[h] \in ReplaySteps =>
               \/ pc[h] \in ReplaySteps /\ req'[h].events = req[h].events
               \/ req'[h].events = log
<1>0. pc \in [Handlers -> Steps] /\ req \in [Handlers -> Request]
  BY DEF TypeOK
<1> USE DEF At, Goto, Return, Request, NoRequest
<1>1. ASSUME pc'[h] \in ReplaySteps
      PROVE  \/ pc[h] \in ReplaySteps /\ req'[h].events = req[h].events
             \/ req'[h].events = log
  <2>1. CASE LoadReplay(h)
    BY <1>0, <2>1 DEF LoadReplay
  <2>2. CASE ReplayEvent(h) \/ Repack(h) \/ Reinstall(h)
    <3>1. ~DeployFailed(h)
      BY <1>0, <1>1 DEF DeployFailed, ReplaySteps
    <3> QED
      BY <1>0, <2>2, <3>1, Replaying
  <2>3. ~LoadBaseline(h) /\ ~Reset(h) /\ ~CopySnapshot(h) /\ ~Up(h)
    BY <1>0, <1>1 DEF LoadBaseline, Reset, CopySnapshot, Up, DeployFailed, ReplaySteps
  <2> QED
    BY <1>1, <2>1, <2>2, <2>3, RebuildActions DEF RebuildSteps
<1>2. CASE UNCHANGED req \/ Return(h)
  BY <1>0, <1>1, <1>2 DEF ReplaySteps
<1>3. CASE LoadLog(h) \/ LoadReplay(h)
  BY <1>0, <1>1, <1>2, <1>3 DEF LoadLog, LoadReplay
<1>4. CASE ReplayEvent(h) \/ Repack(h) \/ Reinstall(h)
  <2>1. CASE DeployFailed(h)
    BY <1>0, <1>2, <2>1 DEF DeployFailed
  <2>2. CASE UNCHANGED req \/ \E k : req' = [req EXCEPT ![h].todo = @ \ {k}]
    BY <1>0, <1>1, <2>2
  <2> QED
    BY <1>4, <2>1, <2>2, Replaying
<1>5. CASE \/ ReadBaseline(h) \/ Backup(h) \/ Capture(h) \/ LoadPrevious(h)
           \/ ReadSkills(h) \/ ReadPlugins(h) \/ LoadBaseline(h)
  BY <1>0, <1>1, <1>2, <1>5 DEF ReadBaseline, Backup, Capture, LoadPrevious, ReadSkills,
     ReadPlugins, LoadBaseline
<1>6. CASE \/ ReadEffective(h) \/ StagePackage(h) \/ PackPlugin(h)
           \/ InstallPlugin(h) \/ SaveLog(h) \/ SaveCheckpoint(h) \/ ClearLog(h)
           \/ Reset(h) \/ CopySnapshot(h) \/ Up(h) \/ RecordDeploy(h)
           \/ AppendRecord(h) \/ UndoCheckpoint(h) \/ UndoLog(h) \/ Unwind(h)
  <2>1. UNCHANGED req \/ Return(h)
    BY <1>6 DEF ReadEffective, StagePackage, PackPlugin, InstallPlugin,
       SaveLog, SaveCheckpoint, ClearLog, Reset, CopySnapshot, Up, RecordDeploy,
       AppendRecord, UndoCheckpoint, UndoLog, Unwind, DeployFailed
  <2> QED
    BY <1>2, <2>1
<1> QED
  BY <1>3, <1>4, <1>5, <1>6 DEF Work

\* An edit adds the event of its request and no other.
LEMMA EditedEvents ==
  ASSUME NEW r \in Request, r.op \in EditOps, Findable(r),
         NEW k \in DOMAIN EditedLog(r)
  PROVE  EditedLog(r)[k] = NewEvent(r) \/ \E j \in DOMAIN r.log0 : r.log0[j] = EditedLog(r)[k]
<1>1. r.log0 \in Seq(Event)
  BY DEF Request, Log
<1>2. CASE r.op \in Installs \/ (r.op = "plugin_remove" /\ r.base # None)
  <2>1. EditedLog(r) = Append(r.log0, NewEvent(r))
    BY <1>2 DEF EditedLog, Installs
  <2> QED
    BY <1>1, <2>1
<1>3. CASE ~(r.op \in Installs \/ (r.op = "plugin_remove" /\ r.base # None))
  <2> DEFINE p == LatestInstall(r.log0, r.item)
  <2>1. HasInstall(r.log0, r.item)
    BY <1>3 DEF Findable
  <2>2. p \in DOMAIN r.log0
    BY <2>1 DEF HasInstall, LatestInstall, IsLatestInstall
  <2>3. p \in 1..Len(r.log0)
    BY <1>1, <2>2
  <2>4. EditedLog(r) = RemoveAt(r.log0, p)
    BY <1>3 DEF EditedLog, Installs, DropLatestInstall
  <2> HIDE DEF p
  <2> DEFINE s == RemoveAt(r.log0, p)
  <2>5. /\ s \in Seq(Event) /\ Len(s) = Len(r.log0) - 1
        /\ \A j \in 1..(p - 1) : s[j] = r.log0[j]
        /\ \A j \in p..(Len(r.log0) - 1) : s[j] = r.log0[j + 1]
    BY <1>1, <2>3, RemoveAtProperties
  <2> HIDE DEF s
  <2>6. k \in 1..(Len(r.log0) - 1)
    BY <1>1, <2>4, <2>5 DEF s
  <2>7. \E j \in DOMAIN r.log0 : r.log0[j] = s[k]
    <3>1. CASE k < p
      BY <1>1, <2>3, <2>5, <2>6, <3>1
    <3>2. CASE k >= p
      <4>1. s[k] = r.log0[k + 1] /\ k + 1 \in DOMAIN r.log0
        BY <1>1, <2>3, <2>5, <2>6, <3>2
      <4> QED
        BY <4>1
    <3> QED
      BY <2>3, <2>6, <3>1, <3>2
  <2> QED
    BY <2>4, <2>7 DEF s
<1> QED
  BY <1>2, <1>3

\* The only event that becomes known is the one an edit saves.
LEMMA KnownNext ==
  ASSUME TypeOK, Fits, NEW h \in Handlers, Work(h), NEW e, Known(e)'
  PROVE  Known(e) \/ (SaveLog(h) /\ pc[h] = "save" /\ e = NewEvent(req[h]))
<1>0. /\ \A g \in Handlers : g # h => pc'[g] = pc[g] /\ req'[g] = req[g]
      /\ req[h] \in Request /\ pc[h] # "idle" /\ OpFits(pc[h], req[h].op)
      /\ pc[h] = "save" => Findable(req[h])
  BY OthersAlone, Working DEF TypeOK, Fits
<1>1. CASE \E k \in DOMAIN log' : log'[k] = e
  <2>1. CASE SaveLog(h)
    <3>1. pc[h] = "save" /\ (log' = EditedLog(req[h]) \/ log' = log)
      BY <2>1 DEF SaveLog, At
    <3>2. req[h].op \in EditOps
      BY <1>0, <3>1 DEF OpFits
    <3> QED
      BY <1>0, <1>1, <2>1, <3>1, <3>2, EditedEvents DEF Known
  <2>2. CASE ClearLog(h)
    BY <1>1, <2>2 DEF ClearLog, Known
  <2>3. CASE UndoLog(h)
    BY <1>1, <2>3 DEF UndoLog, Known
  <2>4. CASE UNCHANGED log
    BY <1>1, <2>4 DEF Known
  <2> QED
    BY <2>1, <2>2, <2>3, <2>4, LogWriters
<1>2. CASE \E g \in Handlers : \E k \in DOMAIN req'[g].log0 : req'[g].log0[k] = e
  <2>1. PICK g \in Handlers : \E k \in DOMAIN req'[g].log0 : req'[g].log0[k] = e
    BY <1>2
  <2>2. CASE g # h
    BY <1>0, <2>1, <2>2 DEF Known
  <2>3. CASE g = h
    BY <2>1, <2>3, HeldLogs DEF Known
  <2> QED
    BY <2>2, <2>3
<1>3. CASE \E g \in Handlers : pc'[g] \in ReplaySteps /\ \E k \in DOMAIN req'[g].events : req'[g].events[k] = e
  <2>1. PICK g \in Handlers : pc'[g] \in ReplaySteps /\ \E k \in DOMAIN req'[g].events : req'[g].events[k] = e
    BY <1>3
  <2>2. CASE g # h
    BY <1>0, <2>1, <2>2 DEF Known
  <2>3. CASE g = h
    BY <2>1, <2>3, HeldLogs DEF Known
  <2> QED
    BY <2>2, <2>3
<1> QED
  BY <1>1, <1>2, <1>3 DEF Known


LEMMA PackedKept ==
  ASSUME TypeOK, Fits, "repo" \notin Faults, NEW h \in Handlers, Work(h), Packed(h)
  PROVE  Packed(h)'
<1>0. /\ pc \in [Handlers -> Steps] /\ req \in [Handlers -> Request]
      /\ packages \in [RequestIds -> Package \cup {None}]
      /\ OpFits(pc[h], req[h].op) /\ req[h].id \in RequestIds
  BY Working DEF TypeOK, Fits, ArgumentsFit
<1> USE DEF At, Goto, Return
<1>1. CASE pc'[h] = "idle"
  BY <1>1 DEF Packed
<1>2. CASE pc'[h] # "idle"
  <2>0. SameRequest(h)
    BY <1>2, RequestKept
  <2>1. CASE StagePackage(h)
    <3>1. ~Fault({"repo"})
      BY DEF Fault
    <3>2. CASE pc'[h] = "load"
      <4>1. req[h].op = "skill_deploy"
        BY <1>0, <2>1, <3>2 DEF StagePackage
      <4>2. packages' = [packages EXCEPT ![req[h].id] =
                            [version |-> req[h].version, packed |-> FALSE]]
        BY <1>0, <1>2, <2>1, <3>1, <3>2 DEF StagePackage
      <4> QED
        BY <1>0, <2>0, <3>2, <4>1, <4>2 DEF Packed, SameRequest
    <3>3. CASE pc'[h] # "load"
      BY <1>0, <1>2, <2>1, <3>3 DEF StagePackage, Packed
    <3> QED
      BY <3>2, <3>3
  <2>2. CASE PackPlugin(h)
    BY <1>0, <2>0, <2>2 DEF PackPlugin, Packed, SameRequest
  <2>3. CASE InstallPlugin(h) \/ ReadBaseline(h) \/ ReadEffective(h) \/ LoadLog(h)
    <3>1. UNCHANGED packages
      BY <2>3 DEF InstallPlugin, ReadBaseline, ReadEffective, LoadLog, stores
    <3>2. /\ req[h].op = "skill_deploy" /\ pc'[h] \in {"load", "save"} => pc[h] \in {"load", "save"}
          /\ (/\ req[h].op = "plugin_install"
              /\ pc'[h] \in {"install", "baseline", "effective", "load", "save"})
             => pc[h] \in {"install", "baseline", "effective", "load", "save"}
      BY <1>0, <1>2, <2>3 DEF InstallPlugin, ReadBaseline, ReadEffective, LoadLog, OpFits
    <3> QED
      BY <2>0, <3>1, <3>2 DEF Packed, SameRequest
  <2>4. CASE \/ Backup(h) \/ SaveLog(h) \/ SaveCheckpoint(h) \/ ClearLog(h)
             \/ Capture(h) \/ ReadSkills(h) \/ ReadPlugins(h)
    BY <1>0, <2>4 DEF Packed, Backup, SaveLog, SaveCheckpoint, ClearLog, Capture,
       ReadSkills, ReadPlugins
  <2>5. CASE LoadPrevious(h)
    BY <1>0, <2>0, <2>5 DEF Packed, LoadPrevious, OpFits, CheckpointSteps, SameRequest
  <2>6. CASE \/ LoadBaseline(h) \/ Reset(h) \/ CopySnapshot(h) \/ Up(h) \/ LoadReplay(h)
             \/ RecordDeploy(h)
    BY <1>0, <2>6 DEF Packed, LoadBaseline, Reset, CopySnapshot, Up, LoadReplay,
       RecordDeploy, DeployFailed
  <2>7. CASE ReplayEvent(h) \/ Repack(h) \/ Reinstall(h)
    <3>1. pc[h] \in ReplaySteps /\ (pc'[h] \in ReplaySteps \/ DeployFailed(h))
      BY <2>7, Replaying
    <3> QED
      BY <1>0, <3>1 DEF Packed, DeployFailed, ReplaySteps
  <2>8. CASE AppendRecord(h) \/ UndoCheckpoint(h) \/ UndoLog(h) \/ Unwind(h)
    BY <1>0, <2>8 DEF Packed, AppendRecord, UndoCheckpoint, UndoLog, Unwind
  <2> QED
    BY <2>1, <2>2, <2>3, <2>4, <2>5, <2>6, <2>7, <2>8 DEF Work
<1> QED
  BY <1>1, <1>2

\* The event a request saves has its package.
LEMMA NewEventStaged ==
  ASSUME TypeOK, Fits, NEW h \in Handlers, pc[h] = "save", Packed(h)
  PROVE  LET e == NewEvent(req[h]) IN
         /\ e.id = req[h].id /\ e.id \in RequestIds
         /\ e.type # "plugin_remove" => Staged(e) /\ req[h].op \in Installs
<1>1. req[h].id \in RequestIds
  BY DEF Fits, ArgumentsFit
<1> QED
  BY <1>1 DEF NewEvent, Staged, ExpectedPackage, Packed, Installs

\* A request gets to an unlogged step from one.
LEMMA UnloggedActions ==
  ASSUME TypeOK, Fits, NEW h \in Handlers, Work(h), pc'[h] \in Unlogged
  PROVE  pc[h] \in Unlogged \ {"save"}
<1>0. pc \in [Handlers -> Steps]
  BY DEF TypeOK
<1> USE DEF At, Goto, Return, Unlogged
<1>1. CASE \/ ReadBaseline(h) \/ ReadEffective(h) \/ Backup(h) \/ StagePackage(h)
           \/ PackPlugin(h) \/ InstallPlugin(h) \/ LoadLog(h) \/ Capture(h)
           \/ LoadPrevious(h)
  BY <1>1 DEF ReadBaseline, ReadEffective, Backup, StagePackage, PackPlugin,
              InstallPlugin, LoadLog, Capture, LoadPrevious
<1>2. CASE \/ SaveLog(h) \/ ReadSkills(h) \/ ReadPlugins(h) \/ SaveCheckpoint(h) \/ ClearLog(h)
  BY <1>0, <1>2 DEF SaveLog, ReadSkills, ReadPlugins, SaveCheckpoint, ClearLog
<1>3. CASE \/ LoadBaseline(h) \/ Reset(h) \/ CopySnapshot(h) \/ Up(h) \/ LoadReplay(h)
           \/ RecordDeploy(h)
  BY <1>0, <1>3 DEF LoadBaseline, Reset, CopySnapshot, Up, LoadReplay,
     RecordDeploy, DeployFailed
<1>4. CASE ReplayEvent(h) \/ Repack(h) \/ Reinstall(h)
  <2>1. pc[h] \in ReplaySteps /\ (pc'[h] \in ReplaySteps \/ DeployFailed(h))
    BY <1>4, Replaying
  <2> QED
    BY <1>0, <2>1 DEF DeployFailed, ReplaySteps
<1>5. CASE AppendRecord(h) \/ UndoCheckpoint(h) \/ UndoLog(h) \/ Unwind(h)
  BY <1>0, <1>5 DEF AppendRecord, UndoCheckpoint, UndoLog, Unwind
<1> QED
  BY <1>1, <1>2, <1>3, <1>4, <1>5 DEF Work

\* The event a replay takes next is one.
LEMMA NextIsOne ==
  ASSUME NEW events, NEW todo, NEW j \in Nat, NEW k \in Nat,
         NextToReplay(events, todo, j), NextToReplay(events, todo, k)
  PROVE  j = k
<1> SUFFICES ASSUME j # k PROVE FALSE
  OBVIOUS
<1>1. Before(events, j, k) /\ Before(events, k, j)
  BY DEF NextToReplay
<1> QED
  BY <1>1 DEF Before

\* The event a replay is at is known.
LEMMA ReplayedKnown ==
  ASSUME DeployInv, NEW h \in Handlers, pc[h] \in ReplaySteps, NEW k \in req[h].todo
  PROVE  /\ k \in Nat /\ req[h].events[k] \in Event
         /\ Known(req[h].events[k])
<1>1. /\ req[h].events \in Seq(Event) /\ k \in DOMAIN req[h].events
      /\ TypeOK /\ TodoInEvents
  BY DEF DeployInv, TypeOK, Request, Log, TodoInEvents
<1>2. k \in Nat
  BY <1>1
<1> QED
  BY <1>1, <1>2, ReplayedEvent DEF Known

\* Only a package's own request stages or removes it; a replay of its event takes
\* the tarball out and packs it again.
LEMMA PackageEffects ==
  ASSUME DeployInv, NEW h \in Handlers, Work(h), NEW id \in RequestIds
  PROVE  \/ packages'[id] = packages[id]
         \/ id = req[h].id /\ pc[h] \in {"stage", "pack"}
         \/ id = req[h].id /\ Unwind(h)
         \/ \E k \in req[h].todo :
               /\ NextToReplay(req[h].events, req[h].todo, k)
               /\ req[h].events[k].id = id /\ req[h].events[k].type = "plugin_install"
               /\ \/ /\ pc[h] = "replay" /\ pc'[h] = "repack" /\ UNCHANGED req
                     /\ Staged(req[h].events[k])
                     /\ packages'[id] = [version |-> req[h].events[k].version, packed |-> FALSE]
                  \/ /\ pc[h] = "repack" /\ packages[id] # None
                     /\ packages'[id] = [version |-> packages[id].version, packed |-> TRUE]
<1>0. /\ packages \in [RequestIds -> Package \cup {None}] /\ pc \in [Handlers -> Steps]
      /\ PackingNext
  BY DEF DeployInv, TypeOK
<1>1. CASE StagePackage(h)
  BY <1>0, <1>1 DEF StagePackage, At
<1>2. CASE PackPlugin(h)
  BY <1>0, <1>2 DEF PackPlugin, At
<1>3. CASE Unwind(h)
  BY <1>0, <1>3 DEF Unwind
<1>4. CASE ReplayEvent(h)
  <2>1. PICK k \in req[h].todo :
          /\ NextToReplay(req[h].events, req[h].todo, k)
          /\ ReplaySkill(h, k) \/ ReplayPlugin(h, k) \/ ReplayRemove(h, k)
    BY <1>4 DEF ReplayEvent
  <2>2. pc[h] = "replay"
    BY <1>4 DEF ReplayEvent, At
  <2> DEFINE e == req[h].events[k]
  <2>3. CASE UNCHANGED packages
    BY <2>3
  <2>4. CASE ~UNCHANGED packages
    <3>1. /\ e.type = "plugin_install" /\ Staged(e) /\ Goto(h, "repack") /\ UNCHANGED req
          /\ packages' = [packages EXCEPT ![e.id].packed = FALSE]
      BY <2>1, <2>4 DEF ReplaySkill, ReplayPlugin, ReplayRemove
    <3>2. packages[e.id] = [version |-> e.version, packed |-> TRUE] /\ e.id \in RequestIds
      BY <3>1 DEF Staged, ExpectedPackage
    <3>3. packages'[e.id] = [version |-> e.version, packed |-> FALSE]
      <4>1. e.version \in Versions
        BY <2>2, <3>1, ReplayedKnown, EventFields DEF ReplaySteps
      <4> HIDE DEF e
      <4>2. packages[e.id] \in Package
        BY <3>2, <4>1 DEF Package
      <4>3. packages'[e.id] = [version |-> packages[e.id].version, packed |-> FALSE]
        BY <1>0, <3>1, <3>2, <4>2 DEF Package
      <4> QED
        BY <3>2, <4>3
    <3>4. pc'[h] = "repack"
      BY <1>0, <3>1 DEF Goto
    <3>5. CASE id = e.id
      BY <2>1, <2>2, <3>1, <3>3, <3>4, <3>5
    <3>6. CASE id # e.id
      BY <1>0, <3>1, <3>6
    <3> QED
      BY <3>5, <3>6
  <2> QED
    BY <2>3, <2>4
<1>5. CASE Repack(h)
  <2>1. PICK k \in req[h].todo :
          NextToReplay(req[h].events, req[h].todo, k) /\ RepackPlugin(h, k)
    BY <1>5 DEF Repack
  <2>2. pc[h] = "repack"
    BY <1>5 DEF Repack, At
  <2>3. req[h].events[k].type = "plugin_install"
    <3>1. PICK j \in req[h].todo :
            /\ NextToReplay(req[h].events, req[h].todo, j)
            /\ req[h].events[j].type = "plugin_install"
      BY <1>0, <2>2 DEF PackingNext
    <3>2. j \in Nat /\ k \in Nat
      BY <2>2, ReplayedKnown DEF ReplaySteps
    <3> QED
      BY <2>1, <3>1, <3>2, NextIsOne
  <2> DEFINE e == req[h].events[k]
  <2>4. CASE UNCHANGED packages
    BY <2>4
  <2>5. CASE packages[e.id] # None /\ packages' = [packages EXCEPT ![e.id].packed = TRUE]
    <3>1. CASE id = e.id
      <4>1. packages[id] \in Package
        BY <1>0, <2>5, <3>1
      <4>2. packages'[id] = [version |-> packages[id].version, packed |-> TRUE]
        BY <1>0, <2>5, <3>1, <4>1 DEF Package
      <4> QED
        BY <2>1, <2>2, <2>3, <2>5, <3>1, <4>2
    <3>2. CASE id # e.id
      BY <1>0, <2>5, <3>2
    <3> QED
      BY <3>1, <3>2
  <2> QED
    BY <2>1, <2>4, <2>5 DEF RepackPlugin
<1> QED
  BY <1>1, <1>2, <1>3, <1>4, <1>5, PackageWriters

\* A success is recorded at the end of its request.
LEMMA SuccessActions ==
  ASSUME NEW h \in Handlers, Begin(h) \/ Work(h),
         NEW id, <<id, "success">> \in history', <<id, "success">> \notin history
  PROVE  /\ id = req[h].id /\ pc[h] = "append" /\ UNCHANGED packages
         /\ AppendRecord(h)
<1>1. ~RecordDeploy(h)
  BY DEF RecordDeploy
<1>2. AppendRecord(h)
  BY <1>1, HistoryWriters
<1> QED
  BY <1>2 DEF AppendRecord, At

\* A repack packs the next event, or a call has failed.
LEMMA RepackStep ==
  ASSUME DeployInv, NEW h \in Handlers, Work(h), pc[h] = "repack",
         NEW k \in req[h].todo, NextToReplay(req[h].events, req[h].todo, k)
  PROVE  RepackPlugin(h, k)
<1> USE DEF At
<1>1. CASE Repack(h)
  <2>1. PICK j \in req[h].todo :
          NextToReplay(req[h].events, req[h].todo, j) /\ RepackPlugin(h, j)
    BY <1>1 DEF Repack
  <2>2. j \in Nat /\ k \in Nat
    BY ReplayedKnown DEF ReplaySteps
  <2> QED
    BY <2>1, <2>2, NextIsOne
<1>2. CASE \/ ReadBaseline(h) \/ ReadEffective(h) \/ Backup(h) \/ StagePackage(h)
           \/ PackPlugin(h) \/ InstallPlugin(h) \/ LoadLog(h) \/ SaveLog(h)
  BY <1>2 DEF ReadBaseline, ReadEffective, Backup, StagePackage, PackPlugin,
              InstallPlugin, LoadLog, SaveLog
<1>3. CASE \/ Capture(h) \/ LoadPrevious(h) \/ ReadSkills(h) \/ ReadPlugins(h)
           \/ SaveCheckpoint(h) \/ ClearLog(h)
  BY <1>3 DEF Capture, LoadPrevious, ReadSkills, ReadPlugins, SaveCheckpoint, ClearLog
<1>4. CASE \/ LoadBaseline(h) \/ Reset(h) \/ CopySnapshot(h) \/ Up(h)
           \/ LoadReplay(h) \/ ReplayEvent(h) \/ Reinstall(h) \/ RecordDeploy(h)
  BY <1>4 DEF LoadBaseline, Reset, CopySnapshot, Up, LoadReplay, ReplayEvent, Reinstall,
              RecordDeploy
<1>5. CASE AppendRecord(h) \/ UndoCheckpoint(h) \/ UndoLog(h) \/ Unwind(h)
  BY <1>5 DEF AppendRecord, UndoCheckpoint, UndoLog, Unwind
<1> QED
  BY <1>1, <1>2, <1>3, <1>4, <1>5 DEF Work

LEMMA DistinctKept ==
  ASSUME DeployInv, Numbered, Distinct, NEW h \in Handlers, Work(h)
  PROVE  Distinct'
<1>0. /\ TypeOK /\ Fits /\ pc[h] # "idle" /\ req[h].id \in RequestIds
      /\ started' = started /\ (pc'[h] # "idle" => SameRequest(h))
      /\ \A g \in Handlers : g # h => pc'[g] = pc[g] /\ req'[g] = req[g]
  <2>1. TypeOK /\ Fits /\ pc[h] # "idle"
    BY Working DEF DeployInv
  <2>2. req[h].id \in RequestIds
    BY <2>1 DEF Fits, ArgumentsFit
  <2>3. pc'[h] # "idle" => SameRequest(h)
    BY <2>1, RequestKept
  <2> QED
    BY <2>1, <2>2, <2>3, CounterTypes, OthersAlone
<1>1. \A e \in Event : Known(e)' =>
         Known(e) \/ (pc[h] = "save" /\ e = NewEvent(req[h]))
  BY <1>0, KnownNext
<1>2. pc[h] = "save" => \A e \in Event : Known(e) => e.id # req[h].id
  BY <1>0 DEF Distinct, Unlogged
<1>3. NewEvent(req[h]).id = req[h].id
  BY DEF NewEvent
<1>4. req[h].id <= started
  BY <1>0 DEF Numbered
<1>5. ASSUME NEW e \in Event, Known(e)'
      PROVE  e.id \in RequestIds /\ e.id <= started'
  BY <1>0, <1>1, <1>3, <1>4, <1>5 DEF Distinct
<1>6. ASSUME NEW g \in Handlers, pc'[g] # "idle", NEW e \in Event, Known(e)',
             e.id = req'[g].id
      PROVE  pc'[g] \notin Unlogged /\ e = NewEvent(req'[g])
  <2>1. CASE g # h
    <3>1. pc'[g] = pc[g] /\ req'[g] = req[g]
      BY <1>0, <2>1
    <3>2. CASE Known(e)
      BY <1>6, <3>1, <3>2 DEF Distinct
    <3>3. CASE e = NewEvent(req[h])
      BY <1>0, <1>3, <1>6, <2>1, <3>1, <3>3 DEF Numbered
    <3> QED
      BY <1>1, <1>6, <3>2, <3>3
  <2>2. CASE g = h
    <3>1. SameRequest(h) /\ NewEvent(req'[h]) = NewEvent(req[h])
      BY <1>0, <1>6, <2>2 DEF SameRequest, NewEvent
    <3>2. pc'[h] \in Unlogged => pc[h] \in Unlogged /\ pc[h] # "save"
      BY <1>0, UnloggedActions
    <3>3. e.id = req[h].id
      BY <1>6, <2>2, <3>1 DEF SameRequest
    <3>4. CASE Known(e)
      <4>1. pc[h] \notin Unlogged /\ e = NewEvent(req[h])
        BY <1>0, <3>3, <3>4 DEF Distinct
      <4> QED
        BY <2>2, <3>1, <3>2, <4>1
    <3>5. CASE pc[h] = "save" /\ e = NewEvent(req[h])
      BY <2>2, <3>1, <3>2, <3>5
    <3> QED
      BY <1>1, <1>6, <3>4, <3>5
  <2> QED
    BY <2>1, <2>2
<1>7. ASSUME NEW e \in Event, NEW f \in Event, Known(e)', Known(f)', e.id = f.id
      PROVE  e = f
  <2>1. CASE Known(e) /\ Known(f)
    BY <1>7, <2>1 DEF Distinct
  <2>2. CASE ~Known(e) \/ ~Known(f)
    BY <1>1, <1>2, <1>3, <1>7, <2>2
  <2> QED
    BY <2>1, <2>2
<1> QED
  BY <1>5, <1>6, <1>7 DEF Distinct

LEMMA FinishedKept ==
  ASSUME DeployInv, Numbered, Finished, NEW h \in Handlers, Work(h)
  PROVE  Finished'
<1>0. /\ TypeOK /\ pc[h] # "idle" /\ req[h].id <= started
      /\ started' = started /\ (pc'[h] # "idle" => SameRequest(h))
      /\ \A g \in Handlers : g # h => pc'[g] = pc[g] /\ req'[g] = req[g]
  <2>1. TypeOK /\ pc[h] # "idle"
    BY Working DEF DeployInv
  <2>2. pc'[h] # "idle" => SameRequest(h)
    BY <2>1, RequestKept
  <2> QED
    BY <2>1, <2>2, CounterTypes, OthersAlone DEF Numbered
<1>1. ASSUME NEW id \in RequestIds, <<id, "success">> \in history'
      PROVE  id <= started'
  BY <1>0, <1>1, SuccessActions DEF Finished
<1>2. ASSUME NEW g \in Handlers, pc'[g] # "idle"
      PROVE  <<req'[g].id, "success">> \notin history'
  <2>1. pc[g] # "idle" /\ req'[g].id = req[g].id
    BY <1>0, <1>2 DEF SameRequest
  <2>2. <<req[g].id, "success">> \notin history
    BY <2>1 DEF Finished
  <2>3. ASSUME <<req[g].id, "success">> \in history'
        PROVE  FALSE
    <3>1. req[g].id = req[h].id /\ AppendRecord(h) /\ pc[h] = "append"
      BY <2>2, <2>3, SuccessActions
    <3>2. g = h
      BY <1>0, <2>1, <3>1 DEF Numbered
    <3>3. pc'[h] \in {"idle", "unwind"}
      BY <1>0, <3>1 DEF AppendRecord, Goto, Return, TypeOK
    <3>4. UNCHANGED history
      BY <1>0, <1>2, <3>1, <3>2 DEF AppendRecord, Goto, Return, TypeOK
    <3> QED
      BY <2>2, <2>3, <3>4
  <2> QED
    BY <2>1, <2>3
<1> QED
  BY <1>1, <1>2 DEF Finished

\* The packages of one event, over a step.
LEMMA EventPackageKept ==
  ASSUME StagedInv, NEW h \in Handlers, Work(h), NEW e \in Event, Known(e),
         e.type # "plugin_remove"
  PROVE  PackageKept(e)'
<1>0. /\ DeployInv /\ TypeOK /\ Distinct /\ Finished /\ PackageKept(e)
      /\ packages \in [RequestIds -> Package \cup {None}]
      /\ e.id \in RequestIds /\ e.version \in Versions
      /\ pc \in [Handlers -> Steps] /\ pc[h] # "idle"
      /\ \A g \in Handlers : g # h => pc'[g] = pc[g] /\ req'[g] = req[g]
  <2>1. DeployInv /\ TypeOK /\ Distinct /\ Finished /\ PackagesKept
    BY DEF StagedInv, DeployInv
  <2> QED
    BY <2>1, Working, OthersAlone, EventFields DEF TypeOK, PackagesKept, Distinct
<1>1. \A b \in BOOLEAN : /\ [version |-> e.version, packed |-> b] \in Package
                         /\ [version |-> e.version, packed |-> b] # None
  BY <1>0, PackageAssumption DEF Package
<1>2. Staged(e)' \/ Loose(e)' => packages'[e.id] # None
  BY <1>1 DEF Staged, ExpectedPackage, Loose
<1>3. crashes' = crashes /\ failures' >= failures /\ failures \in Nat /\ failures' \in Nat
  <2>1. failures \in 0..MaxFailures /\ failures' \in 0..MaxFailures /\ MaxFailures \in Nat
    BY <1>0, CounterTypes, BoundsAssumption DEF TypeOK
  <2> QED
    BY <1>0, <2>1, CounterTypes
<1>4. <<e.id, "success">> \in history' =>
         \/ <<e.id, "success">> \in history
         \/ packages[e.id] # None /\ UNCHANGED packages
  <2> SUFFICES ASSUME <<e.id, "success">> \in history', <<e.id, "success">> \notin history
               PROVE  packages[e.id] # None /\ UNCHANGED packages
    OBVIOUS
  <2>1. e.id = req[h].id /\ pc[h] = "append" /\ UNCHANGED packages
    BY SuccessActions
  <2>2. e = NewEvent(req[h])
    BY <1>0, <2>1 DEF Distinct
  <2>3. req[h].op \in Installs
    BY <2>2 DEF NewEvent, Installs
  <2> QED
    BY <2>1, <2>3 DEF StagedInv, OwnKept
<1>5. CASE packages'[e.id] = packages[e.id]
  <2>1. (Staged(e)' <=> Staged(e)) /\ (Loose(e)' <=> Loose(e))
    BY <1>5 DEF Staged, ExpectedPackage, Loose
  <2>2. ASSUME Loose(e) PROVE crashes' > 0 \/ failures' > 0 \/ BeingRepacked(e.id)'
    <3>1. CASE crashes > 0 \/ failures > 0
      BY <1>3, <3>1
    <3>2. ASSUME BeingRepacked(e.id)
          PROVE  failures' > 0 \/ BeingRepacked(e.id)'
      <4>1. PICK g \in Handlers : \E k \in req[g].todo :
              /\ pc[g] = "repack" /\ NextToReplay(req[g].events, req[g].todo, k)
              /\ req[g].events[k].id = e.id
        BY <3>2 DEF BeingRepacked, At
      <4>2. PICK k \in req[g].todo :
              /\ NextToReplay(req[g].events, req[g].todo, k)
              /\ req[g].events[k].id = e.id
        BY <4>1
      <4>3. CASE g # h
        BY <1>0, <4>1, <4>2, <4>3 DEF BeingRepacked, At
      <4>4. CASE g = h
        <5>1. RepackPlugin(h, k)
          BY <1>0, <4>1, <4>2, <4>4, RepackStep
        <5>2. packages[e.id] = [version |-> e.version, packed |-> FALSE] /\ packages[e.id] # None
          BY <1>1, <2>2 DEF Loose
        <5>3. packages' # [packages EXCEPT ![e.id].packed = TRUE]
          <6> SUFFICES ASSUME packages' = [packages EXCEPT ![e.id].packed = TRUE] PROVE FALSE
            OBVIOUS
          <6>1. packages'[e.id] = [packages[e.id] EXCEPT !.packed = TRUE]
            BY <1>0
          <6>2. packages'[e.id].packed = TRUE
            BY <5>2, <6>1
          <6> QED
            BY <1>5, <5>2, <6>2
        <5>4. Fault({"pack"})
          BY <4>2, <4>4, <5>1, <5>2, <5>3 DEF RepackPlugin
        <5> QED
          BY <1>3, <5>4 DEF Fault
      <4> QED
        BY <4>3, <4>4
    <3> QED
      BY <1>0, <2>2, <3>1, <3>2 DEF PackageKept
  <2>3. <<e.id, "success">> \in history' => packages'[e.id] # None
    BY <1>0, <1>4, <1>5 DEF PackageKept
  <2> QED
    BY <1>0, <1>5, <2>1, <2>2, <2>3 DEF PackageKept
<1>6. ASSUME e.id = req[h].id PROVE pc[h] \notin {"stage", "pack"}
  BY <1>0, <1>6 DEF Distinct, Unlogged
<1>7. CASE e.id = req[h].id /\ Unwind(h)
  <2>1. packages'[e.id] = None /\ UNCHANGED history
    BY <1>0, <1>7 DEF Unwind
  <2>2. <<e.id, "success">> \notin history'
    BY <1>0, <1>7, <2>1 DEF Finished
  <2>3. ~Loose(e)'
    BY <1>2, <2>1
  <2> QED
    BY <2>1, <2>2, <2>3 DEF PackageKept
<1>8. ASSUME NEW k \in req[h].todo,
             /\ NextToReplay(req[h].events, req[h].todo, k)
             /\ req[h].events[k].id = e.id /\ req[h].events[k].type = "plugin_install"
             /\ \/ /\ pc[h] = "replay" /\ pc'[h] = "repack" /\ UNCHANGED req
                   /\ Staged(req[h].events[k])
                   /\ packages'[e.id] = [version |-> req[h].events[k].version, packed |-> FALSE]
                \/ /\ pc[h] = "repack" /\ packages[e.id] # None
                   /\ packages'[e.id] = [version |-> packages[e.id].version, packed |-> TRUE]
      PROVE  PackageKept(e)'
  <2>1. req[h].events[k] = e
    <3>1. req[h].events[k] \in Event /\ Known(req[h].events[k])
      BY <1>0, <1>8, ReplayedKnown DEF ReplaySteps
    <3> QED
      BY <1>0, <1>8, <3>1 DEF Distinct
  <2>2. CASE pc[h] = "replay"
    <3>1. Loose(e)'
      BY <1>8, <2>1, <2>2 DEF Loose
    <3>2. BeingRepacked(e.id)'
      BY <1>8, <2>2 DEF BeingRepacked, At
    <3> QED
      BY <1>2, <3>1, <3>2 DEF PackageKept
  <2>3. CASE pc[h] = "repack"
    <3>1. packages[e.id].version = e.version
      BY <1>0, <1>8, <2>3 DEF PackageKept, Staged, ExpectedPackage, Loose
    <3>2. packages'[e.id] = [version |-> e.version, packed |-> TRUE]
      BY <1>8, <2>3, <3>1
    <3>3. Staged(e)' /\ ~Loose(e)'
      <4>1. [version |-> e.version, packed |-> TRUE].packed
            # [version |-> e.version, packed |-> FALSE].packed
        OBVIOUS
      <4> QED
        BY <1>0, <1>8, <2>1, <3>2, <4>1 DEF Staged, ExpectedPackage, Loose
    <3> QED
      BY <1>2, <3>3 DEF PackageKept
  <2> QED
    BY <1>8, <2>2, <2>3
<1> DEFINE Replays(k) ==
               /\ NextToReplay(req[h].events, req[h].todo, k)
               /\ req[h].events[k].id = e.id /\ req[h].events[k].type = "plugin_install"
               /\ \/ /\ pc[h] = "replay" /\ pc'[h] = "repack" /\ UNCHANGED req
                     /\ Staged(req[h].events[k])
                     /\ packages'[e.id] = [version |-> req[h].events[k].version, packed |-> FALSE]
                  \/ /\ pc[h] = "repack" /\ packages[e.id] # None
                     /\ packages'[e.id] = [version |-> packages[e.id].version, packed |-> TRUE]
<1>9. \/ packages'[e.id] = packages[e.id]
      \/ e.id = req[h].id /\ pc[h] \in {"stage", "pack"}
      \/ e.id = req[h].id /\ Unwind(h)
      \/ \E k \in req[h].todo : Replays(k)
  BY <1>0, PackageEffects
<1>10. CASE \E k \in req[h].todo : Replays(k)
  <2>1. PICK k \in req[h].todo : Replays(k)
    BY <1>10
  <2> QED
    BY <1>8, <2>1
<1> QED
  BY <1>5, <1>6, <1>7, <1>9, <1>10

LEMMA PackagesKeptNext ==
  ASSUME StagedInv, NEW h \in Handlers, Work(h)
  PROVE  PackagesKept'
<1> SUFFICES ASSUME NEW e \in Event, Known(e)', e.type # "plugin_remove"
             PROVE  PackageKept(e)'
  BY DEF PackagesKept
<1>1. CASE Known(e)
  BY <1>1, EventPackageKept
<1>2. CASE SaveLog(h) /\ pc[h] = "save" /\ e = NewEvent(req[h])
  <2>1. /\ TypeOK /\ Fits /\ Packed(h) /\ Finished
        /\ UNCHANGED <<packages, history>>
    BY <1>2 DEF StagedInv, DeployInv, SaveLog
  <2>2. Staged(e) /\ e.id = req[h].id /\ e.version \in Versions
    BY <1>2, <2>1, NewEventStaged, EventFields
  <2>3. packages[e.id] = [version |-> e.version, packed |-> e.type = "plugin_install"]
    BY <2>2 DEF Staged, ExpectedPackage
  <2>4. packages[e.id] # None
    <3>1. \A b \in BOOLEAN : [version |-> e.version, packed |-> b] \in Package
      BY <2>2 DEF Package
    <3> QED
      BY <2>3, <3>1, PackageAssumption
  <2>5. ~Loose(e)
    <3>1. \A t \in BOOLEAN : [version |-> e.version, packed |-> t].packed = t
      OBVIOUS
    <3> QED
      BY <2>3, <3>1 DEF Loose
  <2>6. <<e.id, "success">> \notin history
    BY <1>2, <2>1, <2>2 DEF Finished
  <2> QED
    BY <2>1, <2>2, <2>5, <2>6 DEF PackageKept, Staged, ExpectedPackage, Loose
<1>3. TypeOK /\ Fits
  BY DEF StagedInv, DeployInv
<1> QED
  BY <1>1, <1>2, <1>3, KnownNext

\* A request's own package, over a step of its own or of another.
LEMMA OwnPackageKept ==
  ASSUME StagedInv, NEW h \in Handlers, Work(h), NEW g \in Handlers, pc[g] # "idle",
         pc[g] # "stage" /\ pc[g] # "pack" /\ pc[g] # "unwind"
  PROVE  /\ pc[g] \in Unlogged => packages'[req[g].id] = packages[req[g].id]
         /\ packages[req[g].id] # None => packages'[req[g].id] # None
<1> DEFINE id == req[g].id
           Replays(k) ==
               /\ NextToReplay(req[h].events, req[h].todo, k)
               /\ req[h].events[k].id = id /\ req[h].events[k].type = "plugin_install"
               /\ \/ /\ pc[h] = "replay" /\ pc'[h] = "repack" /\ UNCHANGED req
                     /\ Staged(req[h].events[k])
                     /\ packages'[id] = [version |-> req[h].events[k].version, packed |-> FALSE]
                  \/ /\ pc[h] = "repack" /\ packages[id] # None
                     /\ packages'[id] = [version |-> packages[id].version, packed |-> TRUE]
<1>0. /\ DeployInv /\ Numbered /\ Distinct /\ id \in RequestIds /\ pc[h] # "idle"
      /\ packages \in [RequestIds -> Package \cup {None}]
  BY Working DEF StagedInv, DeployInv, TypeOK, Fits, ArgumentsFit
<1>1. \/ packages'[id] = packages[id]
      \/ id = req[h].id /\ pc[h] \in {"stage", "pack"}
      \/ id = req[h].id /\ Unwind(h)
      \/ \E k \in req[h].todo : Replays(k)
  BY <1>0, PackageEffects
<1>2. id = req[h].id => g = h
  BY <1>0 DEF Numbered
<1>3. Unwind(h) => pc[h] = "unwind"
  BY DEF Unwind, At
<1>4. ASSUME NEW k \in req[h].todo, Replays(k)
      PROVE  pc[g] \notin Unlogged /\ packages'[id] # None
  <2>1. pc[h] \in ReplaySteps
    BY <1>4 DEF ReplaySteps
  <2>2. req[h].events[k] \in Event /\ Known(req[h].events[k])
    BY <1>0, <2>1, ReplayedKnown
  <2>3. pc[g] \notin Unlogged
    BY <1>0, <1>4, <2>2 DEF Distinct
  <2>4. req[h].events[k].version \in Versions
    BY <1>4, <2>2, EventFields
  <2>5. packages[id] # None => packages[id].version \in Versions
    BY <1>0 DEF Package
  <2>6. packages'[id] \in Package
    <3>1. \A b \in BOOLEAN : \A v \in Versions : [version |-> v, packed |-> b] \in Package
      BY DEF Package
    <3> QED
      BY <1>4, <2>4, <2>5, <3>1
  <2> QED
    BY <2>3, <2>6, PackageAssumption
<1> QED
  BY <1>1, <1>2, <1>3, <1>4

LEMMA OwnKeptNext ==
  ASSUME StagedInv, NEW h \in Handlers, Work(h)
  PROVE  OwnKept(h)'
<1>0. /\ TypeOK /\ Fits /\ Packed(h) /\ OwnKept(h) /\ pc[h] # "idle"
      /\ req[h].id \in RequestIds /\ req[h] \in Request
  BY Working DEF StagedInv, DeployInv, TypeOK, Fits, ArgumentsFit
<1> SUFFICES ASSUME pc'[h] \in {"restore", "append"} \cup RebuildSteps,
                    req'[h].op \in Installs
             PROVE  packages'[req'[h].id] # None
  BY DEF OwnKept
<1>1. SameRequest(h)
  BY <1>0, RequestKept DEF RebuildSteps, ReplaySteps
<1>2. req[h].op \in Installs
  BY <1>1 DEF SameRequest
<1>3. CASE SaveLog(h) /\ pc[h] = "save"
  <2>1. UNCHANGED packages /\ req[h].version \in Versions
    BY <1>0, <1>2, <1>3, RequestFields DEF SaveLog
  <2>2. packages[req[h].id] \in Package
    <3>1. \A b \in BOOLEAN : [version |-> req[h].version, packed |-> b] \in Package
      BY <2>1 DEF Package
    <3> QED
      BY <1>0, <1>2, <1>3, <3>1 DEF Packed, Installs
  <2> QED
    BY <1>1, <2>1, <2>2, PackageAssumption DEF SameRequest
<1>4. CASE pc[h] \in {"restore"} \cup RebuildSteps
  <2>1. packages[req[h].id] # None
    BY <1>0, <1>2, <1>4 DEF OwnKept
  <2>2. pc[h] # "stage" /\ pc[h] # "pack" /\ pc[h] # "unwind"
    BY <1>4 DEF RebuildSteps, ReplaySteps
  <2>3. packages'[req[h].id] # None
    BY <1>0, <2>1, <2>2, OwnPackageKept
  <2> QED
    BY <1>1, <2>3 DEF SameRequest
<1>5. CASE pc'[h] = "append"
  BY <1>0, <1>4, <1>5, AppendActions DEF RebuildSteps, ReplaySteps
<1>6. CASE pc'[h] # "append"
  <2>1. pc'[h] \in AfterSave
    BY <1>6 DEF AfterSave
  <2>2. pc'[h] # "undo_log"
    BY <1>6 DEF RebuildSteps, ReplaySteps
  <2>3. req[h].op # "checkpoint"
    BY <1>2 DEF Installs
  <2> QED
    BY <1>0, <1>3, <1>4, <2>1, <2>2, <2>3, RestoreActions
<1> QED
  BY <1>5, <1>6

\* A request that starts knows no events and has no package.
LEMMA BeginStaged ==
  ASSUME StagedInv, NEW h \in Handlers, Begin(h)
  PROVE  /\ Distinct' /\ Finished' /\ PackagesKept'
         /\ \A g \in Handlers : Packed(g)' /\ OwnKept(g)'
         /\ \A e : Known(e)' => Known(e)
<1>0. /\ TypeOK /\ Fits /\ Numbered /\ Distinct /\ Finished /\ PackagesKept
      /\ \A g \in Handlers : g # h => pc'[g] = pc[g] /\ req'[g] = req[g]
      /\ UNCHANGED <<log, packages, history, failures, crashes>> /\ started' = started + 1
      /\ started \in Nat /\ pc[h] = "idle"
  <2>1. TypeOK
    BY DEF StagedInv, DeployInv
  <2>2. started \in Nat
    <3>1. started \in 0..MaxOps /\ MaxOps \in Nat
      BY <2>1, BoundsAssumption DEF TypeOK
    <3> QED
      BY <3>1
  <2>3. \A g \in Handlers : g # h => pc'[g] = pc[g] /\ req'[g] = req[g]
    BY <2>1, OthersAlone
  <2>4. /\ UNCHANGED <<log, packages, history, failures, crashes>> /\ started' = started + 1
        /\ pc[h] = "idle"
    BY DEF Begin, stores, At
  <2> QED
    BY <2>1, <2>2, <2>3, <2>4 DEF StagedInv, DeployInv
<1>1. PICK r \in Requests :
        /\ pc' = [pc EXCEPT ![h] = FirstStep(r.op)]
        /\ req' = [req EXCEPT ![h] =
              [NoRequest EXCEPT !.op = r.op, !.id = started + 1, !.item = r.item,
                                !.version = r.version, !.source = r.source]]
  BY DEF Begin, Goto
<1>2. /\ pc'[h] = FirstStep(r.op) /\ req'[h].op = r.op /\ r.op \in Ops
      /\ req'[h].id = started + 1 /\ req'[h].log0 = <<>>
  BY <1>0, <1>1 DEF TypeOK, NoRequest, Requests, Ops
<1>3. pc'[h] \notin ReplaySteps /\ Packed(h)' /\ OwnKept(h)'
  BY <1>2 DEF FirstStep, Packed, OwnKept, ReplaySteps, RebuildSteps, Installs, Ops
<1>4. ASSUME NEW e, Known(e)'
      PROVE  Known(e)
  BY <1>0, <1>2, <1>3, <1>4 DEF Known
<1>5. \A e \in Event : e.id \in Nat
  BY EventFields
<1>6. Distinct'
  <2>1. ASSUME NEW e \in Event, Known(e)'
        PROVE  e.id \in RequestIds /\ e.id <= started /\ e.id <= started'
    BY <1>0, <1>4, <1>5, <2>1 DEF Distinct
  <2>2. ASSUME NEW g \in Handlers, pc'[g] # "idle", NEW e \in Event, Known(e)',
               e.id = req'[g].id
        PROVE  pc'[g] \notin Unlogged /\ e = NewEvent(req'[g])
    <3>1. g # h
      BY <1>0, <1>2, <1>5, <2>1, <2>2
    <3> QED
      BY <1>0, <1>4, <2>2, <3>1 DEF Distinct
  <2>3. ASSUME NEW e \in Event, NEW f \in Event, Known(e)', Known(f)', e.id = f.id
        PROVE  e = f
    BY <1>0, <1>4, <2>3 DEF Distinct
  <2> QED
    BY <2>1, <2>2, <2>3 DEF Distinct
<1>7. Finished'
  <2>1. \A id \in RequestIds : <<id, "success">> \in history => id <= started /\ id <= started'
    <3>1. \A id \in RequestIds : id \in Nat
      BY BoundsAssumption DEF RequestIds
    <3> QED
      BY <1>0, <3>1 DEF Finished
  <2>2. <<started + 1, "success">> \notin history
    <3>1. started + 1 \in RequestIds
      BY <1>0, BoundsAssumption DEF Begin, RequestIds
    <3> QED
      BY <1>0, <2>1, <3>1
  <2>3. ASSUME NEW g \in Handlers, pc'[g] # "idle"
        PROVE  <<req'[g].id, "success">> \notin history'
    <3>1. CASE g = h
      BY <1>0, <1>2, <2>2, <3>1
    <3>2. CASE g # h
      BY <1>0, <2>3, <3>2 DEF Finished
    <3> QED
      BY <3>1, <3>2
  <2> QED
    BY <1>0, <2>1, <2>3 DEF Finished
<1>8. PackagesKept'
  <2>1. ASSUME NEW id PROVE BeingRepacked(id) => BeingRepacked(id)'
    <3> SUFFICES ASSUME NEW g \in Handlers, NEW k \in req[g].todo,
                        At(g, "repack") /\ NextToReplay(req[g].events, req[g].todo, k)
                        /\ req[g].events[k].id = id
                 PROVE  BeingRepacked(id)'
      BY DEF BeingRepacked
    <3>1. g # h
      BY <1>0 DEF At
    <3>2. pc'[g] = pc[g] /\ req'[g] = req[g]
      BY <1>0, <3>1
    <3> QED
      BY <3>2 DEF BeingRepacked, At
  <2> SUFFICES ASSUME NEW e \in Event, Known(e)', e.type # "plugin_remove"
               PROVE  PackageKept(e)'
    BY DEF PackagesKept
  <2>2. PackageKept(e)
    BY <1>0, <1>4 DEF PackagesKept
  <2> QED
    BY <1>0, <2>1, <2>2 DEF PackageKept, Staged, ExpectedPackage, Loose
<1>9. \A g \in Handlers : g # h => Packed(g)' /\ OwnKept(g)'
  BY <1>0 DEF StagedInv, Packed, OwnKept
<1> QED
  BY <1>3, <1>4, <1>6, <1>7, <1>8, <1>9

LEMMA StagedKept ==
  ASSUME StagedInv, "repo" \notin Faults, [Next]_vars
  PROVE  StagedInv'
<1>0. TypeOK /\ Fits
  BY DEF StagedInv, DeployInv
<1>1. DeployInv' /\ Blank'
  BY <1>0, HandlerInv, CrashInv, StutterInv, BlankKept DEF StagedInv, Next
<1>2. ASSUME NEW h \in Handlers, Begin(h) \/ Work(h)
      PROVE  StagedInv'
  <2>1. Numbered'
    BY <1>0, <1>2, NumberedKept DEF StagedInv
  <2>2. CASE Begin(h)
    BY <1>1, <2>1, <2>2, BeginStaged DEF StagedInv
  <2>3. CASE Work(h)
    <3>1. Distinct' /\ Finished' /\ PackagesKept'
      BY <2>3, DistinctKept, FinishedKept, PackagesKeptNext DEF StagedInv
    <3>2. ASSUME NEW g \in Handlers
          PROVE  Packed(g)' /\ OwnKept(g)'
      <4>1. CASE g = h
        BY <1>0, <2>3, <4>1, PackedKept, OwnKeptNext DEF StagedInv
      <4>2. CASE g # h /\ pc[g] = "idle"
        <5>1. pc'[g] = "idle"
          BY <1>0, <2>3, <4>2, OthersAlone
        <5> QED
          BY <5>1 DEF Packed, OwnKept, RebuildSteps, ReplaySteps
      <4>3. CASE g # h /\ pc[g] # "idle"
        <5>1. pc'[g] = pc[g] /\ req'[g] = req[g]
          BY <1>0, <2>3, <4>3, OthersAlone
        <5>2. Packed(g) /\ OwnKept(g)
          BY DEF StagedInv
        <5>3. CASE pc[g] \in {"stage", "pack", "unwind"}
          BY <5>1, <5>3 DEF Packed, OwnKept, RebuildSteps, ReplaySteps
        <5>4. CASE pc[g] \notin {"stage", "pack", "unwind"}
          <6>1. /\ pc[g] \in Unlogged => packages'[req[g].id] = packages[req[g].id]
                /\ packages[req[g].id] # None => packages'[req[g].id] # None
            BY <2>3, <4>3, <5>4, OwnPackageKept
          <6> QED
            BY <5>1, <5>2, <6>1 DEF Packed, OwnKept, Unlogged
        <5> QED
          BY <5>3, <5>4
      <4> QED
        BY <4>1, <4>2, <4>3
    <3> QED
      BY <1>1, <2>1, <3>1, <3>2 DEF StagedInv
  <2> QED
    BY <1>2, <2>2, <2>3
<1>3. CASE Crash
  <2>1. /\ \A h \in Handlers : pc'[h] = "idle" /\ req'[h] = NoRequest
        /\ UNCHANGED <<log, packages, history, started, failures>> /\ crashes' = crashes + 1
    BY <1>3 DEF Crash, stores
  <2>2. \A e : Known(e)' => Known(e)
    BY <2>1 DEF Known, NoRequest, ReplaySteps
  <2>3. crashes' > 0
    <3>1. crashes \in 0..MaxCrashes /\ MaxCrashes \in Nat
      BY <1>0, BoundsAssumption DEF TypeOK
    <3> QED
      BY <2>1, <3>1
  <2>4. PackagesKept'
    BY <2>1, <2>2, <2>3
    DEF StagedInv, PackagesKept, PackageKept, Staged, ExpectedPackage, Loose
  <2>5. Distinct' /\ Finished' /\ Numbered'
    BY <2>1, <2>2 DEF StagedInv, Distinct, Finished, Numbered
  <2>6. \A h \in Handlers : Packed(h)' /\ OwnKept(h)'
    BY <2>1 DEF Packed, OwnKept, RebuildSteps, ReplaySteps
  <2> QED
    BY <1>1, <2>4, <2>5, <2>6 DEF StagedInv
<1>4. CASE UNCHANGED vars
  <2>1. \A e : Known(e)' <=> Known(e)
    BY <1>4 DEF vars, Known
  <2>2. \A id : BeingRepacked(id)' <=> BeingRepacked(id)
    BY <1>4 DEF vars, BeingRepacked, At
  <2>3. PackagesKept'
    BY <1>4, <2>1, <2>2
    DEF vars, StagedInv, PackagesKept, PackageKept, Staged, ExpectedPackage, Loose
  <2>4. Distinct' /\ Finished' /\ Numbered'
    BY <1>4, <2>1 DEF vars, StagedInv, Distinct, Finished, Numbered
  <2>5. \A h \in Handlers : Packed(h)' /\ OwnKept(h)'
    BY <1>4 DEF vars, StagedInv, Packed, OwnKept
  <2> QED
    BY <1>1, <2>3, <2>4, <2>5 DEF StagedInv
<1> QED
  BY <1>2, <1>3, <1>4 DEF Next

LEMMA InitStaged == Init => StagedInv
<1> SUFFICES ASSUME Init PROVE StagedInv
  OBVIOUS
<1>1. /\ log = <<>> /\ history = {}
      /\ \A h \in Handlers : pc[h] = "idle" /\ req[h] = NoRequest
  BY DEF Init
<1>2. \A e : ~Known(e)
  BY <1>1 DEF Known, NoRequest, ReplaySteps
<1>3. Blank /\ Numbered /\ Distinct /\ Finished /\ PackagesKept
  BY <1>1, <1>2 DEF Blank, Numbered, Distinct, Finished, PackagesKept
<1>4. \A h \in Handlers : Packed(h) /\ OwnKept(h)
  BY <1>1 DEF Packed, OwnKept, RebuildSteps, ReplaySteps
<1> QED
  BY <1>3, <1>4, InitInv DEF StagedInv

\* Whatever overlaps, fails or is killed, but for a skill's sources that change
\* while they are copied: an install that was recorded as a success keeps its
\* sources, as recorded, as long as any log holds its event, and its tarball is
\* missing only while a replay repacks it, or after a kill or a failure
\* (StageReplayPackage, keepArtifacts, prepareRuntimePluginPackage).
THEOREM EventsKeepPackages ==
  ASSUME "repo" \notin Faults
  PROVE  Spec => []RecordedEventsStaged
<1>1. StagedInv => RecordedEventsStaged
  <2> SUFFICES ASSUME StagedInv, NEW k \in DOMAIN log,
                      <<log[k].id, "success">> \in history, log[k].type # "plugin_remove"
               PROVE  \/ Staged(log[k])
                      \/ Loose(log[k]) /\ (crashes > 0 \/ failures > 0 \/ BeingRepacked(log[k].id))
    BY DEF RecordedEventsStaged, Loose
  <2>1. log[k] \in Event /\ Known(log[k])
    BY DEF StagedInv, DeployInv, TypeOK, Log, Known
  <2>2. PackageKept(log[k])
    BY <2>1 DEF StagedInv, PackagesKept
  <2> QED
    BY <2>2 DEF PackageKept
<1>2. StagedInv /\ [Next]_vars => StagedInv'
  BY StagedKept
<1> QED
  BY InitStaged, <1>1, <1>2, PTL DEF Spec
-----------------------------------------------------------------------------
(* The contract *)

\* Operators request what is offered.
OnlyOffered == \A h \in Handlers : pc[h] # "idle" => req[h].op \in Offered

LEMMA OnlyOfferedKept ==
  ASSUME TypeOK, OnlyOffered, [Next]_vars
  PROVE  OnlyOffered'
<1>1. ASSUME NEW h \in Handlers, Begin(h)
      PROVE  OnlyOffered'
  <2>1. PICK r \in Requests :
          /\ r.op \in Offered
          /\ req' = [req EXCEPT ![h] =
                [NoRequest EXCEPT !.op = r.op, !.id = started + 1, !.item = r.item,
                                  !.version = r.version, !.source = r.source]]
    BY <1>1 DEF Begin
  <2>2. req'[h].op \in Offered
    BY <2>1 DEF TypeOK, NoRequest
  <2> QED
    BY <1>1, <2>2, OthersAlone DEF OnlyOffered
<1>2. ASSUME NEW h \in Handlers, Work(h)
      PROVE  OnlyOffered'
  <2>1. pc'[h] # "idle" => req'[h].op \in Offered
    BY <1>2, RequestKept, Working DEF OnlyOffered, SameRequest
  <2> QED
    BY <1>2, <2>1, OthersAlone DEF OnlyOffered
<1>3. CASE Crash
  BY <1>3 DEF Crash, OnlyOffered
<1>4. CASE UNCHANGED vars
  BY <1>4 DEF vars, OnlyOffered
<1> QED
  BY <1>1, <1>2, <1>3, <1>4 DEF Next

\* Without failing calls nothing but a replay fails a deploy.
LEMMA UndoActions ==
  ASSUME TypeOK, Faults = {}, NEW h \in Handlers, Work(h),
         pc'[h] \in {"undo_cp", "undo_log"}
  PROVE  pc[h] = "undo_cp" \/ ReplayEvent(h) \/ Repack(h) \/ Reinstall(h)
<1>0. pc \in [Handlers -> Steps] /\ \A kinds : ~Fault(kinds)
  BY DEF TypeOK, Fault
<1> USE DEF At, Goto, Return
<1>1. CASE \/ ReadBaseline(h) \/ ReadEffective(h) \/ Backup(h) \/ StagePackage(h)
           \/ PackPlugin(h) \/ InstallPlugin(h) \/ LoadLog(h) \/ SaveLog(h)
  BY <1>0, <1>1 DEF ReadBaseline, ReadEffective, Backup, StagePackage, PackPlugin,
              InstallPlugin, LoadLog, SaveLog
<1>2. CASE \/ Capture(h) \/ LoadPrevious(h) \/ ReadSkills(h) \/ ReadPlugins(h)
           \/ SaveCheckpoint(h) \/ ClearLog(h)
  BY <1>0, <1>2
  DEF Capture, LoadPrevious, ReadSkills, ReadPlugins, SaveCheckpoint, ClearLog
<1>3. CASE \/ LoadBaseline(h) \/ Reset(h) \/ CopySnapshot(h) \/ Up(h) \/ LoadReplay(h)
           \/ RecordDeploy(h)
  BY <1>0, <1>3 DEF LoadBaseline, Reset, CopySnapshot, Up, LoadReplay, RecordDeploy
<1>4. CASE AppendRecord(h) \/ UndoCheckpoint(h) \/ UndoLog(h) \/ Unwind(h)
  BY <1>0, <1>4 DEF AppendRecord, UndoCheckpoint, UndoLog, Unwind
<1> QED
  BY <1>1, <1>2, <1>3, <1>4 DEF Work

\* A checkpoint replays an empty log.
NeverUndone ==
    Faults = {} => \A h \in Handlers : req[h].op = "checkpoint" =>
        /\ pc[h] \notin {"undo_cp", "undo_log"}
        /\ pc[h] \in ReplaySteps => req[h].todo = {}

\* No undo of a checkpoint is cut when the gateway is not killed, when nothing
\* fails and when there are no checkpoints.
ContractHolds == ContractInv /\ OnlyOffered /\ NeverUndone

LEMMA NoCutUndo ==
  ASSUME ContractHolds, MaxCrashes = 0 \/ Faults = {} \/ "checkpoint" \notin Offered
  PROVE  ~CutUndo
<1>1. CASE MaxCrashes = 0
  BY <1>1, BoundsAssumption
  DEF ContractHolds, ContractInv, DeployInv, TypeOK, CutUndo, Crash
<1>2. CASE Faults = {}
  BY <1>2 DEF ContractHolds, NeverUndone, CutUndo, UndoingCheckpoint, At
<1>3. CASE "checkpoint" \notin Offered
  BY <1>3 DEF ContractHolds, OnlyOffered, CutUndo, UndoingCheckpoint, At
<1> QED
  BY <1>1, <1>2, <1>3

LEMMA CheckpointReplays ==
  ASSUME ContractHolds, Faults = {}, NEW h \in Handlers, Work(h), req[h].op = "checkpoint"
  PROVE  /\ pc'[h] \notin {"undo_cp", "undo_log"}
         /\ pc'[h] \in ReplaySteps => req'[h].todo = {}
<1>0. /\ TypeOK /\ Fits /\ Collected(h) /\ pc \in [Handlers -> Steps]
      /\ req \in [Handlers -> Request]
      /\ pc[h] \notin {"undo_cp", "undo_log"}
      /\ pc[h] \in ReplaySteps => req[h].todo = {}
  BY DEF ContractHolds, ContractInv, DeployInv, Holds, NeverUndone, TypeOK
<1>1. ~ReplayEvent(h) /\ ~Repack(h) /\ ~Reinstall(h)
  BY <1>0 DEF ReplayEvent, Repack, Reinstall, At, ReplaySteps
<1>2. pc'[h] \notin {"undo_cp", "undo_log"}
  BY <1>0, <1>1, UndoActions
<1>3. ASSUME pc'[h] \in ReplaySteps PROVE req'[h].todo = {}
  <2>1. ~LoadBaseline(h) /\ ~Reset(h) /\ ~CopySnapshot(h) /\ ~Up(h)
    BY <1>0, <1>2, <1>3
    DEF LoadBaseline, Reset, CopySnapshot, Up, DeployFailed, Goto, Return, ReplaySteps
  <2>2. LoadReplay(h)
    BY <1>0, <1>1, <1>3, <2>1, RebuildActions DEF RebuildSteps
  <2>3. pc[h] = "load_replay" /\ req' = [req EXCEPT ![h].events = log, ![h].todo = DOMAIN log]
    BY <2>2 DEF LoadReplay, At
  <2>4. log = <<>>
    BY <1>0, <2>3 DEF Collected, RebuildSteps
  <2>5. DOMAIN log = {}
    BY <2>4
  <2> QED
    BY <1>0, <2>3, <2>5 DEF Request
<1> QED
  BY <1>2, <1>3

LEMMA NeverUndoneKept ==
  ASSUME ContractHolds, [Next]_vars
  PROVE  NeverUndone'
<1>0. TypeOK
  BY DEF ContractHolds, ContractInv, DeployInv
<1> SUFFICES ASSUME Faults = {}, NEW g \in Handlers, req'[g].op = "checkpoint"
             PROVE  /\ pc'[g] \notin {"undo_cp", "undo_log"}
                    /\ pc'[g] \in ReplaySteps => req'[g].todo = {}
  BY DEF NeverUndone
<1>1. ASSUME NEW h \in Handlers, Begin(h) \/ Work(h)
      PROVE  /\ pc'[g] \notin {"undo_cp", "undo_log"}
             /\ pc'[g] \in ReplaySteps => req'[g].todo = {}
  <2>1. CASE g # h
    BY <1>0, <1>1, <2>1, OthersAlone DEF ContractHolds, NeverUndone
  <2>2. CASE g = h /\ Begin(h)
    BY <1>0, <2>2, BeginBusy DEF ReplaySteps
  <2>3. CASE g = h /\ Work(h)
    <3>1. CASE pc'[h] = "idle"
      BY <2>3, <3>1 DEF ReplaySteps
    <3>2. CASE pc'[h] # "idle"
      <4>1. req[h].op = "checkpoint"
        BY <1>0, <2>3, <3>2, RequestKept DEF SameRequest
      <4> QED
        BY <2>3, <4>1, CheckpointReplays
    <3> QED
      BY <3>1, <3>2
  <2> QED
    BY <1>1, <2>1, <2>2, <2>3
<1>2. CASE Crash
  BY <1>2 DEF Crash, ReplaySteps
<1>3. CASE UNCHANGED vars
  BY <1>3 DEF vars, ContractHolds, NeverUndone
<1> QED
  BY <1>1, <1>2, <1>3 DEF Next

LEMMA ContractHoldsKept ==
  ASSUME ContractHolds, ~Overlap, "store" \notin Faults, [Next]_vars
  PROVE  ContractHolds'
<1>1. ContractInv' /\ OnlyOffered'
  BY ContractKept, OnlyOfferedKept DEF ContractHolds, ContractInv, DeployInv
<1>2. NeverUndone'
  BY NeverUndoneKept
<1> QED
  BY <1>1, <1>2 DEF ContractHolds

\* One request at a time and with a store whose writes succeed, the gateway keeps
\* the promise of RuntimeContract: a request changes at most the item it names, in
\* effect, and a checkpoint, a reload and a request that was rolled back change
\* nothing.  Any other call may fail when the gateway is not killed or takes no
\* checkpoints; it may be killed anywhere when nothing fails.
THEOREM RuntimeImplementsContract ==
  ASSUME ~Overlap, "store" \notin Faults,
         MaxCrashes = 0 \/ Faults = {} \/ "checkpoint" \notin Offered
  PROVE  Spec => ImplementsContract
<1>1. Init => Contract!Init
  <2> SUFFICES ASSUME Init PROVE Contract!Init
    OBVIOUS
  <2>1. \A h \in Handlers : pc[h] = "idle"
    BY DEF Init
  <2>2. Current = NoCurrent
    BY <2>1 DEF Current, Quiescent, At
  <2>3. checkpoint.meta = Empty /\ log = <<>> /\ Empty \in Content
    BY DEF Init, NoCheckpoint, Empty, Content
  <2>4. Declared = Effective(checkpoint.meta, log)
    BY <2>1 DEF Declared, UndoingCheckpoint, At, EffectiveState
  <2>5. Declared = Empty
    BY <2>3, <2>4, EffectiveOfEmpty
  <2> QED
    BY <2>2, <2>5 DEF Contract!Init, Empty
<1>2. Init => ContractHolds
  <2> SUFFICES ASSUME Init PROVE ContractHolds
    OBVIOUS
  <2>1. OnlyOffered /\ NeverUndone
    BY DEF Init, OnlyOffered, NeverUndone, ReplaySteps
  <2> QED
    BY <2>1, InitContract DEF ContractHolds
<1>3. ContractHolds /\ [Next]_vars => ContractHolds'
  BY ContractHoldsKept
<1>4. ContractHolds /\ ContractHolds' /\ [Next]_vars => [Contract!Next]_(Contract!contractVars)
  BY ContractStep, NoCutUndo DEF ContractHolds, Contract!contractVars
<1> QED
  BY <1>1, <1>2, <1>3, <1>4, PTL DEF Spec, ImplementsContract, Contract!Spec
-----------------------------------------------------------------------------
(* Directory, log and checkpoint between requests *)

\* One at a time, and while nothing fails and the gateway is not killed, requests
\* are not undone, and every event has its package.
Smooth ==
    Faults = {} /\ crashes = 0 =>
        /\ \A h \in Handlers : pc[h] \notin {"undo_cp", "undo_log"}
        /\ \A h \in Handlers : pc[h] = "unwind" =>
              \A e \in Event : Known(e) => e.id # req[h].id
        /\ \A e \in Event : Known(e) /\ e.type # "plugin_remove" => packages[e.id] # None

SmoothInv == StagedInv /\ Single /\ Smooth /\ (Faults = {} => failures = 0)

\* Without failures a deploy does not fail: every event has its package.
LEMMA NothingFails ==
  ASSUME SmoothInv, Faults = {}, crashes = 0, NEW h \in Handlers, Work(h)
  PROVE  /\ \A kinds : ~Fault(kinds)
         /\ ReplayEvent(h) \/ Repack(h) \/ Reinstall(h) => pc'[h] \in ReplaySteps
         /\ pc'[h] \notin {"undo_cp", "undo_log"}
<1>0. /\ DeployInv /\ TypeOK /\ PackingNext /\ pc \in [Handlers -> Steps] /\ pc[h] # "idle"
      /\ \A g \in Handlers : g # h => pc[g] = "idle"
      /\ pc[h] \notin {"undo_cp", "undo_log"}
  BY Working DEF SmoothInv, StagedInv, DeployInv, TypeOK, Single, Smooth
<1>1. \A kinds : ~Fault(kinds)
  BY DEF Fault
<1>2. ASSUME pc[h] \in ReplaySteps, NEW k \in req[h].todo,
             req[h].events[k].type # "plugin_remove"
      PROVE  LET e == req[h].events[k] IN
             /\ packages[e.id] # None /\ e.version \in Versions
             /\ pc[h] # "repack" => Staged(e)
  <2> DEFINE e == req[h].events[k]
  <2>1. e \in Event /\ Known(e)
    BY <1>0, <1>2, ReplayedKnown
  <2> HIDE DEF e
  <2>2. packages[e.id] # None
    BY <1>2, <2>1 DEF SmoothInv, Smooth, e
  <2>3. PackageKept(e) /\ e.version \in Versions
    BY <1>2, <2>1, EventFields DEF SmoothInv, StagedInv, PackagesKept, e
  <2>4. failures = 0
    BY DEF SmoothInv
  <2>5. pc[h] # "repack" => ~BeingRepacked(e.id)
    BY <1>0 DEF BeingRepacked, At
  <2>6. pc[h] # "repack" => Staged(e)
    BY <2>2, <2>3, <2>4, <2>5 DEF PackageKept
  <2> QED
    BY <2>2, <2>3, <2>6 DEF e
<1>3. ASSUME ReplayEvent(h) PROVE pc'[h] \in ReplaySteps
  <2>1. PICK k \in req[h].todo : ReplaySkill(h, k) \/ ReplayPlugin(h, k) \/ ReplayRemove(h, k)
    BY <1>3 DEF ReplayEvent
  <2>2. pc[h] = "replay"
    BY <1>3 DEF ReplayEvent, At
  <2>3. req[h].events[k].type = "plugin_remove" \/ Staged(req[h].events[k])
    BY <1>2, <2>2 DEF ReplaySteps
  <2>4. Replayed(h, k) \/ Goto(h, "repack")
    BY <1>1, <2>1, <2>3 DEF ReplaySkill, ReplayPlugin, ReplayRemove
  <2> QED
    BY <1>0, <2>2, <2>4 DEF Replayed, Goto, ReplaySteps
<1>4. ASSUME Repack(h) PROVE pc'[h] \in ReplaySteps
  <2>1. pc[h] = "repack"
    BY <1>4 DEF Repack, At
  <2>2. PICK k \in req[h].todo :
          /\ NextToReplay(req[h].events, req[h].todo, k)
          /\ req[h].events[k].type = "plugin_install"
    BY <1>0, <2>1 DEF PackingNext
  <2>3. RepackPlugin(h, k)
    BY <1>0, <2>1, <2>2, RepackStep
  <2>4. packages[req[h].events[k].id] # None
    BY <1>2, <2>1, <2>2 DEF ReplaySteps
  <2>5. Goto(h, "reinstall")
    BY <1>1, <2>3, <2>4 DEF RepackPlugin
  <2> QED
    BY <1>0, <2>5 DEF Goto, ReplaySteps
<1>5. ASSUME Reinstall(h) PROVE pc'[h] \in ReplaySteps
  <2>1. pc[h] = "reinstall"
    BY <1>5 DEF Reinstall, At
  <2>2. PICK j \in req[h].todo :
          /\ NextToReplay(req[h].events, req[h].todo, j)
          /\ req[h].events[j].type = "plugin_install"
    BY <1>0, <2>1 DEF PackingNext
  <2>3. PICK k \in req[h].todo :
          NextToReplay(req[h].events, req[h].todo, k) /\ ReinstallPlugin(h, k)
    BY <1>5 DEF Reinstall
  <2>4. j = k
    <3>1. j \in Nat /\ k \in Nat
      BY <1>0, <2>1, ReplayedKnown DEF ReplaySteps
    <3> QED
      BY <2>2, <2>3, <3>1, NextIsOne
  <2>5. Staged(req[h].events[k]) /\ req[h].events[k].version \in Versions
    BY <1>2, <2>1, <2>2, <2>4 DEF ReplaySteps
  <2>6. HasTarball(req[h].events[k].id)
    <3> DEFINE e == req[h].events[k]
    <3>1. packages[e.id] = [version |-> e.version, packed |-> TRUE]
      BY <2>2, <2>4, <2>5, e.type = "plugin_install" DEF Staged, ExpectedPackage
    <3> HIDE DEF e
    <3> QED
      BY <2>5, <3>1 DEF HasTarball, e
  <2>7. Goto(h, "replay")
    BY <1>1, <2>3, <2>6 DEF ReinstallPlugin
  <2> QED
    BY <1>0, <2>7 DEF Goto, ReplaySteps
<1>6. pc'[h] \notin {"undo_cp", "undo_log"}
  BY <1>0, <1>3, <1>4, <1>5, UndoActions DEF ReplaySteps
<1> QED
  BY <1>1, <1>3, <1>4, <1>5, <1>6

\* Only an install that has not saved its event unwinds.
LEMMA UnwindActions ==
  ASSUME SmoothInv, Faults = {}, crashes = 0, NEW h \in Handlers, Work(h), pc'[h] = "unwind"
  PROVE  pc[h] \in Unlogged \ {"save"}
<1>0. /\ TypeOK /\ pc \in [Handlers -> Steps] /\ pc[h] \notin {"undo_cp", "undo_log"}
      /\ \A kinds : ~Fault(kinds)
  BY NothingFails DEF SmoothInv, StagedInv, DeployInv, TypeOK, Smooth
<1> USE DEF At, Goto, Return, Unlogged
<1>1. CASE \/ ReadBaseline(h) \/ ReadEffective(h) \/ Backup(h) \/ StagePackage(h)
           \/ PackPlugin(h) \/ InstallPlugin(h) \/ LoadLog(h) \/ SaveLog(h)
  BY <1>0, <1>1 DEF ReadBaseline, ReadEffective, Backup, StagePackage, PackPlugin,
              InstallPlugin, LoadLog, SaveLog
<1>2. CASE \/ Capture(h) \/ LoadPrevious(h) \/ ReadSkills(h) \/ ReadPlugins(h)
           \/ SaveCheckpoint(h) \/ ClearLog(h)
  BY <1>0, <1>2
  DEF Capture, LoadPrevious, ReadSkills, ReadPlugins, SaveCheckpoint, ClearLog
<1>3. CASE \/ LoadBaseline(h) \/ Reset(h) \/ CopySnapshot(h) \/ Up(h) \/ LoadReplay(h)
           \/ RecordDeploy(h)
  BY <1>0, <1>3 DEF LoadBaseline, Reset, CopySnapshot, Up, LoadReplay, RecordDeploy
<1>4. CASE ReplayEvent(h) \/ Repack(h) \/ Reinstall(h)
  BY <1>4, NothingFails DEF ReplaySteps
<1>5. CASE AppendRecord(h) \/ UndoCheckpoint(h) \/ UndoLog(h) \/ Unwind(h)
  BY <1>0, <1>5 DEF AppendRecord, UndoCheckpoint, UndoLog, Unwind
<1> QED
  BY <1>1, <1>2, <1>3, <1>4, <1>5 DEF Work

LEMMA SmoothWorks ==
  ASSUME SmoothInv, NEW h \in Handlers, Work(h)
  PROVE  Smooth'
<1>0. /\ DeployInv /\ TypeOK /\ Fits /\ Distinct /\ crashes' = crashes
      /\ \A g \in Handlers : g # h => pc[g] = "idle" /\ pc'[g] = pc[g] /\ req'[g] = req[g]
  <2>1. DeployInv /\ TypeOK /\ Fits /\ Distinct
    BY DEF SmoothInv, StagedInv, DeployInv
  <2>2. \A g \in Handlers : g # h => pc[g] = "idle"
    BY Working DEF SmoothInv, Single
  <2> QED
    BY <2>1, <2>2, CounterTypes, OthersAlone
<1> SUFFICES ASSUME Faults = {}, crashes = 0
             PROVE  /\ \A g \in Handlers : pc'[g] \notin {"undo_cp", "undo_log"}
                    /\ \A g \in Handlers : pc'[g] = "unwind" =>
                          \A e \in Event : Known(e)' => e.id # req'[g].id
                    /\ \A e \in Event : Known(e)' /\ e.type # "plugin_remove"
                                        => packages'[e.id] # None
  BY <1>0 DEF Smooth
<1>1. \A g \in Handlers : pc'[g] \notin {"undo_cp", "undo_log"}
  BY <1>0, NothingFails
<1>2. ASSUME NEW g \in Handlers, pc'[g] = "unwind", NEW e \in Event, Known(e)'
      PROVE  e.id # req'[g].id
  <2>1. g = h
    BY <1>0, <1>2
  <2>2. pc[h] \in Unlogged \ {"save"} /\ req'[h].id = req[h].id
    BY <1>0, <1>2, <2>1, UnwindActions, RequestKept DEF SameRequest
  <2>3. Known(e)
    BY <1>0, <1>2, <2>2, KnownNext
  <2>4. pc[h] # "idle"
    BY <2>2 DEF Unlogged
  <2> QED
    BY <1>0, <2>1, <2>2, <2>3, <2>4 DEF Distinct
<1>3. ASSUME NEW e \in Event, Known(e)', e.type # "plugin_remove"
      PROVE  packages'[e.id] # None
  <2>1. CASE Known(e)
    <3>1. packages[e.id] # None /\ e.id \in RequestIds
      BY <1>0, <1>3, <2>1 DEF SmoothInv, Smooth, Distinct
    <3>2. PackageKept(e)'
      BY <1>3, <2>1, EventPackageKept DEF SmoothInv
    <3>3. ~(e.id = req[h].id /\ pc[h] \in {"stage", "pack"})
      BY <1>0, <2>1 DEF Distinct, Unlogged
    <3>4. ~(e.id = req[h].id /\ Unwind(h))
      <4> SUFFICES ASSUME e.id = req[h].id, Unwind(h) PROVE FALSE
        OBVIOUS
      <4>1. pc[h] = "unwind"
        BY DEF Unwind, At
      <4> QED
        BY <2>1, <4>1 DEF SmoothInv, Smooth
    <3>5. ASSUME NEW k \in req[h].todo,
                 /\ pc[h] \in {"replay", "repack"}
                 /\ req[h].events[k].id = e.id
                 /\ \/ packages'[e.id] = [version |-> req[h].events[k].version, packed |-> FALSE]
                    \/ packages'[e.id] = [version |-> packages[e.id].version, packed |-> TRUE]
          PROVE  packages'[e.id] # None
      <4>1. req[h].events[k] = e
        <5>1. req[h].events[k] \in Event /\ Known(req[h].events[k])
          BY <1>0, <3>5, ReplayedKnown DEF ReplaySteps
        <5> QED
          BY <1>0, <2>1, <3>5, <5>1 DEF Distinct
      <4>2. e.version \in Versions /\ packages[e.id].version \in Versions
        <5>1. packages[e.id] \in Package
          BY <1>0, <3>1 DEF TypeOK
        <5> QED
          BY <1>3, <5>1, EventFields DEF Package
      <4>3. \A b \in BOOLEAN : \A v \in Versions : [version |-> v, packed |-> b] # None
        BY PackageAssumption DEF Package
      <4> QED
        BY <3>5, <4>1, <4>2, <4>3
    <3> DEFINE Replays(k) ==
                 /\ NextToReplay(req[h].events, req[h].todo, k)
                 /\ req[h].events[k].id = e.id /\ req[h].events[k].type = "plugin_install"
                 /\ \/ /\ pc[h] = "replay" /\ pc'[h] = "repack" /\ UNCHANGED req
                       /\ Staged(req[h].events[k])
                       /\ packages'[e.id] = [version |-> req[h].events[k].version, packed |-> FALSE]
                    \/ /\ pc[h] = "repack" /\ packages[e.id] # None
                       /\ packages'[e.id] = [version |-> packages[e.id].version, packed |-> TRUE]
    <3>6. \/ packages'[e.id] = packages[e.id]
          \/ e.id = req[h].id /\ pc[h] \in {"stage", "pack"}
          \/ e.id = req[h].id /\ Unwind(h)
          \/ \E k \in req[h].todo : Replays(k)
      BY <1>0, <3>1, PackageEffects
    <3>7. CASE \E k \in req[h].todo : Replays(k)
      <4>1. PICK k \in req[h].todo : Replays(k)
        BY <3>7
      <4> QED
        BY <3>5, <4>1
    <3> QED
      BY <3>1, <3>3, <3>4, <3>6, <3>7
  <2>2. CASE SaveLog(h) /\ pc[h] = "save" /\ e = NewEvent(req[h])
    <3>1. Staged(e) /\ UNCHANGED packages /\ e.version \in Versions
      BY <1>0, <1>3, <2>2, NewEventStaged, EventFields DEF SmoothInv, StagedInv, SaveLog
    <3>2. \A b \in BOOLEAN : [version |-> e.version, packed |-> b] # None
      BY <3>1, PackageAssumption DEF Package
    <3> QED
      BY <3>1, <3>2 DEF Staged, ExpectedPackage
  <2> QED
    BY <1>0, <1>3, <2>1, <2>2, KnownNext
<1> QED
  BY <1>1, <1>2, <1>3

LEMMA InitSmooth == Init => SmoothInv
<1> SUFFICES ASSUME Init PROVE SmoothInv
  OBVIOUS
<1>1. /\ log = <<>> /\ failures = 0
      /\ \A h \in Handlers : pc[h] = "idle" /\ req[h] = NoRequest
  BY DEF Init
<1>2. \A e : ~Known(e)
  BY <1>1 DEF Known, NoRequest, ReplaySteps
<1>3. Single /\ Smooth
  BY <1>1, <1>2 DEF Single, Smooth
<1> QED
  BY <1>1, <1>3, InitStaged DEF SmoothInv

LEMMA SmoothKept ==
  ASSUME SmoothInv, ~Overlap, Faults = {}, [Next]_vars
  PROVE  SmoothInv'
<1>0. TypeOK /\ StagedInv
  BY DEF SmoothInv, StagedInv, DeployInv
<1>1. StagedInv'
  BY <1>0, StagedKept
<1>2. ASSUME NEW h \in Handlers, Begin(h) \/ Work(h)
      PROVE  SmoothInv'
  <2>1. Single' /\ \A g \in Handlers : g # h => pc'[g] = "idle"
    BY <1>0, <1>2, SingleKept DEF SmoothInv
  <2>2. failures' = failures
    BY <1>0, <1>2, CounterTypes
  <2>3. CASE Begin(h)
    <3>1. /\ pc'[h] \notin {"undo_cp", "undo_log", "unwind"}
          /\ UNCHANGED <<packages, crashes>>
          /\ \A e : Known(e)' => Known(e)
      BY <1>0, <2>3, BeginBusy, BeginStaged DEF Begin, stores
    <3>2. Smooth'
      BY <2>1, <3>1 DEF SmoothInv, Smooth
    <3> QED
      BY <1>1, <2>1, <2>2, <3>2 DEF SmoothInv
  <2>4. CASE Work(h)
    BY <1>1, <2>1, <2>2, <2>4, SmoothWorks DEF SmoothInv
  <2> QED
    BY <1>2, <2>3, <2>4
<1>3. CASE Crash
  <2>1. crashes' # 0 /\ UNCHANGED failures /\ \A h \in Handlers : pc'[h] = "idle"
    <3>1. crashes \in 0..MaxCrashes /\ MaxCrashes \in Nat
      BY <1>0, BoundsAssumption DEF TypeOK
    <3> QED
      BY <1>3, <3>1 DEF Crash
  <2> QED
    BY <1>1, <2>1 DEF SmoothInv, Smooth, Single
<1>4. CASE UNCHANGED vars
  <2>1. \A e : Known(e)' <=> Known(e)
    BY <1>4 DEF vars, Known
  <2>2. Smooth'
    BY <1>4, <2>1 DEF vars, SmoothInv, Smooth
  <2> QED
    BY <1>1, <1>4, <2>2 DEF vars, SmoothInv, Single
<1> QED
  BY <1>2, <1>3, <1>4 DEF Next

\* As long as nothing fails, what a request finds or has kept of the directory
\* is the effective state, until it saves and after it has rebuilt.
Synced(h) ==
    /\ (\/ pc[h] \in {"backup", "stage", "pack", "install", "capture", "previous",
                      "skills", "plugins", "save_cp", "append"}
        \/ pc[h] \in {"baseline", "effective", "load", "save"} /\ req[h].op # "plugin_install")
       => component = EffectiveState
    /\ (/\ req[h].op = "plugin_install"
        /\ pc[h] \in {"stage", "pack", "install", "baseline", "effective", "unwind"})
       => req[h].held = EffectiveState
    /\ (/\ req[h].op = "checkpoint"
        /\ pc[h] \in {"previous", "load", "skills", "plugins", "save_cp"})
       => req[h].held = EffectiveState

InSync ==
    crashes = 0 =>
        /\ checkpoint.meta = checkpoint.snapshot
        /\ Quiescent => component = EffectiveState
        /\ \A h \in Handlers : Synced(h)

SyncInv == SmoothInv /\ RecordInv /\ ContractInv /\ InSync

\* The steps of a request that nothing fails, and what they leave alone.
LEMMA LookingSteps ==
  ASSUME TypeOK, Fits, Faults = {}, NEW h \in Handlers, Synced(h),
         \/ ReadBaseline(h) \/ ReadEffective(h) \/ Backup(h) \/ StagePackage(h)
         \/ PackPlugin(h) \/ LoadLog(h) \/ Capture(h) \/ LoadPrevious(h)
         \/ ReadSkills(h) \/ ReadPlugins(h) \/ AppendRecord(h)
  PROVE  /\ UNCHANGED <<checkpoint, log, component>>
         /\ Synced(h)' /\ (pc'[h] = "idle" => component = EffectiveState)
<1>0. /\ pc \in [Handlers -> Steps] /\ req \in [Handlers -> Request] /\ pc[h] # "idle"
      /\ OpFits(pc[h], req[h].op) /\ req[h] \in Request
      /\ \A kinds : ~Fault(kinds)
  BY Working DEF TypeOK, Fits, Fault, Work
<1> USE DEF At, Goto, Return
<1>1. UNCHANGED <<checkpoint, log, component>>
  BY DEF ReadBaseline, ReadEffective, Backup, StagePackage, PackPlugin, LoadLog,
     Capture, LoadPrevious, ReadSkills, ReadPlugins, AppendRecord, stores
<1>2. EffectiveState' = EffectiveState
  BY <1>1 DEF EffectiveState
<1>3. pc'[h] # "idle" => SameRequest(h)
  BY RequestKept DEF Work
<1>4. CASE ReadBaseline(h)
  <2>1. pc[h] = "baseline" /\ (pc'[h] # "idle" => req'[h].held = req[h].held)
    BY <1>0, <1>4 DEF ReadBaseline, Request
  <2>2. \/ req[h].op = "skill_deploy" /\ pc'[h] \in {"stage", "idle"}
        \/ req[h].op = "plugin_install" /\ pc'[h] = "effective"
        \/ req[h].op = "plugin_remove" /\ pc'[h] \in {"save", "idle"}
    BY <1>0, <1>4 DEF ReadBaseline
  <2> QED
    BY <1>1, <1>2, <1>3, <2>1, <2>2 DEF Synced, SameRequest
<1>5. CASE ReadEffective(h)
  <2>1. pc[h] = "effective" /\ (pc'[h] # "idle" => UNCHANGED req)
    BY <1>0, <1>5 DEF ReadEffective
  <2>2. \/ req[h].op = "plugin_install" /\ pc'[h] \in {"unwind", "load"}
        \/ req[h].op = "plugin_remove" /\ pc'[h] \in {"load", "idle"}
    BY <1>0, <1>5 DEF ReadEffective
  <2> QED
    BY <1>1, <1>2, <1>3, <2>1, <2>2 DEF Synced, SameRequest
<1>6. CASE Backup(h)
  <2>1. /\ pc[h] = "backup" /\ pc'[h] = "stage" /\ req'[h].held = component
        /\ req[h].op = "plugin_install"
    BY <1>0, <1>6 DEF Backup, Request, OpFits
  <2> QED
    BY <1>1, <1>2, <1>3, <2>1 DEF Synced, SameRequest
<1>7. CASE StagePackage(h)
  <2>1. /\ pc[h] = "stage" /\ UNCHANGED req /\ req[h].op \in Installs
        /\ pc'[h] = IF req[h].op = "skill_deploy" THEN "load" ELSE "pack"
    BY <1>0, <1>7 DEF StagePackage, OpFits
  <2> QED
    BY <1>1, <1>2, <2>1 DEF Synced, Installs
<1>8. CASE PackPlugin(h)
  <2>1. /\ pc[h] = "pack" /\ UNCHANGED req /\ pc'[h] = "install"
        /\ req[h].op = "plugin_install"
    BY <1>0, <1>8 DEF PackPlugin, OpFits
  <2> QED
    BY <1>1, <1>2, <2>1 DEF Synced
<1>9. CASE LoadLog(h)
  <2>1. pc[h] = "load" /\ (pc'[h] # "idle" => req'[h].held = req[h].held)
    BY <1>0, <1>9 DEF LoadLog, Request
  <2>2. \/ req[h].op = "checkpoint" /\ pc'[h] = "skills"
        \/ req[h].op = "plugin_remove" /\ pc'[h] = "baseline"
        \/ req[h].op \notin {"checkpoint", "plugin_remove"} /\ pc'[h] = "save"
        \/ req[h].op = "skill_remove" /\ pc'[h] = "idle"
    BY <1>0, <1>9 DEF LoadLog
  <2> QED
    BY <1>1, <1>2, <1>3, <2>1, <2>2 DEF Synced, SameRequest
<1>10. CASE Capture(h)
  <2>1. /\ pc[h] = "capture" /\ pc'[h] = "previous" /\ req'[h].held = component
        /\ req[h].op = "checkpoint"
    BY <1>0, <1>10 DEF Capture, Request, OpFits, CheckpointSteps
  <2> QED
    BY <1>1, <1>2, <1>3, <2>1 DEF Synced, SameRequest
<1>11. CASE LoadPrevious(h)
  <2>1. /\ pc[h] = "previous" /\ pc'[h] = "load" /\ req'[h].held = req[h].held
        /\ req[h].op = "checkpoint"
    BY <1>0, <1>11 DEF LoadPrevious, Request, OpFits, CheckpointSteps
  <2> QED
    BY <1>1, <1>2, <1>3, <2>1 DEF Synced, SameRequest
<1>12. CASE ReadSkills(h) \/ ReadPlugins(h)
  <2>1. /\ pc[h] \in {"skills", "plugins"} /\ pc'[h] \in {"plugins", "save_cp"}
        /\ req'[h].held = req[h].held /\ req[h].op = "checkpoint"
    BY <1>0, <1>12 DEF ReadSkills, ReadPlugins, Request, OpFits, CheckpointSteps
  <2> QED
    BY <1>1, <1>2, <1>3, <2>1 DEF Synced, SameRequest
<1>13. CASE AppendRecord(h)
  <2>1. pc[h] = "append" /\ pc'[h] = "idle"
    BY <1>0, <1>13 DEF AppendRecord
  <2> QED
    BY <1>1, <2>1 DEF Synced
<1> QED
  BY <1>1, <1>4, <1>5, <1>6, <1>7, <1>8, <1>9, <1>10, <1>11, <1>12, <1>13

LEMMA ChangingSteps ==
  ASSUME SyncInv, Faults = {}, crashes = 0, NEW h \in Handlers, Work(h),
         checkpoint.meta = checkpoint.snapshot, Synced(h),
         ~(\/ ReadBaseline(h) \/ ReadEffective(h) \/ Backup(h) \/ StagePackage(h)
           \/ PackPlugin(h) \/ LoadLog(h) \/ Capture(h) \/ LoadPrevious(h)
           \/ ReadSkills(h) \/ ReadPlugins(h) \/ AppendRecord(h))
  PROVE  /\ checkpoint'.meta = checkpoint'.snapshot
         /\ Synced(h)' /\ (pc'[h] = "idle" => component' = EffectiveState')
<1>0. /\ TypeOK /\ Fits
      /\ pc \in [Handlers -> Steps] /\ req \in [Handlers -> Request] /\ pc[h] # "idle"
      /\ OpFits(pc[h], req[h].op) /\ req[h] \in Request
      /\ \A kinds : ~Fault(kinds)
  BY Working DEF SyncInv, ContractInv, DeployInv, TypeOK, Fits, Fault
<1> USE DEF At, Goto, Return
<1>1. CASE InstallPlugin(h)
  <2>1. /\ pc[h] = "install" /\ pc'[h] = "baseline" /\ req[h].op = "plugin_install"
        /\ UNCHANGED <<req, checkpoint, log>>
    BY <1>0, <1>1 DEF InstallPlugin, OpFits
  <2> QED
    BY <2>1 DEF Synced, EffectiveState
<1>2. CASE SaveLog(h) \/ ClearLog(h)
  <2>1. pc'[h] = "restore" /\ UNCHANGED checkpoint
    BY <1>0, <1>2 DEF SaveLog, ClearLog
  <2> QED
    BY <2>1 DEF Synced
<1>3. CASE SaveCheckpoint(h)
  <2>1. /\ pc[h] = "save_cp" /\ pc'[h] = "clear" /\ req[h].op = "checkpoint"
        /\ checkpoint' = [present |-> TRUE, meta |-> req[h].meta, snapshot |-> req[h].held]
    BY <1>0, <1>3 DEF SaveCheckpoint, OpFits, CheckpointSteps
  <2>2. req[h].meta = Effective(checkpoint.meta, log)
    BY <2>1 DEF SyncInv, ContractInv, Holds, Collected
  <2>3. req[h].held = EffectiveState
    BY <2>1 DEF Synced
  <2> QED
    BY <2>1, <2>2, <2>3 DEF Synced, EffectiveState
<1>4. CASE LoadBaseline(h) \/ Reset(h) \/ CopySnapshot(h) \/ Up(h) \/ LoadReplay(h)
  <2>1. pc'[h] \in RebuildSteps /\ UNCHANGED checkpoint
    BY <1>0, <1>4 DEF LoadBaseline, Reset, CopySnapshot, Up, LoadReplay, RebuildSteps, ReplaySteps, stores
  <2> QED
    BY <2>1 DEF Synced, RebuildSteps, ReplaySteps
<1>5. CASE ReplayEvent(h) \/ Repack(h) \/ Reinstall(h)
  <2>1. UNCHANGED checkpoint
    BY <1>0, <1>5, Replaying
  <2>2. pc'[h] \in ReplaySteps
    BY <1>5, NothingFails DEF SyncInv
  <2> QED
    BY <2>1, <2>2 DEF Synced, ReplaySteps
<1>6. CASE RecordDeploy(h)
  <2>1. /\ pc[h] = "replay" /\ req[h].todo = {} /\ pc'[h] \in {"idle", "append"}
        /\ UNCHANGED <<checkpoint, log, component>>
    BY <1>0, <1>6 DEF RecordDeploy
  <2>2. /\ req[h].snapshot = checkpoint.snapshot /\ req[h].events = log
        /\ Progress(req[h], component) /\ component \in Content
    BY <1>0, <2>1 DEF SyncInv, RecordInv, RebuildInv, Rebuilding, RebuildSteps, ReplaySteps, TypeOK
  <2>3. component = Effective(req[h].snapshot, req[h].events)
    BY <1>0, <2>1, <2>2, ProgressEnd
  <2>4. component' = EffectiveState'
    BY <2>1, <2>2, <2>3 DEF EffectiveState
  <2> QED
    BY <2>1, <2>4 DEF Synced
<1>7. CASE Unwind(h)
  <2>1. /\ pc[h] = "unwind" /\ req[h].op = "plugin_install" /\ component' = req[h].held
        /\ pc'[h] = "idle" /\ UNCHANGED <<checkpoint, log>>
    BY <1>0, <1>7 DEF Unwind, OpFits
  <2> QED
    BY <2>1 DEF Synced, EffectiveState
<1>8. ~UndoCheckpoint(h) /\ ~UndoLog(h)
  BY DEF SyncInv, SmoothInv, Smooth, UndoCheckpoint, UndoLog, At
<1> QED
  BY <1>1, <1>2, <1>3, <1>4, <1>5, <1>6, <1>7, <1>8 DEF Work

LEMMA InSyncKept ==
  ASSUME SyncInv, ~Overlap, Faults = {}, [Next]_vars
  PROVE  InSync'
<1>0. /\ TypeOK /\ Fits /\ Single /\ InSync
      /\ crashes \in Nat
  <2>1. MaxCrashes \in Nat
    BY BoundsAssumption
  <2> QED
    BY <2>1 DEF SyncInv, ContractInv, DeployInv, TypeOK
<1>1. ASSUME NEW h \in Handlers, Begin(h) \/ Work(h), crashes' = 0
      PROVE  InSync'
  <2>1. \A g \in Handlers : g # h => pc[g] = "idle" /\ pc'[g] = "idle"
    BY <1>0, <1>1, SingleKept
  <2>2. \A g \in Handlers : g # h => Synced(g)'
    BY <2>1 DEF Synced
  <2>3. CASE Begin(h)
    <3>1. /\ crashes = 0 /\ UNCHANGED <<checkpoint, log, component>>
          /\ pc[h] = "idle"
      BY <1>1, <2>3 DEF Begin, stores, At
    <3>2. Quiescent /\ EffectiveState' = EffectiveState
      BY <2>1, <3>1 DEF Quiescent, At, EffectiveState
    <3>3. component = EffectiveState /\ checkpoint.meta = checkpoint.snapshot
      BY <1>0, <3>1, <3>2 DEF InSync
    <3>4. pc'[h] \in {"baseline", "load", "backup", "effective", "capture", "restore"}
      BY <1>0, <2>3, BeginBusy
    <3>5. Synced(h)'
      <4>1. PICK r \in Requests :
              /\ pc' = [pc EXCEPT ![h] = FirstStep(r.op)]
              /\ req' = [req EXCEPT ![h] =
                    [NoRequest EXCEPT !.op = r.op, !.id = started + 1, !.item = r.item,
                                      !.version = r.version, !.source = r.source]]
        BY <2>3 DEF Begin, Goto
      <4>2. pc'[h] = FirstStep(r.op) /\ req'[h].op = r.op
        BY <1>0, <4>1 DEF TypeOK, NoRequest
      <4>3. /\ r.op = "plugin_install" => pc'[h] = "backup"
            /\ r.op = "checkpoint" => pc'[h] = "capture"
        BY <4>2 DEF FirstStep
      <4> QED
        BY <3>1, <3>2, <3>3, <3>4, <4>2, <4>3 DEF Synced
    <3>6. ~Quiescent'
      BY <3>4 DEF Quiescent, At
    <3> QED
      BY <2>2, <3>1, <3>3, <3>5, <3>6 DEF InSync
  <2>4. CASE Work(h)
    <3>1. crashes = 0
      BY <1>0, <1>1, <2>4, CounterTypes
    <3>2. Synced(h) /\ checkpoint.meta = checkpoint.snapshot
      BY <1>0, <3>1 DEF InSync
    <3>3. /\ checkpoint'.meta = checkpoint'.snapshot
          /\ Synced(h)' /\ (pc'[h] = "idle" => component' = EffectiveState')
      <4>1. CASE \/ ReadBaseline(h) \/ ReadEffective(h) \/ Backup(h) \/ StagePackage(h)
                 \/ PackPlugin(h) \/ LoadLog(h) \/ Capture(h) \/ LoadPrevious(h)
                 \/ ReadSkills(h) \/ ReadPlugins(h) \/ AppendRecord(h)
        <5>1. /\ UNCHANGED <<checkpoint, log, component>>
              /\ Synced(h)' /\ (pc'[h] = "idle" => component = EffectiveState)
          BY <1>0, <3>2, <4>1, LookingSteps
        <5> QED
          BY <3>2, <5>1 DEF EffectiveState
      <4> QED
        BY <2>4, <3>1, <3>2, <4>1, ChangingSteps
    <3>4. Quiescent' => component' = EffectiveState'
      BY <3>3 DEF Quiescent, At
    <3> QED
      BY <2>2, <3>3, <3>4 DEF InSync
  <2> QED
    BY <1>1, <2>3, <2>4
<1>2. CASE Crash
  <2>1. crashes' # 0
    BY <1>0, <1>2 DEF Crash
  <2> QED
    BY <2>1 DEF InSync
<1>3. CASE UNCHANGED vars
  BY <1>0, <1>3 DEF vars, InSync, Synced, Quiescent, At, EffectiveState
<1> QED
  BY <1>1, <1>2, <1>3 DEF Next, InSync

\* While no call fails and the gateway is not killed, the runtime's directory
\* between two requests is what the checkpoint and the log list, and the
\* checkpoint's list is what its snapshot holds (DeployService, RuntimeCheckpoint).
THEOREM RuntimeStaysInSync ==
  ASSUME ~Overlap, Faults = {}
  PROVE  Spec => []QuiescentInSync
<1>1. Init => SyncInv
  <2> SUFFICES ASSUME Init PROVE SyncInv
    OBVIOUS
  <2>1. /\ \A h \in Handlers : pc[h] = "idle" /\ req[h] = NoRequest
        /\ checkpoint.meta = Empty /\ checkpoint.snapshot = Empty
        /\ component = Empty /\ log = <<>> /\ Empty \in Content
    BY DEF Init, NoCheckpoint, Empty, Content
  <2>2. EffectiveState = Empty
    BY <2>1, EffectiveOfEmpty DEF EffectiveState
  <2>3. InSync
    BY <2>1, <2>2 DEF InSync, Synced
  <2> QED
    BY <2>3, InitSmooth, InitRecord, InitContract DEF SyncInv
<1>2. SyncInv /\ [Next]_vars => SyncInv'
  BY SmoothKept, RecordKept, ContractKept, InSyncKept DEF SyncInv
<1>3. SyncInv => QuiescentInSync
  BY DEF SyncInv, InSync, QuiescentInSync
<1> QED
  BY <1>1, <1>2, <1>3, PTL DEF Spec
-----------------------------------------------------------------------------
(* What a failed request puts back *)

\* The steps before an operation's first write of the log.
Unedited == {"capture", "previous", "baseline", "backup", "stage", "pack", "install",
             "effective", "load", "save", "skills", "plugins", "save_cp", "clear"}

\* The steps at which an operation has loaded the log.
Loaded == {"save", "skills", "plugins", "save_cp", "clear", "undo_cp"} \cup AfterSave

\* What a request has changed of what it found, and what it keeps of it.
Remembers(h) ==
    /\ pc[h] \in Unedited => log = before.log
    /\ \/ pc[h] \in Loaded /\ req[h].op # "reload"
       \/ pc[h] = "baseline" /\ req[h].op = "plugin_remove"
       => req[h].log0 = before.log
    /\ pc[h] # "idle" /\ req[h].op # "checkpoint" => checkpoint = before.checkpoint
    /\ pc[h] \in {"capture", "previous", "load", "skills", "plugins", "save_cp", "undo_log"}
       => checkpoint = before.checkpoint
    /\ (/\ req[h].op = "checkpoint"
        /\ pc[h] \in Loaded \cup {"load"})
       => req[h].previous = before.checkpoint

\* The same of the runtime's directory and a plugin install.
RemembersRuntime(h) ==
    /\ pc[h] = "backup" => component = before.component
    /\ (pc[h] \notin {"idle", "backup"} /\ req[h].op = "plugin_install")
       => req[h].held = before.component

LEMMA RemembersKept ==
  ASSUME TypeOK, Fits, "store" \notin Faults, NEW h \in Handlers, Work(h), UNCHANGED before,
         Remembers(h)
  PROVE  Remembers(h)'
<1>0. /\ pc \in [Handlers -> Steps] /\ req \in [Handlers -> Request] /\ pc[h] # "idle"
      /\ req[h] \in Request /\ OpFits(pc[h], req[h].op)
  BY Working DEF TypeOK, Fits
<1>1. CASE pc'[h] = "idle"
  BY <1>1 DEF Remembers, Unedited, Loaded, AfterSave, RebuildSteps, ReplaySteps
<1>2. ASSUME pc'[h] # "idle" PROVE Remembers(h)'
  <2> USE DEF At, Goto, Return, Remembers, Unedited, Loaded, AfterSave, RebuildSteps, ReplaySteps
  <2>0. SameRequest(h)
    BY <1>2, RequestKept
  <2>1. CASE ReadBaseline(h)
    BY <1>0, <1>2, <2>0, <2>1 DEF ReadBaseline, stores, SameRequest, Request, OpFits
  <2>2. CASE ReadEffective(h)
    BY <1>0, <1>2, <2>0, <2>2 DEF ReadEffective, stores, SameRequest, OpFits
  <2>3. CASE Backup(h) \/ StagePackage(h) \/ PackPlugin(h) \/ InstallPlugin(h)
    BY <1>0, <1>2, <2>0, <2>3
    DEF Backup, StagePackage, PackPlugin, InstallPlugin, stores, SameRequest, OpFits, Installs
  <2>4. CASE LoadLog(h)
    <3>1. /\ pc[h] = "load" /\ UNCHANGED <<checkpoint, log>>
          /\ req' = [req EXCEPT ![h].log0 = log]
          /\ pc'[h] \in {"skills", "baseline", "save"}
          /\ pc'[h] = "skills" => req[h].op = "checkpoint"
      BY <1>0, <1>2, <2>4 DEF LoadLog, stores
    <3>2. req'[h].log0 = log /\ req'[h].previous = req[h].previous
      BY <1>0, <3>1 DEF Request
    <3> QED
      BY <2>0, <3>1, <3>2 DEF SameRequest
  <2>5. CASE SaveLog(h)
    BY <1>0, <1>2, <2>0, <2>5 DEF SaveLog, SameRequest, OpFits, EditOps
  <2>6. CASE Capture(h)
    BY <1>0, <1>2, <2>0, <2>6 DEF Capture, stores, SameRequest, OpFits, CheckpointSteps
  <2>7. CASE LoadPrevious(h)
    <3>1. /\ pc[h] = "previous" /\ pc'[h] = "load" /\ UNCHANGED <<checkpoint, log>>
          /\ req' = [req EXCEPT ![h].previous = checkpoint]
      BY <1>0, <1>2, <2>7 DEF LoadPrevious, stores
    <3>2. req'[h].previous = checkpoint
      BY <1>0, <3>1 DEF Request
    <3> QED
      BY <2>0, <3>1, <3>2 DEF SameRequest
  <2>8. CASE ReadSkills(h) \/ ReadPlugins(h)
    <3>1. /\ pc[h] \in {"skills", "plugins"} /\ pc'[h] \in {"plugins", "save_cp"}
          /\ UNCHANGED <<checkpoint, log>>
          /\ \E m : req' = [req EXCEPT ![h].meta = m]
      BY <1>0, <1>2, <2>8 DEF ReadSkills, ReadPlugins, stores
    <3>2. req'[h].previous = req[h].previous /\ req'[h].log0 = req[h].log0
      BY <1>0, <3>1 DEF Request
    <3> QED
      BY <2>0, <3>1, <3>2 DEF SameRequest
  <2>9. CASE SaveCheckpoint(h)
    BY <1>0, <1>2, <2>0, <2>9 DEF SaveCheckpoint, SameRequest, OpFits, CheckpointSteps
  <2>10. CASE ClearLog(h)
    BY <1>0, <1>2, <2>0, <2>10 DEF ClearLog, SameRequest, OpFits, CheckpointSteps
  <2>11. CASE LoadBaseline(h) \/ LoadReplay(h)
    <3>1. /\ pc[h] \in {"restore", "load_replay"} /\ pc'[h] \in {"reset", "replay"}
          /\ UNCHANGED <<checkpoint, log>>
      BY <1>0, <1>2, <2>11 DEF LoadBaseline, LoadReplay, stores
    <3>2. SameUndo(h)
      BY <1>2, <3>1, HeldKept
    <3> QED
      BY <2>0, <3>1, <3>2 DEF SameRequest, SameUndo
  <2>12. ASSUME DeployFailed(h), pc[h] \in RebuildSteps, UNCHANGED <<checkpoint, log>>
         PROVE  Remembers(h)'
    BY <1>0, <1>2, <2>0, <2>12 DEF DeployFailed, SameRequest
  <2>13. CASE Reset(h) \/ CopySnapshot(h) \/ Up(h)
    <3>1. pc[h] \in RebuildSteps /\ UNCHANGED <<checkpoint, log>>
      BY <2>13 DEF Reset, CopySnapshot, Up, stores
    <3>2. CASE UNCHANGED req /\ pc'[h] \in RebuildSteps
      BY <3>1, <3>2
    <3>3. (UNCHANGED req /\ pc'[h] \in RebuildSteps) \/ DeployFailed(h)
      BY <1>0, <2>13 DEF Reset, CopySnapshot, Up
    <3> QED
      BY <2>12, <3>1, <3>2, <3>3
  <2>14. CASE ReplayEvent(h) \/ Repack(h) \/ Reinstall(h)
    <3>1. pc[h] \in ReplaySteps /\ UNCHANGED <<checkpoint, log>>
      BY <2>14, Replaying
    <3>2. pc'[h] \in ReplaySteps \/ DeployFailed(h)
      BY <2>14, Replaying
    <3>3. CASE pc'[h] \in ReplaySteps
      <4>1. SameUndo(h)
        BY <1>2, <3>1, HeldKept
      <4> QED
        BY <2>0, <3>1, <3>3, <4>1 DEF SameRequest, SameUndo
    <3> QED
      BY <2>12, <3>1, <3>2, <3>3
  <2>15. CASE RecordDeploy(h)
    <3>1. pc[h] = "replay" /\ UNCHANGED <<checkpoint, log>>
      BY <2>15 DEF RecordDeploy
    <3>2. (UNCHANGED req /\ pc'[h] = "append") \/ DeployFailed(h)
      BY <1>0, <1>2, <2>15 DEF RecordDeploy
    <3>3. CASE UNCHANGED req /\ pc'[h] = "append"
      BY <3>1, <3>3
    <3> QED
      BY <2>12, <3>1, <3>2, <3>3
  <2>16. CASE AppendRecord(h)
    BY <1>0, <1>2, <2>0, <2>16 DEF AppendRecord
  <2>17. CASE UndoCheckpoint(h)
    BY <1>0, <1>2, <2>0, <2>17 DEF UndoCheckpoint, Fault, OpFits, CheckpointSteps
  <2>18. CASE UndoLog(h) \/ Unwind(h)
    BY <1>0, <1>2, <2>0, <2>18 DEF UndoLog, Unwind
  <2> QED
    BY <2>1, <2>2, <2>3, <2>4, <2>5, <2>6, <2>7, <2>8, <2>9, <2>10, <2>11, <2>13, <2>14,
       <2>15, <2>16, <2>17, <2>18 DEF Work
<1> QED
  BY <1>1, <1>2

\* A plugin install copies the directory once, before it touches it.
LEMMA BackupKept ==
  ASSUME TypeOK, Fits, NEW h \in Handlers, Work(h), UNCHANGED before, RemembersRuntime(h)
  PROVE  RemembersRuntime(h)'
<1>0. /\ pc \in [Handlers -> Steps] /\ req \in [Handlers -> Request] /\ pc[h] # "idle"
      /\ req[h] \in Request /\ OpFits(pc[h], req[h].op)
  BY Working DEF TypeOK, Fits
<1> USE DEF At, Goto, Return
<1>1. pc'[h] # "backup"
  <2>1. CASE \/ ReadBaseline(h) \/ ReadEffective(h) \/ Backup(h) \/ StagePackage(h)
             \/ PackPlugin(h) \/ InstallPlugin(h) \/ LoadLog(h) \/ SaveLog(h)
    BY <1>0, <2>1 DEF ReadBaseline, ReadEffective, Backup, StagePackage, PackPlugin,
                InstallPlugin, LoadLog, SaveLog
  <2>2. CASE \/ Capture(h) \/ LoadPrevious(h) \/ ReadSkills(h) \/ ReadPlugins(h)
             \/ SaveCheckpoint(h) \/ ClearLog(h)
    BY <1>0, <2>2
    DEF Capture, LoadPrevious, ReadSkills, ReadPlugins, SaveCheckpoint, ClearLog
  <2>3. CASE \/ LoadBaseline(h) \/ Reset(h) \/ CopySnapshot(h) \/ Up(h) \/ LoadReplay(h)
             \/ RecordDeploy(h)
    BY <1>0, <2>3
    DEF LoadBaseline, Reset, CopySnapshot, Up, LoadReplay, RecordDeploy, DeployFailed
  <2>4. CASE ReplayEvent(h) \/ Repack(h) \/ Reinstall(h)
    <3>1. pc[h] \in ReplaySteps /\ (pc'[h] \in ReplaySteps \/ DeployFailed(h))
      BY <2>4, Replaying
    <3> QED
      BY <1>0, <3>1 DEF DeployFailed, ReplaySteps
  <2>5. CASE AppendRecord(h) \/ UndoCheckpoint(h) \/ UndoLog(h) \/ Unwind(h)
    BY <1>0, <2>5 DEF AppendRecord, UndoCheckpoint, UndoLog, Unwind
  <2> QED
    BY <2>1, <2>2, <2>3, <2>4, <2>5 DEF Work
<1>2. CASE pc'[h] = "idle" \/ req[h].op # "plugin_install"
  BY <1>0, <1>1, <1>2, RequestKept DEF RemembersRuntime, SameRequest
<1>3. ASSUME pc'[h] # "idle", req[h].op = "plugin_install"
      PROVE  req'[h].held = before.component
  <2>1. CASE Backup(h)
    <3>1. pc[h] = "backup" /\ req' = [req EXCEPT ![h].held = component]
      BY <1>0, <1>3, <2>1 DEF Backup
    <3>2. req'[h].held = component
      BY <1>0, <3>1 DEF Request
    <3> QED
      BY <3>1, <3>2 DEF RemembersRuntime
  <2>2. ASSUME ~Backup(h) PROVE req'[h].held = req[h].held /\ pc[h] # "backup"
    <3> USE DEF DeployFailed, Request
    <3>1. CASE \/ ReadBaseline(h) \/ ReadEffective(h) \/ StagePackage(h)
               \/ PackPlugin(h) \/ InstallPlugin(h) \/ LoadLog(h) \/ SaveLog(h)
      BY <1>0, <1>3, <3>1 DEF ReadBaseline, ReadEffective, StagePackage, PackPlugin,
                  InstallPlugin, LoadLog, SaveLog
    <3>2. CASE \/ Capture(h) \/ LoadPrevious(h) \/ ReadSkills(h) \/ ReadPlugins(h)
               \/ SaveCheckpoint(h) \/ ClearLog(h)
      BY <1>0, <1>3, <3>2
      DEF Capture, LoadPrevious, ReadSkills, ReadPlugins, SaveCheckpoint, ClearLog,
          OpFits, CheckpointSteps
    <3>3. CASE \/ LoadBaseline(h) \/ Reset(h) \/ CopySnapshot(h) \/ Up(h) \/ LoadReplay(h)
               \/ RecordDeploy(h)
      BY <1>0, <1>3, <3>3
      DEF LoadBaseline, Reset, CopySnapshot, Up, LoadReplay, RecordDeploy
    <3>4. CASE ReplayEvent(h) \/ Repack(h) \/ Reinstall(h)
      <4>1. pc[h] \in ReplaySteps /\ (DeployFailed(h) \/ UNCHANGED req
               \/ \E k : req' = [req EXCEPT ![h].todo = @ \ {k}])
        BY <3>4, Replaying
      <4> QED
        BY <1>0, <1>3, <4>1 DEF ReplaySteps
    <3>5. CASE AppendRecord(h) \/ UndoCheckpoint(h) \/ UndoLog(h) \/ Unwind(h)
      BY <1>0, <1>3, <3>5 DEF AppendRecord, UndoCheckpoint, UndoLog, Unwind
    <3> QED
      BY <2>2, <3>1, <3>2, <3>3, <3>4, <3>5 DEF Work
  <2> QED
    BY <1>0, <1>3, <2>1, <2>2 DEF RemembersRuntime
<1> QED
  BY <1>1, <1>2, <1>3, RequestKept DEF RemembersRuntime, SameRequest

LEMMA BeginRemembers ==
  ASSUME TypeOK, NEW h \in Handlers, Begin(h), before' = Now
  PROVE  Remembers(h)' /\ RemembersRuntime(h)'
<1>1. PICK r \in Requests :
        /\ pc' = [pc EXCEPT ![h] = FirstStep(r.op)]
        /\ req' = [req EXCEPT ![h] =
              [NoRequest EXCEPT !.op = r.op, !.id = started + 1, !.item = r.item,
                                !.version = r.version, !.source = r.source]]
  BY DEF Begin, Goto
<1>2. /\ pc'[h] = FirstStep(r.op) /\ req'[h].op = r.op /\ r.op \in Ops
      /\ UNCHANGED <<checkpoint, log, component>>
  BY <1>1 DEF TypeOK, NoRequest, Requests, Ops, Begin, stores
<1>3. before'.checkpoint = checkpoint /\ before'.log = log /\ before'.component = component
  BY DEF Now
<1>4. Remembers(h)'
  BY <1>2, <1>3 DEF Remembers, Unedited, Loaded, AfterSave, RebuildSteps, ReplaySteps,
     FirstStep, Ops
<1>5. RemembersRuntime(h)'
  BY <1>2, <1>3 DEF RemembersRuntime, FirstStep, Ops
<1> QED
  BY <1>4, <1>5

\* A handler at rest remembers nothing.
LEMMA IdleRemembers ==
  ASSUME NEW h \in Handlers
  PROVE  /\ pc[h] = "idle" => Remembers(h) /\ RemembersRuntime(h)
         /\ pc'[h] = "idle" => Remembers(h)' /\ RemembersRuntime(h)'
  BY DEF Remembers, RemembersRuntime, Unedited, Loaded, AfterSave, RebuildSteps, ReplaySteps

\* Only the restore leaves its step.
LEMMA UnwindStep ==
  ASSUME NEW h \in Handlers, Work(h), At(h, "unwind")
  PROVE  Unwind(h)
<1> USE DEF At
<1>1. CASE \/ ReadBaseline(h) \/ ReadEffective(h) \/ Backup(h) \/ StagePackage(h)
           \/ PackPlugin(h) \/ InstallPlugin(h) \/ LoadLog(h) \/ SaveLog(h)
  BY <1>1 DEF ReadBaseline, ReadEffective, Backup, StagePackage, PackPlugin,
              InstallPlugin, LoadLog, SaveLog
<1>2. CASE \/ Capture(h) \/ LoadPrevious(h) \/ ReadSkills(h) \/ ReadPlugins(h)
           \/ SaveCheckpoint(h) \/ ClearLog(h)
  BY <1>2 DEF Capture, LoadPrevious, ReadSkills, ReadPlugins, SaveCheckpoint, ClearLog
<1>3. CASE \/ LoadBaseline(h) \/ Reset(h) \/ CopySnapshot(h) \/ Up(h)
           \/ LoadReplay(h) \/ ReplayEvent(h) \/ Repack(h) \/ Reinstall(h) \/ RecordDeploy(h)
  BY <1>3 DEF LoadBaseline, Reset, CopySnapshot, Up, LoadReplay, ReplayEvent, Repack,
              Reinstall, RecordDeploy
<1>4. CASE AppendRecord(h) \/ UndoCheckpoint(h) \/ UndoLog(h)
  BY <1>4 DEF AppendRecord, UndoCheckpoint, UndoLog
<1> QED
  BY <1>1, <1>2, <1>3, <1>4 DEF Work

AuditInv ==
    /\ DeployInv /\ Single
    /\ \A h \in Handlers : RemembersRuntime(h)
    /\ "store" \notin Faults => \A h \in Handlers : Remembers(h)

LEMMA InitAudit == AuditInit => AuditInv
<1> SUFFICES ASSUME AuditInit PROVE AuditInv
  OBVIOUS
<1>1. \A h \in Handlers : pc[h] = "idle"
  BY DEF AuditInit, Init
<1> QED
  BY <1>1, InitInv, IdleRemembers DEF AuditInv, AuditInit, Single

LEMMA AuditKept ==
  ASSUME AuditInv, ~Overlap, [AuditNext]_auditVars
  PROVE  AuditInv'
<1>0. TypeOK /\ Fits
  BY DEF AuditInv, DeployInv
<1>1. ASSUME NEW h \in Handlers,
             \/ Begin(h) /\ before' = Now
             \/ Work(h) /\ UNCHANGED before
      PROVE  AuditInv'
  <2>1. DeployInv'
    BY <1>1, HandlerInv DEF AuditInv
  <2>2. Single' /\ \A g \in Handlers : g # h => pc'[g] = "idle"
    BY <1>0, <1>1, SingleKept DEF AuditInv
  <2>3. RemembersRuntime(h)' /\ ("store" \notin Faults => Remembers(h)')
    BY <1>0, <1>1, BeginRemembers, RemembersKept, BackupKept DEF AuditInv
  <2> QED
    BY <2>1, <2>2, <2>3, IdleRemembers DEF AuditInv
<1>2. CASE UNCHANGED auditVars
  <2>1. DeployInv'
    BY <1>2, StutterInv DEF AuditInv, auditVars
  <2> QED
    BY <1>2, <2>1 DEF auditVars, vars, AuditInv, Single, Remembers, RemembersRuntime
<1>3. CASE Crash
  <2>1. DeployInv' /\ \A h \in Handlers : pc'[h] = "idle"
    BY <1>3, CrashInv DEF AuditInv, Crash
  <2> QED
    BY <2>1, IdleRemembers DEF AuditInv, Single
<1>4. CASE AuditNext
  BY <1>1, <1>3, <1>4 DEF AuditNext
<1> QED
  BY <1>2, <1>4

\* One request at a time and with a store whose writes succeed, a request whose
\* deploy failed leaves exactly the checkpoint and the log it found, whatever
\* failed in it and before it, and wherever earlier ones were killed.
THEOREM FailedDeploysRestoreState ==
  ASSUME ~Overlap, "store" \notin Faults
  PROVE  AuditSpec => FailedDeployRestoresState
<1>1. ASSUME AuditInv, [AuditNext]_auditVars, NEW h \in Handlers,
             At(h, "undo_log"), pc'[h] # "undo_log", crashes' = crashes
      PROVE  checkpoint' = before.checkpoint /\ log' = before.log
  <2>0. TypeOK /\ Remembers(h)
    BY <1>1 DEF AuditInv, DeployInv
  <2>1. PICK g \in Handlers : Begin(g) \/ Work(g)
    <3>1. ~Crash
      BY <1>1 DEF Crash, AuditInv, DeployInv, TypeOK
    <3> QED
      BY <1>1, <3>1 DEF AuditNext, auditVars, vars, At
  <2>2. g = h
    BY <1>1, <2>0, <2>1, OthersAlone DEF At
  <2>3. UndoLog(h)
    <3>1. Work(h)
      BY <1>1, <2>1, <2>2 DEF Begin, At
    <3> QED
      BY <1>1, <3>1, UndoStep DEF At
  <2>4. log' = req[h].log0 /\ UNCHANGED checkpoint
    BY <2>3 DEF UndoLog, Fault
  <2>5. req[h].op # "reload"
    BY <1>1 DEF AuditInv, DeployInv, Fits, OpFits, DeploySteps, At
  <2> QED
    BY <1>1, <2>0, <2>4, <2>5 DEF Remembers, Loaded, AfterSave, At
<1>2. AuditInv /\ [AuditNext]_auditVars
      => [\A h \in Handlers :
            At(h, "undo_log") /\ pc'[h] # "undo_log" /\ crashes' = crashes
            => checkpoint' = before.checkpoint /\ log' = before.log]_pc
  BY <1>1
<1>3. AuditInv /\ [AuditNext]_auditVars => AuditInv'
  BY AuditKept
<1> QED
  BY InitAudit, <1>2, <1>3, PTL DEF AuditSpec, FailedDeployRestoresState

\* One request at a time, a plugin install that ends without a recorded success
\* leaves the runtime's directory as it found it, whatever failed but the restore
\* itself, and wherever earlier requests were killed.
THEOREM UnfinishedInstallsRestoreRuntime ==
  ASSUME ~Overlap
  PROVE  AuditSpec => UnfinishedInstallRestoresRuntime
<1>1. ASSUME AuditInv, [AuditNext]_auditVars, NEW h \in Handlers,
             At(h, "unwind"), pc'[h] = "idle", failures' = failures, crashes' = crashes
      PROVE  component' = before.component
  <2>0. TypeOK /\ Fits /\ RemembersRuntime(h)
    BY <1>1 DEF AuditInv, DeployInv
  <2>1. PICK g \in Handlers : Begin(g) \/ Work(g)
    <3>1. ~Crash
      BY <1>1 DEF Crash, AuditInv, DeployInv, TypeOK
    <3> QED
      BY <1>1, <3>1 DEF AuditNext, auditVars, vars, At
  <2>2. g = h
    BY <1>1, <2>0, <2>1, OthersAlone DEF At
  <2>3. Unwind(h)
    <3>1. Work(h)
      BY <1>1, <2>1, <2>2 DEF Begin, At
    <3> QED
      BY <1>1, <3>1, UnwindStep
  <2>4. component' = req[h].held
    BY <1>1, <2>0, <2>3 DEF Unwind, Fault, TypeOK
  <2>5. req[h].op = "plugin_install"
    BY <1>1, <2>0 DEF Fits, OpFits, At
  <2> QED
    BY <1>1, <2>0, <2>4, <2>5 DEF RemembersRuntime, At
<1>2. AuditInv /\ [AuditNext]_auditVars
      => [\A h \in Handlers :
            At(h, "unwind") /\ pc'[h] = "idle" /\ failures' = failures
            /\ crashes' = crashes
            => component' = before.component]_pc
  BY <1>1
<1>3. AuditInv /\ [AuditNext]_auditVars => AuditInv'
  BY AuditKept
<1> QED
  BY InitAudit, <1>2, <1>3, PTL DEF AuditSpec, UnfinishedInstallRestoresRuntime
=============================================================================
