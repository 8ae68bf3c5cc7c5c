--------------------------- MODULE RuntimeDeploy ---------------------------
(***************************************************************************)
(* The gateway's management of one runtime service.                        *)
(*                                                                         *)
(* Every HTTP request is a goroutine that runs one manager operation:       *)
(* RuntimeSkillDeploy, runtimeSkillRemove (remove and rollback),            *)
(* RuntimePluginInstall, RuntimePluginRemove, RuntimeCheckpoint or          *)
(* RuntimeReload.  All but the last edit the gateway's deploy state and     *)
(* then rebuild the runtime with DeployService: reset the runtime's         *)
(* directory, copy the checkpoint's snapshot into it, start the container,  *)
(* replay the log.  When DeployService fails, the operation puts back the   *)
(* state it had loaded; nothing holds a lock from the load to the save.     *)
(*                                                                         *)
(* A step is one access to a piece of shared state: one store call, one     *)
(* rewrite of the runtime's directory, one replayed event.  Loading the     *)
(* checkpoint and the log for one effective-state query is one step.        *)
(***************************************************************************)
EXTENDS ReplayState

CONSTANTS
    Handlers,      \* request goroutines
    MaxOps,        \* bound: requests started
    MaxFailures,   \* bound: calls that fail
    MaxCrashes,    \* bound: gateway processes killed
    Faults,        \* kinds of call that may fail
    Offered,       \* operations the operators request
    Overlap        \* TRUE: requests run concurrently; FALSE: one at a time

ASSUME BoundsAssumption ==
    MaxOps \in Nat /\ MaxFailures \in Nat /\ MaxCrashes \in Nat
ASSUME OverlapAssumption == Overlap \in BOOLEAN

FaultKinds == {"docker",  \* a docker command fails or the request's context ends
               "pack",    \* npm pack fails
               "files",   \* a plain file operation fails half way
               "repo",    \* the skills repository changes while it is read
               "store",   \* a locked write of the deploy state fails
               "append"}  \* the append of an operation's own record fails
ASSUME FaultsAssumption == Faults \subseteq FaultKinds

VARIABLES
    checkpoint,    \* runtime-baselines/<runtime>/current.json and its snapshot
    log,           \* deploy/runtime/<runtime>/replay-log.json
    packages,      \* deploy/runtime/<runtime>/packages/<event id>
    component,     \* the runtime's state directory, mounted in its container
    history,       \* deploy/history.jsonl, as a set of <<request, record>>
    pc,            \* the step each handler is about to take
    req,           \* the local variables of each handler
    started,       \* requests started so far; the number names the request
    failures,      \* calls that failed so far
    crashes        \* gateway crashes so far

stores == <<checkpoint, log, packages, component, history>>
vars == <<checkpoint, log, packages, component, history, pc, req,
          started, failures, crashes>>

Ops == {"skill_deploy", "skill_remove", "plugin_install", "plugin_remove",
        "checkpoint", "reload"}

Steps == {"idle", "baseline", "backup", "stage", "pack", "install",
          "effective", "load", "save", "capture", "previous", "skills",
          "plugins", "save_cp", "clear", "restore", "reset", "copy", "up",
          "load_replay", "replay", "repack", "reinstall", "append",
          "undo_cp", "undo_log", "unwind"}

RequestIds == 1..MaxOps

(***************************************************************************)
(* A staged package directory: the sources of one version, and for a plugin *)
(* the tarball npm pack leaves beside them.                                 *)
(***************************************************************************)
Package == [version : Versions, packed : BOOLEAN]

ASSUME PackageAssumption == None \notin Package

Request == [op : Ops \cup {"none"}, id : Nat, item : Items \cup {None},
            version : Versions \cup {None}, source : Sources,
            base : Versions \cup {None},     \* digest read from the checkpoint
            previous : Checkpoint,           \* checkpoint to put back
            log0 : Log,                      \* log to edit and to put back
            held : Content,                  \* backup or captured snapshot
            meta : Content,                  \* metadata of the new checkpoint
            snapshot : Content,              \* snapshot being restored
            events : Log,                    \* log being replayed
            todo : SUBSET Nat]               \* positions of it still to replay

\* The value of Current when no request is running.
NoCurrent == "idle"

ASSUME CurrentAssumption == NoCurrent \notin Items \cup {None}

NoRequest == [op |-> "none", id |-> 0, item |-> None, version |-> None,
              source |-> "git", base |-> None, previous |-> NoCheckpoint,
              log0 |-> <<>>, held |-> Empty, meta |-> Empty,
              snapshot |-> Empty, events |-> <<>>, todo |-> {}]

-----------------------------------------------------------------------------
(* Control *)

At(h, step) == pc[h] = step

Goto(h, step) == pc' = [pc EXCEPT ![h] = step]

\* The handler's function returns: its locals are gone.
Return(h) ==
    /\ Goto(h, "idle")
    /\ req' = [req EXCEPT ![h] = NoRequest]

\* A call of one of the kinds fails.
Fault(kinds) ==
    /\ kinds \cap Faults # {}
    /\ failures < MaxFailures
    /\ failures' = failures + 1

NoFault == failures' = failures

\* Mutant: the remove event has a type no reader of the log knows.
MisnamedEvent(r) ==
    [id |-> r.id, item |-> r.item, source |-> r.source,
     type |-> IF r.op = "plugin_remove" THEN "plugin_uninstall" ELSE "plugin_install",
     version |-> IF r.op = "plugin_remove" THEN None ELSE r.version]

\* The event a request appends to the log.
NewEvent(r) ==
    [id |-> r.id, item |-> r.item, source |-> r.source,
     type |-> IF r.op = "skill_deploy" THEN "skill_install"
              ELSE IF r.op = "plugin_install" THEN "plugin_install"
              ELSE "plugin_remove",
     version |-> IF r.op = "plugin_remove" THEN None ELSE r.version]

\* Mutant: an install in the log is taken out even when the checkpoint has the
\* plugin too.
EditedLogUncovers(r) ==
    IF \/ r.op \in {"skill_deploy", "plugin_install"}
       \/ r.op = "plugin_remove" /\ ~HasInstall(r.log0, r.item)
    THEN Append(r.log0, NewEvent(r))
    ELSE DropLatestInstall(r.log0, r.item)

\* The log a request saves: an install appends its event; a remove takes the
\* latest install out, or appends a tombstone when the checkpoint has the plugin.
EditedLog(r) ==
    IF \/ r.op \in {"skill_deploy", "plugin_install"}
       \/ r.op = "plugin_remove" /\ r.base # None
    THEN Append(r.log0, NewEvent(r))
    ELSE DropLatestInstall(r.log0, r.item)

\* What the staged package of an event must look like to be replayed.
ExpectedPackage(e) ==
    [version |-> e.version, packed |-> e.type = "plugin_install"]

HasTarball(id) == packages[id] \in [version : Versions, packed : {TRUE}]

Staged(e) ==
    e.id \in RequestIds /\ packages[e.id] = ExpectedPackage(e)

-----------------------------------------------------------------------------
(* Requests *)

Requests ==
    [op : {"skill_deploy"}, item : Skills, version : Versions, source : {"git"}]
    \cup [op : {"skill_remove"}, item : Skills, version : {None}, source : {"git"}]
    \cup [op : {"plugin_install"}, item : Plugins, version : Versions, source : Sources]
    \cup [op : {"plugin_remove"}, item : Plugins, version : {None}, source : {"git"}]
    \cup [op : {"checkpoint", "reload"}, item : {None}, version : {None}, source : {"git"}]

FirstStep(op) ==
    CASE op = "skill_deploy"   -> "baseline"
      [] op = "skill_remove"   -> "load"
      [] op = "plugin_install" -> "backup"
      [] op = "plugin_remove"  -> "effective"
      [] op = "checkpoint"     -> "capture"
      [] OTHER                 -> "restore"

Begin(h) ==
    /\ At(h, "idle")
    /\ started < MaxOps
    /\ Overlap \/ \A g \in Handlers : At(g, "idle")
    /\ started' = started + 1
    /\ \E r \in {q \in Requests : q.op \in Offered} :
          /\ Goto(h, FirstStep(r.op))
          /\ req' = [req EXCEPT ![h] =
                [NoRequest EXCEPT !.op = r.op, !.id = started + 1, !.item = r.item,
                                  !.version = r.version, !.source = r.source]]
    /\ UNCHANGED <<stores, failures, crashes>>

-----------------------------------------------------------------------------
(* Steps before the edited log or checkpoint is saved *)

\* baselineSkillDigest / baselinePluginDigest.  A skill whose digest is the
\* checkpoint's is answered at once, whatever the log says about it.
ReadBaseline(h) ==
    LET r == req[h]
        base == checkpoint.meta[r.item]
    IN /\ At(h, "baseline")
       /\ \/ /\ r.op = "skill_deploy"
             /\ IF base = r.version
                THEN Return(h)
                ELSE Goto(h, "stage") /\ req' = [req EXCEPT ![h].base = base]
          \/ /\ r.op = "plugin_install"
             /\ Goto(h, "effective")
             /\ req' = [req EXCEPT ![h].base = base]
          \/ /\ r.op = "plugin_remove"
             /\ IF base # None \/ HasInstall(r.log0, r.item)
                THEN Goto(h, "save") /\ req' = [req EXCEPT ![h].base = base]
                ELSE Return(h)
       /\ UNCHANGED <<stores, started, failures, crashes>>

\* effectivePluginDigest / effectivePluginState.  An install of what is already
\* effective is answered after unwinding; a remove of an absent plugin fails.
ReadEffective(h) ==
    LET r == req[h]
        effective == Effective(checkpoint.meta, log)[r.item]
    IN /\ At(h, "effective")
       /\ \/ /\ r.op = "plugin_install"
             /\ Goto(h, IF effective = r.version THEN "unwind" ELSE "load")
             /\ UNCHANGED req
          \/ /\ r.op = "plugin_remove"
             /\ IF effective = None
                THEN Return(h)
                ELSE Goto(h, "load") /\ UNCHANGED req
       /\ UNCHANGED <<stores, started, failures, crashes>>

\* snapshotRuntimeComponent: a copy of the runtime's directory.
Backup(h) ==
    /\ At(h, "backup")
    /\ \/ /\ NoFault
          /\ Goto(h, "stage")
          /\ req' = [req EXCEPT ![h].held = component]
       \/ Fault({"files"}) /\ Return(h)
    /\ UNCHANGED <<stores, started, crashes>>

\* StageReplayPackage copies the source tree.  A skill's digest was computed
\* when the request was resolved; the tree may have changed since ("repo").
StagePackage(h) ==
    LET r == req[h]
        copy(v) == packages' = [packages EXCEPT ![r.id] =
                                   [version |-> v, packed |-> FALSE]]
    IN /\ At(h, "stage")
       /\ \/ /\ NoFault
             /\ copy(r.version)
             /\ Goto(h, IF r.op = "skill_deploy" THEN "load" ELSE "pack")
             /\ UNCHANGED req
          \/ /\ r.op = "skill_deploy"
             /\ Fault({"repo"})
             /\ \E v \in Versions \ {r.version} : copy(v)
             /\ Goto(h, "load")
             /\ UNCHANGED req
          \/ /\ Fault({"files"})
             /\ IF r.op = "skill_deploy"
                THEN Return(h)
                ELSE Goto(h, "unwind") /\ UNCHANGED req
             /\ UNCHANGED packages
       /\ UNCHANGED <<checkpoint, log, component, history, started, crashes>>

\* prepareRuntimePluginPackage, then the digest of the directory.
PackPlugin(h) ==
    /\ At(h, "pack")
    /\ \/ /\ NoFault
          /\ packages' = [packages EXCEPT ![req[h].id] =
                             [version |-> req[h].version, packed |-> TRUE]]
          /\ Goto(h, "install")
       \/ /\ Fault({"pack"})
          /\ Goto(h, "unwind")
          /\ UNCHANGED packages
    /\ UNCHANGED <<checkpoint, log, component, history, req, started, crashes>>

\* installRuntimePlugin: install, discover the digest, restart, verify.
InstallPlugin(h) ==
    LET installed == [component EXCEPT ![req[h].item] = req[h].version]
    IN /\ At(h, "install")
       /\ \/ /\ NoFault
             /\ component' = installed
             /\ Goto(h, "baseline")
          \/ /\ Fault({"docker"})
             /\ component' \in {component, installed}
             /\ Goto(h, "unwind")
       /\ UNCHANGED <<checkpoint, log, packages, history, req, started, crashes>>

\* LoadReplayLog; the value is both what is edited and what is put back.
LoadLog(h) ==
    LET r == req[h]
        next == CASE r.op = "checkpoint"    -> "skills"
                  [] r.op = "plugin_remove" -> "baseline"
                  [] OTHER                  -> "save"
    IN /\ At(h, "load")
       /\ IF r.op = "skill_remove" /\ ~HasInstall(log, r.item)
          THEN Return(h)
          ELSE Goto(h, next) /\ req' = [req EXCEPT ![h].log0 = log]
       /\ UNCHANGED <<stores, started, failures, crashes>>

\* SaveReplayLog of the edited log.
SaveLog(h) ==
    /\ At(h, "save")
    /\ \/ /\ NoFault
          /\ log' = EditedLog(req[h])
          /\ Goto(h, "restore")
          /\ UNCHANGED req
       \/ /\ Fault({"store"})
          /\ IF req[h].op = "plugin_install"
             THEN Goto(h, "unwind") /\ UNCHANGED req
             ELSE Return(h)
          /\ UNCHANGED log
    /\ UNCHANGED <<checkpoint, packages, component, history, started, crashes>>

-----------------------------------------------------------------------------
(* RuntimeCheckpoint before its deploy *)

\* captureRuntimeState (docker cp out of the container) and buildCheckpointImage.
Capture(h) ==
    /\ At(h, "capture")
    /\ \/ /\ NoFault
          /\ Goto(h, "previous")
          /\ req' = [req EXCEPT ![h].held = component]
       \/ Fault({"docker"}) /\ Return(h)
    /\ UNCHANGED <<stores, started, crashes>>

LoadPrevious(h) ==
    /\ At(h, "previous")
    /\ Goto(h, "load")
    /\ req' = [req EXCEPT ![h].previous = checkpoint]
    /\ UNCHANGED <<stores, started, failures, crashes>>

\* Mutant: only the log is consulted, not the checkpoint before it.
ReadLoggedSkills(h) ==
    LET logged == Effective(Empty, log)
    IN /\ At(h, "skills")
       /\ Goto(h, "plugins")
       /\ req' = [req EXCEPT ![h].meta =
                     [i \in Items |-> IF i \in Skills THEN logged[i] ELSE None]]
       /\ UNCHANGED <<stores, started, failures, crashes>>

\* currentCheckpointSkills and currentCheckpointPlugins each load the
\* checkpoint and the log again.
ReadSkills(h) ==
    LET effective == Effective(checkpoint.meta, log)
    IN /\ At(h, "skills")
       /\ Goto(h, "plugins")
       /\ req' = [req EXCEPT ![h].meta =
                     [i \in Items |-> IF i \in Skills THEN effective[i] ELSE None]]
       /\ UNCHANGED <<stores, started, failures, crashes>>

ReadPlugins(h) ==
    LET effective == Effective(checkpoint.meta, log)
    IN /\ At(h, "plugins")
       /\ Goto(h, "save_cp")
       /\ req' = [req EXCEPT ![h].meta =
                     [i \in Items |-> IF i \in Plugins THEN effective[i]
                                      ELSE req[h].meta[i]]]
       /\ UNCHANGED <<stores, started, failures, crashes>>

SaveCheckpoint(h) ==
    /\ At(h, "save_cp")
    /\ \/ /\ NoFault
          /\ checkpoint' = [present |-> TRUE, meta |-> req[h].meta,
                            snapshot |-> req[h].held]
          /\ Goto(h, "clear")
          /\ UNCHANGED req
       \/ /\ Fault({"store"})
          /\ Return(h)
          /\ UNCHANGED checkpoint
    /\ UNCHANGED <<log, packages, component, history, started, crashes>>

\* ClearReplayLog; when it fails the new checkpoint stays.
ClearLog(h) ==
    /\ At(h, "clear")
    /\ \/ /\ NoFault
          /\ log' = <<>>
          /\ Goto(h, "restore")
          /\ UNCHANGED req
       \/ /\ Fault({"store"})
          /\ Return(h)
          /\ UNCHANGED log
    /\ UNCHANGED <<checkpoint, packages, component, history, started, crashes>>

-----------------------------------------------------------------------------
(* DeployService *)

\* The error return of DeployService, as each caller handles it.
DeployFailed(h) ==
    IF req[h].op = "reload"
    THEN Return(h)
    ELSE /\ Goto(h, IF req[h].op = "checkpoint" THEN "undo_cp" ELSE "undo_log")
         /\ UNCHANGED req

\* restoreRuntimeBaseline: which snapshot to restore.
LoadBaseline(h) ==
    /\ At(h, "restore")
    /\ Goto(h, "reset")
    /\ req' = [req EXCEPT ![h].snapshot = checkpoint.snapshot]
    /\ UNCHANGED <<stores, started, failures, crashes>>

\* Mutant: the old directory is not emptied.
ResetKeepsFiles(h) ==
    /\ At(h, "reset")
    /\ NoFault
    /\ Goto(h, "copy")
    /\ UNCHANGED <<stores, req, started, crashes>>

\* restoreRuntimeBaseline up to the empty directory.
Reset(h) ==
    /\ At(h, "reset")
    /\ \/ /\ NoFault
          /\ component' = Empty
          /\ Goto(h, "copy")
          /\ UNCHANGED req
       \/ /\ Fault({"files"})
          /\ component' \in {component, Empty}
          /\ DeployFailed(h)
    /\ UNCHANGED <<checkpoint, log, packages, history, started, crashes>>

\* restoreRuntimeBaseline: copyTree of the snapshot, and the ownership walk.
CopySnapshot(h) ==
    /\ At(h, "copy")
    /\ \/ /\ NoFault
          /\ component' = Overlay(component, req[h].snapshot, Items)
          /\ Goto(h, "up")
          /\ UNCHANGED req
       \/ /\ Fault({"files"})
          /\ \E copied \in SUBSET Items :
                component' = Overlay(component, req[h].snapshot, copied)
          /\ DeployFailed(h)
    /\ UNCHANGED <<checkpoint, log, packages, history, started, crashes>>

\* Rendering, network, pull, compose up and the wait for the containers.
Up(h) ==
    /\ At(h, "up")
    /\ \/ NoFault /\ Goto(h, "load_replay") /\ UNCHANGED req
       \/ Fault({"docker"}) /\ DeployFailed(h)
    /\ UNCHANGED <<stores, started, crashes>>

LoadReplay(h) ==
    /\ At(h, "load_replay")
    /\ Goto(h, "replay")
    /\ req' = [req EXCEPT ![h].events = log, ![h].todo = DOMAIN log]
    /\ UNCHANGED <<stores, started, failures, crashes>>

\* Mutant: the loop never gets past an event.
ReplayedAgain(h, k) == UNCHANGED <<req, pc>>

\* The loop over the ordered events goes on.
Replayed(h, k) ==
    /\ req' = [req EXCEPT ![h].todo = @ \ {k}]
    /\ UNCHANGED pc

\* installSkillFromGatewayState: verify the package, reset the destination,
\* copy and activate.
ReplaySkill(h, k) ==
    LET e == req[h].events[k]
        result(v) == [component EXCEPT ![e.item] = v]
    IN /\ e.type = "skill_install"
       /\ \/ /\ Staged(e)
             /\ NoFault
             /\ component' = result(e.version)
             /\ Replayed(h, k)
          \/ /\ Staged(e)
             /\ Fault({"docker"})
             /\ component' \in {component, result(None), result(e.version)}
             /\ DeployFailed(h)
          \/ /\ ~Staged(e)
             /\ NoFault
             /\ DeployFailed(h)
             /\ UNCHANGED component
       /\ UNCHANGED packages

\* installPluginFromGatewayState: verify the package; nothing to do when the
\* installed digest is the expected one; otherwise prepareRuntimePluginPackage
\* first removes the tarball.  A package from a local directory is installed
\* unpacked when it cannot be packed.
ReplayPlugin(h, k) ==
    LET e == req[h].events[k]
    IN /\ e.type = "plugin_install"
       /\ \/ /\ ~Staged(e)
             /\ NoFault
             /\ DeployFailed(h)
             /\ UNCHANGED packages
          \/ /\ Staged(e) /\ component[e.item] = e.version
             /\ NoFault
             /\ Replayed(h, k)
             /\ UNCHANGED packages
          \/ /\ Staged(e) /\ component[e.item] # e.version
             /\ NoFault
             /\ packages' = [packages EXCEPT ![e.id].packed = FALSE]
             /\ Goto(h, "repack") /\ UNCHANGED req
          \/ /\ Staged(e) /\ component[e.item] # e.version
             /\ Fault({"files"})
             /\ IF e.source = "local"
                THEN Goto(h, "reinstall") /\ UNCHANGED req
                ELSE DeployFailed(h)
             /\ UNCHANGED packages
       /\ UNCHANGED component

\* removePluginFromGatewayState.
ReplayRemove(h, k) ==
    LET e == req[h].events[k]
        removed == [component EXCEPT ![e.item] = None]
    IN /\ e.type = "plugin_remove"
       /\ \/ /\ NoFault
             /\ component' = removed
             /\ Replayed(h, k)
          \/ /\ Fault({"files"})
             /\ component' \in {component, removed}
             /\ DeployFailed(h)
       /\ UNCHANGED packages

\* prepareRuntimePluginPackage goes on: npm pack in the package's directory, which
\* another request may have removed by now.
RepackPlugin(h, k) ==
    LET e == req[h].events[k]
    IN \/ /\ packages[e.id] # None
          /\ NoFault
          /\ packages' = [packages EXCEPT ![e.id].packed = TRUE]
          /\ Goto(h, "reinstall") /\ UNCHANGED req
       \/ /\ (packages[e.id] = None /\ NoFault) \/ Fault({"pack"})
          /\ IF e.source = "local"
             THEN Goto(h, "reinstall") /\ UNCHANGED req
             ELSE DeployFailed(h)
          /\ UNCHANGED packages

\* The rest of the replay: copy the tarball, or the directory, into the
\* container, install it and compare digests.
ReinstallPlugin(h, k) ==
    LET e == req[h].events[k]
        installed == [component EXCEPT ![e.item] = e.version]
    IN \/ /\ packages[e.id] # None
          /\ HasTarball(e.id) \/ e.source = "local"
          /\ NoFault
          /\ component' = installed
          /\ req' = [req EXCEPT ![h].todo = @ \ {k}]
          /\ Goto(h, "replay")
       \/ /\ ~HasTarball(e.id)
          /\ NoFault
          /\ component' \in {component, installed}
          /\ DeployFailed(h)
       \/ /\ Fault({"docker"})
          /\ component' \in {component, installed}
          /\ DeployFailed(h)

\* The restart of the container that follows changed plugins can fail like the
\* event after it or, at the end, like the record.
ReplayEvent(h) ==
    /\ At(h, "replay")
    /\ \E k \in req[h].todo :
          /\ NextToReplay(req[h].events, req[h].todo, k)
          /\ ReplaySkill(h, k) \/ ReplayPlugin(h, k) \/ ReplayRemove(h, k)
    /\ UNCHANGED <<checkpoint, log, history, started, crashes>>

\* The event being replayed is still the next one.
Repack(h) ==
    /\ At(h, "repack")
    /\ \E k \in req[h].todo :
          NextToReplay(req[h].events, req[h].todo, k) /\ RepackPlugin(h, k)
    /\ UNCHANGED <<checkpoint, log, component, history, started, crashes>>

Reinstall(h) ==
    /\ At(h, "reinstall")
    /\ \E k \in req[h].todo :
          NextToReplay(req[h].events, req[h].todo, k) /\ ReinstallPlugin(h, k)
    /\ UNCHANGED <<checkpoint, log, packages, history, started, crashes>>

\* The "replayed" record, written when there were events, and the record of
\* the service deployment.
RecordDeploy(h) ==
    LET r == req[h]
        replayed == {<<r.id, "replayed">> : x \in DOMAIN r.events}
    IN /\ At(h, "replay")
       /\ r.todo = {}
       /\ \/ /\ NoFault
             /\ history' = history \cup replayed \cup {<<r.id, "deployed">>}
             /\ IF r.op = "reload"
                THEN Return(h)
                ELSE Goto(h, "append") /\ UNCHANGED req
          \/ /\ Fault({"store", "docker"})
             /\ history' \in {history, history \cup replayed}
             /\ DeployFailed(h)
       /\ UNCHANGED <<checkpoint, log, packages, component, started, crashes>>

-----------------------------------------------------------------------------
(* The end of an operation, and its rollback *)

\* Mutant: keepArtifacts is never set.
AppendDiscards(h) ==
    /\ At(h, "append")
    /\ NoFault
    /\ history' = history \cup {<<req[h].id, "success">>}
    /\ IF req[h].op = "plugin_install"
       THEN Goto(h, "unwind") /\ UNCHANGED req
       ELSE Return(h)
    /\ UNCHANGED <<checkpoint, log, packages, component, started, crashes>>

\* AppendDeployment of the operation's own record.  When it fails the operation
\* reports an error and the log keeps the edit; a plugin install also puts the
\* directory back and deletes the staged package.
AppendRecord(h) ==
    /\ At(h, "append")
    /\ \/ /\ NoFault
          /\ history' = history \cup {<<req[h].id, "success">>}
          /\ Return(h)
       \/ /\ Fault({"append"})
          /\ IF req[h].op = "plugin_install"
             THEN Goto(h, "unwind") /\ UNCHANGED req
             ELSE Return(h)
          /\ UNCHANGED history
    /\ UNCHANGED <<checkpoint, log, packages, component, started, crashes>>

\* SaveCheckpoint of the previous checkpoint, whose error is dropped, or
\* DeleteCheckpoint, which takes no lock, when there was none.
UndoCheckpoint(h) ==
    /\ At(h, "undo_cp")
    /\ \/ NoFault /\ checkpoint' = req[h].previous
       \/ req[h].previous.present /\ Fault({"store"}) /\ UNCHANGED checkpoint
    /\ Goto(h, "undo_log")
    /\ UNCHANGED <<log, packages, component, history, req, started, crashes>>

\* Mutant: the log is cleared instead of put back.
UndoLogClears(h) ==
    /\ At(h, "undo_log")
    /\ NoFault
    /\ log' = <<>>
    /\ IF req[h].op = "plugin_install"
       THEN Goto(h, "unwind") /\ UNCHANGED req
       ELSE Return(h)
    /\ UNCHANGED <<checkpoint, packages, component, history, started, crashes>>

\* SaveReplayLog(previous log); the error is dropped.
UndoLog(h) ==
    /\ At(h, "undo_log")
    /\ \/ NoFault /\ log' = req[h].log0
       \/ Fault({"store"}) /\ UNCHANGED log
    /\ IF req[h].op = "plugin_install"
       THEN Goto(h, "unwind") /\ UNCHANGED req
       ELSE Return(h)
    /\ UNCHANGED <<checkpoint, packages, component, history, started, crashes>>

\* Mutant: the directory is not restored.
UnwindKeepsRuntime(h) ==
    /\ At(h, "unwind")
    /\ NoFault
    /\ packages' = [packages EXCEPT ![req[h].id] = None]
    /\ Return(h)
    /\ UNCHANGED <<checkpoint, log, component, history, started, crashes>>

\* restoreRuntime and the deferred removal of the staged package of a plugin
\* install that keeps nothing.  The error of the restore is dropped.
Unwind(h) ==
    /\ At(h, "unwind")
    /\ \/ NoFault /\ component' = req[h].held
       \/ /\ Fault({"files"})
          /\ \E copied \in SUBSET Items :
                component' = Overlay(Empty, req[h].held, copied)
    /\ packages' = [packages EXCEPT ![req[h].id] = None]
    /\ Return(h)
    /\ UNCHANGED <<checkpoint, log, history, started, crashes>>

\* The gateway process is killed (docker rm -f gateway): every handler is lost,
\* the files stay as they are.
Crash ==
    /\ crashes < MaxCrashes
    /\ \E h \in Handlers : ~At(h, "idle")
    /\ crashes' = crashes + 1
    /\ pc' = [h \in Handlers |-> "idle"]
    /\ req' = [h \in Handlers |-> NoRequest]
    /\ UNCHANGED <<stores, started, failures>>

-----------------------------------------------------------------------------
Init ==
    /\ checkpoint = NoCheckpoint
    /\ log = <<>>
    /\ packages = [id \in RequestIds |-> None]
    /\ component = Empty
    /\ history = {}
    /\ pc = [h \in Handlers |-> "idle"]
    /\ req = [h \in Handlers |-> NoRequest]
    /\ started = 0 /\ failures = 0 /\ crashes = 0

Work(h) ==
    \/ ReadBaseline(h) \/ ReadEffective(h) \/ Backup(h) \/ StagePackage(h)
    \/ PackPlugin(h) \/ InstallPlugin(h) \/ LoadLog(h) \/ SaveLog(h)
    \/ Capture(h) \/ LoadPrevious(h) \/ ReadSkills(h) \/ ReadPlugins(h)
    \/ SaveCheckpoint(h) \/ ClearLog(h)
    \/ LoadBaseline(h) \/ Reset(h) \/ CopySnapshot(h) \/ Up(h) \/ LoadReplay(h)
    \/ ReplayEvent(h) \/ Repack(h) \/ Reinstall(h) \/ RecordDeploy(h)
    \/ AppendRecord(h) \/ UndoCheckpoint(h) \/ UndoLog(h) \/ Unwind(h)

Next ==
    \/ \E h \in Handlers : Begin(h) \/ Work(h)
    \/ Crash

Spec == Init /\ [][Next]_vars

\* A goroutine that was started keeps running: every call it makes returns,
\* with a result or an error, within the request's timeout.
FairSpec == Spec /\ \A h \in Handlers : WF_vars(Work(h))
-----------------------------------------------------------------------------
(* Properties *)

TypeOK ==
    /\ checkpoint \in Checkpoint
    /\ log \in Log
    /\ packages \in [RequestIds -> Package \cup {None}]
    /\ component \in Content
    /\ history \in SUBSET (RequestIds \X {"replayed", "deployed", "success"})
    /\ pc \in [Handlers -> Steps]
    /\ req \in [Handlers -> Request]
    /\ started \in 0..MaxOps
    /\ failures \in 0..MaxFailures
    /\ crashes \in 0..MaxCrashes

Quiescent == \A h \in Handlers : At(h, "idle")

EffectiveState == Effective(checkpoint.meta, log)

\* What a rebuild of the runtime produces: the log over the snapshot.
RebuiltState == Effective(checkpoint.snapshot, log)

Installs == {"skill_deploy", "plugin_install"}

\* Between requests the runtime's directory holds what the gateway's state
\* lists, and the checkpoint's metadata lists what its snapshot holds.
\* Holds as long as the gateway is not killed, when no call fails and requests
\* do not overlap.
QuiescentInSync ==
    Quiescent /\ crashes = 0 => /\ component = EffectiveState
                               /\ checkpoint.meta = checkpoint.snapshot

\* When DeployService reports success, the runtime's directory is exactly the
\* log over the snapshot, whatever order the events were replayed in and
\* whatever earlier failed or crashed deploys had left in the directory.
DeploySucceedsRebuilt ==
    [][\A id \in RequestIds :
          <<id, "deployed">> \in history' \ history => component' = RebuiltState]_history

\* When an install is recorded as a success, its event is in the replay log.
\* Overlapping requests break this: the later save drops the earlier event.
RecordedInstallIsLogged ==
    [][\A h \in Handlers :
          /\ req[h].op \in Installs
          /\ <<req[h].id, "success">> \in history' \ history
          => \E k \in DOMAIN log' : log'[k].id = req[h].id]_history

\* When a request is recorded as a success its change is in effect, whatever
\* checkpoint, log and kill came before: an install's version is the effective
\* one, and a removed plugin is gone from the runtime (RuntimePluginRemove: a
\* tombstone over a checkpoint that has it, else its event taken out).  Two
\* exceptions: of a plugin installed twice since the checkpoint the older
\* install comes back, and so does a plugin that the checkpoint's snapshot holds
\* and its metadata does not list (see CheckpointHoldsWhatItLists).
RecordedChangeIsEffective ==
    [][\A h \in Handlers :
          LET i == req[h].item IN
          <<req[h].id, "success">> \in history' \ history =>
             /\ req[h].op \in Installs => EffectiveState'[i] = req[h].version
             /\ /\ req[h].op = "plugin_remove"
                /\ checkpoint.snapshot[i] = checkpoint.meta[i]
                => \/ component'[i] = None
                   \/ \E k \in DOMAIN log : IsLast(log, i, k) /\ log[k].type = "plugin_install"]_history

\* Every item the checkpoint's metadata lists is in its snapshot.  A checkpoint
\* taken after a failed deploy breaks this: it captures a half-built directory.
CheckpointHoldsWhatItLists ==
    \A i \in Items : checkpoint.meta[i] # None
                      => checkpoint.snapshot[i] = checkpoint.meta[i]

\* A replay of this request's event has removed the tarball and not packed again.
BeingRepacked(id) ==
    \E h \in Handlers : \E k \in req[h].todo :
        At(h, "repack") /\ NextToReplay(req[h].events, req[h].todo, k)
        /\ req[h].events[k].id = id

\* The sources of an install that was recorded as a success stay staged, as its
\* event recorded them, for as long as any log holds the event, whatever
\* overlaps, fails or is killed.  Its tarball is missing only while a replay
\* packs it again, or after a kill or a failed npm pack that cut a replay short;
\* every deploy that meets the event then fails.
RecordedEventsStaged ==
    \A k \in DOMAIN log :
        LET e == log[k]
        IN <<e.id, "success">> \in history /\ e.type # "plugin_remove" =>
              \/ Staged(e)
              \/ /\ e.type = "plugin_install"
                 /\ packages[e.id] = [version |-> e.version, packed |-> FALSE]
                 /\ crashes > 0 \/ failures > 0 \/ BeingRepacked(e.id)

\* Every request is answered.
RequestsAnswered ==
    \A h \in Handlers : ~At(h, "idle") ~> At(h, "idle")

\* The promise of the gateway to its operator (RuntimeContract).  What counts
\* as declared is the effective state, and, while a failed checkpoint is being
\* undone and only its checkpoint file is back, the state that undo is about to
\* restore.
UndoingCheckpoint(h) == At(h, "undo_log") /\ req[h].op = "checkpoint"

Declared ==
    IF \E h \in Handlers : UndoingCheckpoint(h)
    THEN LET r == req[CHOOSE h \in Handlers : UndoingCheckpoint(h)]
         IN Effective(r.previous.meta, r.log0)
    ELSE EffectiveState

Current ==
    IF Quiescent THEN NoCurrent
    ELSE req[CHOOSE h \in Handlers : ~At(h, "idle")].item

Contract == INSTANCE RuntimeContract
    WITH Values <- Versions \cup {None}, Absent <- None,
         declared <- Declared, current <- Current, Idle <- NoCurrent,
         Whole <- None

\* One request at a time, with a store whose writes succeed and no crash: a
\* request changes at most the item it names and a checkpoint, a reload, a
\* failed request that was rolled back change nothing.
ImplementsContract == Contract!Spec
=============================================================================
