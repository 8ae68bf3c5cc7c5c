---------------------------- MODULE LegacyTarget ----------------------------
(***************************************************************************)
(* Deploys, rollbacks, lifecycle and configuration of one target of the    *)
(* first MoltBox CLI (moltbox-cli/tools/src/moltbox_cli: deployment_       *)
(* service.py, host_tool_cli.py and v2_actions.py).                        *)
(*                                                                         *)
(* Every step is a primitive, a process of its own whose failure is a      *)
(* result.  A deploy renders, takes a snapshot if the target runs, syncs   *)
(* the runtime root, replaces the containers, validates them, restores the *)
(* snapshot if that went wrong and writes a record.  Nothing is locked:    *)
(* commands are processes of their own and any may be killed between two   *)
(* file operations.  A primitive that outlives its killed command finishes *)
(* what it is at, as if the kill had come later.  docker and OpenClaw are  *)
(* modelled from their use.                                                *)
(***************************************************************************)
EXTENDS Sequences, Integers

CONSTANTS
    Commands,      \* processes of the CLI
    Revisions,     \* revisions of the target's files
    MaxCommands,   \* bound: commands started
    MaxOverlap,    \* bound: commands started before one that may overlap;
                   \* nothing starts, fails or is killed afterwards
    MaxFailures,   \* bound: calls that fail, containers found unhealthy
    MaxKills,      \* bound: commands killed
    MaxPolls       \* polls of the containers before the deadline

VARIABLES
    runtime,       \* whether the target is a runtime: it has a root, its own renders
    root,          \* openclaw.json in the runtime root
    staged,        \* openclaw.json where the config syncs of a runtime are staged
    rendered,      \* the render directory of a target that is not a runtime
    containers,    \* the revision the containers were made from; whether they run
    snaps,         \* the snapshot directories, oldest first
    record,        \* the newest deployment record
    pc, cmd,       \* the step each command is about to take, and its locals
    used,          \* how much of each bound is used up
    written,       \* history: OpenClaw has added to openclaw.json
    raced,         \* history: it did so while a command was about to write the file
    restaged,      \* history: a config sync was staged over one that was under way
    overlapped     \* history: two commands have run at a time

host == <<root, staged, rendered, containers>>
history == <<written, raced, restaged, overlapped>>
vars == <<runtime, host, snaps, record, pc, cmd, used, history>>

None == 0
Torn == -1       \* a directory without a usable compose.yml
Part == -2       \* a directory with compose.yml and not all files of a revision

ASSUME TargetAssumption == Revisions \cap {None, Torn, Part} = {} /\ MaxPolls \in Nat

Startable == Revisions \cup {Part}
Content == Startable \cup {None, Torn}

\* own: what OpenClaw itself has added is in it.
Root == [valid : BOOLEAN, own : BOOLEAN]

\* The staged file: as the repository has it, or merged with what OpenClaw added.
File == {"missing", "torn", "plain", "own"}

Removed == [rev |-> None, up |-> FALSE]
Containers == [rev : Startable, up : BOOLEAN] \cup {Removed}

Snapshot == [copy : Content, meta : {"none", "torn", "whole"}]

Verdicts == {"pass", "fail", "null"}
Record == [type : {"none", "deployment", "rollback"}, verdict : Verdicts \cup {"torn"}]

\* The operations left when the first has succeeded; a skill has several.
\* A restart starts what is stopped too, a reload is a restart.
Plans == {<<"deploy">>, <<"rollback">>, <<"restart">>, <<"stop">>, <<"config">>,
          <<"deploy", "config", "restart">>}

\* dir: the revision rendered, for a runtime into a directory of its own; seen:
\* what is to be written to the file; snap: the snapshot a failure restores; ok: every
\* primitive succeeded so far and the containers validated; left: polls that
\* remain.
NoCommand == [plan |-> <<>>, dir |-> None, seen |-> [valid |-> TRUE, own |-> FALSE],
              snap |-> 0, ok |-> TRUE, verdict |-> "null", left |-> MaxPolls,
              restored |-> FALSE]

Steps == {"idle", "begin", "wipe", "render", "fill", "inspect", "snap_copy",
          "snap_meta", "snap_done", "unstage", "stage", "seed", "stage_open",
          "stage_write", "sync", "synced", "remove", "up", "validate",
          "restore", "restore_up", "compose", "record", "write_record"}

-----------------------------------------------------------------------------

Goto(c, step) == pc' = [pc EXCEPT ![c] = step]

Fault ==
    /\ used.failures < MaxFailures /\ ~overlapped
    /\ used' = [used EXCEPT !.failures = @ + 1]

NoFault == UNCHANGED used

Op(c) == Head(cmd[c].plan)

\* The command ends, or goes on with the next operation of its plan.
Return(c) == Goto(c, "idle") /\ cmd' = [cmd EXCEPT ![c] = NoCommand]

Done(c) ==
    IF Len(cmd[c].plan) = 1 THEN Return(c)
    ELSE /\ Goto(c, "begin")
         /\ cmd' = [cmd EXCEPT ![c] = [NoCommand EXCEPT !.plan = Tail(cmd[c].plan)]]

\* The directory the containers of this command are made from.
Dir(c) == IF runtime THEN cmd[c].dir ELSE rendered

Quiet == \A c \in Commands : pc[c] = "idle"

Accept(c) ==
    /\ pc[c] = "idle" /\ used.commands < MaxCommands
    /\ IF Quiet THEN ~overlapped ELSE used.commands <= MaxOverlap

Begin(c) ==
    /\ Accept(c)
    /\ used' = [used EXCEPT !.commands = @ + 1]
    /\ overlapped' = (overlapped \/ ~Quiet)
    /\ \E plan \in Plans :
          /\ cmd' = [cmd EXCEPT ![c].plan = plan]
          /\ ~runtime => plan \in {<<"deploy">>, <<"rollback">>}
    /\ Goto(c, "begin")
    /\ UNCHANGED <<runtime, host, snaps, record, written, raced, restaged>>

\* A shared service is started, stopped and restarted by name.
HostLifecycle(c) ==
    /\ Accept(c)
    /\ ~runtime
    /\ used' = [used EXCEPT !.commands = @ + 1]
    /\ \E up \in BOOLEAN :
          containers' = IF containers.rev = None THEN containers
                        ELSE [containers EXCEPT !.up = up]
    /\ overlapped' = (overlapped \/ ~Quiet)
    /\ UNCHANGED <<runtime, root, staged, rendered, snaps, record, pc, cmd, written,
                   raced, restaged>>

\* The newest snapshot whose metadata can be read; a truncated one raises.
Latest == {n \in DOMAIN snaps :
             /\ snaps[n].meta # "none"
             /\ \A k \in (n + 1)..Len(snaps) : snaps[k].meta = "none"}

\* A rollback without a snapshot is recorded as such.
First(c) ==
    /\ pc[c] = "begin"
    /\ \/ /\ Op(c) # "rollback"
          /\ Goto(c, IF Op(c) = "config" THEN "unstage"
                     ELSE IF runtime THEN "fill" ELSE "wipe")
          /\ UNCHANGED cmd
       \/ /\ Op(c) = "rollback" /\ Latest = {}
          /\ Goto(c, "record") /\ cmd' = [cmd EXCEPT ![c].ok = FALSE]
       \/ /\ Op(c) = "rollback"
          /\ \E n \in Latest :
                \/ /\ snaps[n].meta = "whole"
                   /\ Goto(c, "restore") /\ cmd' = [cmd EXCEPT ![c].snap = n]
                \/ snaps[n].meta = "torn" /\ Return(c)
    /\ UNCHANGED <<runtime, host, snaps, record, used, history>>

-----------------------------------------------------------------------------
(* Rendering and the snapshot.                                             *)

\* Another command wipes or fills the render directory.
Disturbed(c) ==
    ~runtime /\ \E d \in Commands \ {c} : pc[d] \in {"render", "fill"}

\* What there is of a directory whose files are being removed.
Remains(dir) ==
    CASE dir = None -> {None}
      [] dir = Torn -> {Torn}
      [] OTHER -> {Torn, Part}

\* A deploy whose render fails is recorded; a lifecycle command just fails.
RenderFailed(c) ==
    IF Op(c) = "deploy"
    THEN Goto(c, "record") /\ cmd' = [cmd EXCEPT ![c].ok = FALSE]
    ELSE Return(c)

\* The files of an old render are removed first; its directory stays.
Wipe(c) ==
    /\ pc[c] = "wipe"
    /\ \/ /\ \E left \in Remains(rendered) : rendered' = left
          /\ \/ Goto(c, "render") /\ UNCHANGED cmd
             \/ Disturbed(c) /\ RenderFailed(c)
          /\ NoFault
       \/ RenderFailed(c) /\ Fault /\ UNCHANGED rendered
    /\ UNCHANGED <<runtime, root, staged, containers, snaps, record, history>>

\* The files of a target are rendered one by one, compose.yml among the first ...
Render(c) ==
    /\ pc[c] = "render"
    /\ rendered' \in {Torn, Part}
    /\ \/ Goto(c, "fill") /\ NoFault /\ UNCHANGED cmd
       \/ RenderFailed(c) /\ Fault
    /\ UNCHANGED <<runtime, root, staged, containers, snaps, record, history>>

\* What the last file makes of the render directory: a whole revision, if no
\* other command has removed files of it or written to it.
Filled(c, rev) ==
    {rev} \cup IF Disturbed(c) \/ rendered \notin {Torn, Part} THEN {Torn, Part} ELSE {}

\* ... and the manifest last.  A runtime is rendered to a directory of its own
\* each time, which nobody else uses before it is whole.
Fill(c) ==
    /\ pc[c] = "fill"
    /\ \/ \E rev \in Revisions :
             /\ cmd' = [cmd EXCEPT ![c].dir = rev]
             /\ IF runtime THEN UNCHANGED rendered ELSE rendered' \in Filled(c, rev)
             /\ Goto(c, CASE Op(c) = "deploy" -> "inspect"
                          [] Op(c) = "stop" -> "compose"
                          [] OTHER -> "seed")
             /\ NoFault
       \/ /\ IF runtime THEN UNCHANGED rendered ELSE rendered' \in {Torn, Part}
          /\ RenderFailed(c) /\ Fault
    /\ UNCHANGED <<runtime, root, staged, containers, snaps, record, history>>

\* Mutant: the metadata is written before the render is copied.
InspectMetaFirst(c) ==
    /\ pc[c] = "inspect"
    /\ \/ /\ containers.up /\ NoFault
          /\ snaps' = Append(snaps, [copy |-> Torn, meta |-> "whole"])
          /\ cmd' = [cmd EXCEPT ![c].snap = Len(snaps) + 1]
          /\ Goto(c, "snap_copy")
       \/ /\ ~containers.up /\ NoFault
          /\ Goto(c, "seed") /\ UNCHANGED <<snaps, cmd>>
    /\ UNCHANGED <<runtime, host, record, history>>

\* A snapshot is taken of a target that runs; an inspect that fails makes it
\* look as if it did not.
Inspect(c) ==
    /\ pc[c] = "inspect"
    /\ \/ /\ containers.up /\ NoFault
          /\ snaps' = Append(snaps, [copy |-> Torn, meta |-> "none"])
          /\ cmd' = [cmd EXCEPT ![c].snap = Len(snaps) + 1]
          /\ Goto(c, "snap_copy")
       \/ /\ \/ ~containers.up /\ NoFault
             \/ Fault
          /\ Goto(c, "seed") /\ UNCHANGED <<snaps, cmd>>
    /\ UNCHANGED <<runtime, host, record, history>>

\* What is copied is the render of this deploy, not of the one that runs, and
\* whatever is in its directory: all of it, if no other command removes or
\* writes files meanwhile.
CopySnapshot(c) ==
    /\ pc[c] = "snap_copy"
    /\ \/ /\ \E copy \in {Dir(c)} \cup IF Disturbed(c) THEN {Torn, Part} ELSE {} :
                snaps' = [snaps EXCEPT ![cmd[c].snap].copy = copy]
          /\ Goto(c, "snap_meta") /\ NoFault /\ UNCHANGED cmd
       \/ /\ Goto(c, "record") /\ cmd' = [cmd EXCEPT ![c].ok = FALSE]
          /\ Fault \/ (Disturbed(c) /\ NoFault)
          /\ UNCHANGED snaps
    /\ UNCHANGED <<runtime, host, record, history>>

\* metadata.json comes last, truncated and then written.
OpenMetadata(c) ==
    /\ pc[c] = "snap_meta"
    /\ snaps' = [snaps EXCEPT ![cmd[c].snap].meta = "torn"]
    /\ Goto(c, "snap_done")
    /\ UNCHANGED <<runtime, host, record, cmd, used, history>>

WriteMetadata(c) ==
    /\ pc[c] = "snap_done"
    /\ snaps' = [snaps EXCEPT ![cmd[c].snap].meta = "whole"]
    /\ Goto(c, "seed")
    /\ UNCHANGED <<runtime, host, record, cmd, used, history>>

-----------------------------------------------------------------------------
(* The runtime root.                                                       *)

\* A config sync is staged in a directory that those of its component share: it
\* is removed, which may fail if another is writing to it, ...
Staging == {"stage", "seed", "stage_open", "stage_write", "sync"}

StagedBeside(c) ==
    \E d \in Commands \ {c} : pc[d] \in Staging /\ Op(d) = "config"

Unstage(c) ==
    /\ pc[c] = "unstage"
    /\ \/ /\ staged' \in {"missing", "torn"}
          /\ \/ Goto(c, "stage") /\ UNCHANGED cmd
             \/ StagedBeside(c) /\ Return(c)
          /\ restaged' = (restaged \/ StagedBeside(c)) /\ NoFault
       \/ Return(c) /\ Fault /\ UNCHANGED <<staged, restaged>>
    /\ UNCHANGED <<runtime, root, rendered, containers, snaps, record, written, raced,
                   overlapped>>

\* ... the repository's files are copied there, ...
Stage(c) ==
    /\ pc[c] = "stage"
    /\ \/ staged' = "plain" /\ Goto(c, "seed") /\ NoFault /\ UNCHANGED cmd
       \/ Return(c) /\ Fault /\ UNCHANGED staged
    /\ UNCHANGED <<runtime, root, rendered, containers, snaps, record, history>>

AfterSync(c) == CASE Op(c) = "deploy" -> "remove" [] OTHER -> "compose"

\* The primitive that was to sync or deploy fails; a deploy goes on to
\* validate.
Failed(c) ==
    IF Op(c) = "deploy"
    THEN Goto(c, "validate") /\ cmd' = [cmd EXCEPT ![c].ok = FALSE]
    ELSE Return(c)

\* Mutant: what the file holds is not read.
MergeNothing(file) == FALSE

\* Merge what is rendered over what the file holds.
Merge(file) == file.own

\* What is rendered or staged is merged with the file in the root; either may be
\* truncated and cannot be parsed then, what is not staged is let pass.
Seed(c) ==
    /\ pc[c] = "seed"
    /\ \/ ~runtime /\ Goto(c, AfterSync(c)) /\ NoFault /\ UNCHANGED cmd
       \/ /\ runtime /\ root.valid
          /\ Op(c) = "config" => staged \notin {"missing", "torn"}
          /\ cmd' = [cmd EXCEPT ![c].seen = [valid |-> TRUE, own |-> Merge(root)]]
          /\ Goto(c, IF Op(c) = "config" THEN "stage_open" ELSE "sync") /\ NoFault
       \/ /\ runtime /\ Op(c) = "config" /\ staged = "missing"
          /\ Goto(c, "sync") /\ NoFault /\ UNCHANGED cmd
       \/ /\ runtime
          /\ \/ ~root.valid /\ ~(Op(c) = "config" /\ staged = "missing")
             \/ Op(c) = "config" /\ staged = "torn"
          /\ Failed(c) /\ NoFault
       \/ runtime /\ Failed(c) /\ Fault
    /\ UNCHANGED <<runtime, host, snaps, record, history>>

\* ... and the merged file replaces the one of the repository, unless another
\* command has removed it.
OpenStaged(c) ==
    /\ pc[c] = "stage_open"
    /\ \/ staged' = "torn" /\ Goto(c, "stage_write") /\ UNCHANGED cmd
       \/ /\ staged = "missing" \/ StagedBeside(c)
          /\ Return(c) /\ UNCHANGED staged
    /\ UNCHANGED <<runtime, root, rendered, containers, snaps, record, used, history>>

WriteStaged(c) ==
    /\ pc[c] = "stage_write"
    /\ \/ staged' = IF cmd[c].seen.own THEN "own" ELSE "plain"
       \/ StagedBeside(c) /\ UNCHANGED staged
    /\ Goto(c, "sync")
    /\ UNCHANGED <<runtime, root, rendered, containers, snaps, record, cmd, used,
                   history>>

\* openclaw.json is truncated and then written.  A config sync writes what it
\* finds staged, which may be another's, and leaves the file if there is none.
OpenRoot(c) ==
    /\ pc[c] = "sync"
    /\ \/ /\ Op(c) = "config" /\ staged = "missing"
          /\ Done(c) /\ UNCHANGED root
       \/ /\ Op(c) = "config" => staged # "missing"
          /\ root' = [valid |-> FALSE, own |-> FALSE]
          /\ cmd' = [cmd EXCEPT ![c].seen =
                        IF Op(c) = "config"
                        THEN [valid |-> staged # "torn", own |-> staged = "own"] ELSE @]
          /\ Goto(c, "synced")
    /\ UNCHANGED <<runtime, staged, rendered, containers, snaps, record, used, history>>

WriteRoot(c) ==
    /\ pc[c] = "synced"
    /\ root' = cmd[c].seen
    /\ IF Op(c) = "config" THEN Done(c) ELSE Goto(c, AfterSync(c)) /\ UNCHANGED cmd
    /\ UNCHANGED <<runtime, staged, rendered, containers, snaps, record, used, history>>

-----------------------------------------------------------------------------
(* The containers.                                                         *)

\* The network is ensured and the containers are removed.
Remove(c) ==
    /\ pc[c] = "remove"
    /\ \/ /\ containers' = Removed
          /\ Goto(c, "up") /\ NoFault /\ UNCHANGED cmd
       \/ Failed(c) /\ Fault /\ UNCHANGED containers
    /\ UNCHANGED <<runtime, root, staged, rendered, snaps, record, history>>

\* Mutant: whatever is in the directory is started.
ComposeUpAny(dir) ==
    /\ containers' = [rev |-> dir, up |-> TRUE] /\ NoFault

\* compose up makes the containers from the files that are there now; it asks
\* for compose.yml only.
ComposeUp(dir) ==
    \/ /\ dir \in Startable
       /\ containers' = [rev |-> dir, up |-> TRUE] /\ NoFault
    \/ /\ dir \in Startable
       /\ Fault /\ UNCHANGED containers
    \/ /\ dir \notin Startable
       /\ NoFault /\ UNCHANGED containers

Up(c) ==
    /\ pc[c] = "up"
    /\ ComposeUp(Dir(c))
    /\ cmd' = [cmd EXCEPT ![c].ok =
                  @ /\ Dir(c) \in Startable /\ used'.failures = used.failures]
    /\ Goto(c, "validate")
    /\ UNCHANGED <<runtime, root, staged, rendered, snaps, record, history>>

\* compose start, stop and restart fail without containers.
Compose(c) ==
    /\ pc[c] = "compose"
    /\ \/ /\ containers.rev # None
          /\ containers' = [containers EXCEPT !.up = (Op(c) # "stop")]
          /\ Done(c) /\ NoFault
       \/ /\ containers.rev = None
          /\ Return(c) /\ NoFault /\ UNCHANGED containers
       \/ Return(c) /\ Fault /\ UNCHANGED containers
    /\ UNCHANGED <<runtime, root, staged, rendered, snaps, record, history>>

\* Mutant: only a deploy that was made and did not validate is undone.
ShouldRestoreMade(c, verdict) ==
    /\ cmd[c].snap # 0 /\ Op(c) = "deploy" /\ ~cmd[c].restored
    /\ cmd[c].ok /\ verdict # "pass"

\* A deploy that went wrong, or was found wrong, is undone if there was a
\* snapshot.
ShouldRestore(c, verdict) ==
    /\ cmd[c].snap # 0 /\ Op(c) = "deploy" /\ ~cmd[c].restored
    /\ ~cmd[c].ok \/ verdict # "pass"

\* The verdict on what was restored replaces that on the deploy, if there is one.
Conclude(c, verdict) ==
    /\ cmd' = [cmd EXCEPT ![c].verdict =
                             IF cmd[c].restored /\ verdict = "null" THEN @ ELSE verdict,
                          ![c].left = MaxPolls,
                          ![c].ok = @ /\ verdict = "pass"]
    /\ Goto(c, IF ShouldRestore(c, verdict) THEN "restore" ELSE "record")

\* Mutant: as long as it takes.
PollAgainForever(c) == TRUE

\* Missing containers and starting ones are polled again until the deadline.
PollAgain(c) == cmd[c].left > 0

Validate(c) ==
    /\ pc[c] = "validate"
    /\ \/ containers.up /\ Conclude(c, "pass") /\ NoFault
       \/ containers.up /\ Conclude(c, "fail") /\ Fault
       \/ containers.rev # None /\ ~containers.up /\ Conclude(c, "fail") /\ NoFault
       \/ /\ containers.rev = None \/ containers.up
          /\ PollAgain(c)
          /\ cmd' = [cmd EXCEPT ![c].left = IF @ = 0 THEN 0 ELSE @ - 1]
          /\ UNCHANGED pc /\ NoFault
       \/ /\ containers.rev = None /\ ~PollAgain(c)
          /\ Conclude(c, "fail") /\ NoFault
       \/ Conclude(c, "null") /\ Fault
    /\ UNCHANGED <<runtime, host, snaps, record, history>>

\* The containers are removed; a restore that fails after a deploy is not
\* validated, one of a rollback is.
RestoreFailed(c) ==
    /\ cmd' = [cmd EXCEPT ![c].ok = FALSE]
    /\ Goto(c, IF Op(c) = "rollback" THEN "validate" ELSE "record")

Restore(c) ==
    /\ pc[c] = "restore"
    /\ \/ /\ containers' = Removed
          /\ Goto(c, "restore_up") /\ NoFault /\ UNCHANGED cmd
       \/ RestoreFailed(c) /\ Fault /\ UNCHANGED containers
    /\ UNCHANGED <<runtime, root, staged, rendered, snaps, record, history>>

RestoreUp(c) ==
    LET copy == snaps[cmd[c].snap].copy
    IN /\ pc[c] = "restore_up"
       /\ ComposeUp(copy)
       /\ IF copy \in Startable /\ used'.failures = used.failures
          THEN cmd' = [cmd EXCEPT ![c].restored = TRUE] /\ Goto(c, "validate")
          ELSE RestoreFailed(c)
       /\ UNCHANGED <<runtime, root, staged, rendered, snaps, record, history>>

\* The record is written in place.  The verdict is that after a restore, or
\* else of the deploy.
RecordOf(c, verdict) ==
    [type |-> IF Op(c) = "rollback" THEN "rollback" ELSE "deployment",
     verdict |-> verdict]

OpenRecord(c) ==
    /\ pc[c] = "record"
    /\ record' = RecordOf(c, "torn")
    /\ Goto(c, "write_record")
    /\ UNCHANGED <<runtime, host, snaps, cmd, used, history>>

\* Mutant: a deploy answers by what the containers look like.
AnswerVerdict(c) == cmd[c].verdict = "pass"

Answer(c) == cmd[c].ok

WriteRecord(c) ==
    /\ pc[c] = "write_record"
    /\ record' = RecordOf(c, cmd[c].verdict)
    /\ IF Answer(c) THEN Done(c) ELSE Return(c)
    /\ UNCHANGED <<runtime, host, snaps, used, history>>

-----------------------------------------------------------------------------
(* The surroundings.                                                       *)

\* OpenClaw adds an entry of its own to its configuration.
OpenClawWrites ==
    /\ runtime /\ containers.up /\ root.valid /\ ~root.own
    /\ root' = [root EXCEPT !.own = TRUE]
    /\ written' = TRUE
    /\ raced' = (raced \/ \E c \in Commands :
                             pc[c] \in {"stage_open", "stage_write", "sync", "synced"})
    /\ UNCHANGED <<runtime, staged, rendered, containers, snaps, record, pc, cmd, used,
                   restaged, overlapped>>

Kill(c) ==
    /\ pc[c] # "idle" /\ used.kills < MaxKills /\ ~overlapped
    /\ used' = [used EXCEPT !.kills = @ + 1]
    /\ Return(c)
    /\ UNCHANGED <<runtime, host, snaps, record, history>>

Init ==
    /\ runtime \in BOOLEAN
    /\ root = [valid |-> TRUE, own |-> FALSE]
    /\ staged = "missing" /\ rendered = None
    /\ containers = Removed
    /\ snaps = <<>> /\ record = [type |-> "none", verdict |-> "null"]
    /\ pc = [c \in Commands |-> "idle"]
    /\ cmd = [c \in Commands |-> NoCommand]
    /\ used = [commands |-> 0, failures |-> 0, kills |-> 0]
    /\ written = FALSE /\ raced = FALSE /\ restaged = FALSE /\ overlapped = FALSE

Work(c) ==
    \/ First(c) \/ Wipe(c) \/ Render(c) \/ Fill(c) \/ Inspect(c)
    \/ CopySnapshot(c) \/ OpenMetadata(c) \/ WriteMetadata(c)
    \/ Unstage(c) \/ Stage(c) \/ Seed(c) \/ OpenStaged(c) \/ WriteStaged(c)
    \/ OpenRoot(c) \/ WriteRoot(c)
    \/ Remove(c) \/ Up(c) \/ Compose(c) \/ Validate(c)
    \/ Restore(c) \/ RestoreUp(c) \/ OpenRecord(c) \/ WriteRecord(c)

Next ==
    \/ \E c \in Commands : Begin(c) \/ HostLifecycle(c) \/ Work(c) \/ Kill(c)
    \/ OpenClawWrites

Spec == Init /\ [][Next]_vars

\* Processes are scheduled and every docker call returns.
FairSpec == Spec /\ \A c \in Commands : WF_vars(Work(c))

-----------------------------------------------------------------------------

\* The types of the variables; what runs was made from a directory with a
\* compose.yml in it.
TargetTypeOK ==
    /\ root \in Root /\ staged \in File /\ rendered \in Content
    /\ containers \in Containers
    /\ \A n \in DOMAIN snaps : snaps[n] \in Snapshot
    /\ record \in Record
    /\ pc \in [Commands -> Steps]
    /\ \A c \in Commands : cmd[c].snap \in 0..Len(snaps)

\* Wherever a deploy is killed: a snapshot a rollback would choose has the
\* whole of a render; if the target is no runtime, unless two deploys overlapped.
SnapshotsAreWhole ==
    (runtime \/ ~overlapped) =>
        \A n \in Latest : snaps[n].meta = "whole" => snaps[n].copy \in Revisions

\* A deploy of a target that was running leaves it running, however it ends, if
\* no more than one thing went wrong and nothing overlapped.
OneFailureLeavesItUp ==
    [][\A c \in Commands :
          (/\ pc[c] = "write_record" /\ Op(c) = "deploy" /\ cmd[c].snap # 0
           /\ used.failures + used.kills <= 1 /\ ~overlapped)
          => containers.up]_vars

\* A deploy that answers ok leaves the containers of its own render running, and
\* a record that says pass is written while containers run, unless more than
\* one thing went wrong.
RecordsTellTruth ==
    [][\A c \in Commands :
          (pc[c] = "write_record" /\ pc'[c] \in {"idle", "begin"}
             /\ used'.kills = used.kills /\ ~overlapped)
          => /\ (Op(c) = "deploy" /\ Answer(c))
                => containers = [rev |-> cmd[c].dir, up |-> TRUE]
             /\ (cmd[c].verdict = "pass" /\ used.failures + used.kills <= 1)
                => containers.up]_vars

\* What OpenClaw has added to its configuration survives deploys, syncs and
\* restarts, however they overlap: it is in the file, or about to be written by
\* the command that has truncated it.  Unless it was added after a command had
\* read the file and before that command wrote it, a command was killed between
\* the two, or a config sync was staged over another.
OwnEntriesSurvive ==
    (written /\ ~raced /\ ~restaged) =>
        \/ root.own
        \/ \E c \in Commands : pc[c] = "synced" /\ cmd[c].seen.own
        \/ ~root.valid /\ used.kills > 0

\* Every command ends.
TargetCommandsEnd == \A c \in Commands : (pc[c] # "idle") ~> (pc[c] = "idle")

=============================================================================
