-------------------------- MODULE ServicePipeline --------------------------
(***************************************************************************)
(* Deploys, rollbacks, restarts and self-updates of one service by the     *)
(* archived Python gateway (services/, docker/ and commands/ under         *)
(* src/archive/legacy-implementation).                                     *)
(*                                                                         *)
(* A deploy renders the service into a directory all commands share, saves *)
(* the last successful record and render as the previous ones, replaces    *)
(* the containers, polls them, and either publishes its render or brings   *)
(* the previous one up again.  The HTTP server runs commands in threads    *)
(* and takes no lock; a kill may fall between any two file operations.     *)
(* Directories are written file by file: what is there in between may be   *)
(* started, since docker asks for no more than its compose.yml.            *)
(***************************************************************************)
EXTENDS Integers

CONSTANTS
    Commands,      \* threads that serve /run
    Revisions,     \* revisions of the service's files, each naming itself
    Checked,       \* revisions whose containers have a health check
    MaxCommands,   \* bound: commands started
    MaxOverlap,    \* bound: commands started before one that may overlap;
                   \* nothing starts, fails or is killed afterwards
    MaxFailures,   \* bound: calls that fail
    MaxKills,      \* bound: kills of the gateway
    MaxPolls       \* polls of the containers before the deadline

ASSUME PipelineAssumption ==
    /\ Revisions \subseteq Nat \ {0}
    /\ {MaxCommands, MaxOverlap, MaxFailures, MaxKills, MaxPolls} \subseteq Nat

VARIABLES
    disk,          \* the render directory and the service's state directory
    containers,    \* the revision the containers were made from; whether they run
    helper,        \* whether a detached update helper has yet to run
    pc, cmd,       \* the step each command is about to take, and its locals
    used,          \* how much of each bound is used up
    validated,     \* history: revisions a deploy has validated
    overlapped     \* history: two commands, or one and the helper, have run at a time

vars == <<disk, containers, helper, pc, cmd, used, validated, overlapped>>

None == 0
Torn == -1       \* a directory without a usable compose.yml; a truncated file
Part == -2       \* a directory with compose.yml and not all files of a revision

Startable == Revisions \cup {Part}
Content == Startable \cup {None, Torn}
Names == Revisions \cup {None, Torn}

\* What stays on disk: the shared output directory, active-render,
\* previous-render, last-success.json and previous-success.json.
Disk == [rendered : Content, active : Content, previous : Content,
         last : Names, prior : Names]

Removed == [rev |-> None, up |-> FALSE]

Containers == [rev : Startable, up : BOOLEAN] \cup {Removed}

\* rev: what the command rendered; ok: its docker calls succeeded so far;
\* streak and left: the ready polls in a row, and the polls that remain.
Command == [op : {"none", "deploy", "rollback", "update"}, rev : Names,
            ok : BOOLEAN, streak : 0..2, left : 0..MaxPolls]

NoCommand == [op |-> "none", rev |-> None, ok |-> TRUE, streak |-> 0,
              left |-> MaxPolls]

Steps == {"idle", "prepare", "wipe", "render", "keep", "keep_prior", "keep_render",
          "copy_previous", "pull", "remove", "up", "poll", "restore",
          "restore_up", "publish", "copy_active", "record", "write_last",
          "networks", "launch"}

Bounds == [commands : 0..MaxCommands, failures : 0..MaxFailures, kills : 0..MaxKills]

-----------------------------------------------------------------------------

Goto(c, step) == pc' = [pc EXCEPT ![c] = step]

\* The command answers or raises: its thread is free again.
Return(c) == Goto(c, "idle") /\ cmd' = [cmd EXCEPT ![c] = NoCommand]

Fault ==
    /\ used.failures < MaxFailures /\ ~overlapped
    /\ used' = [used EXCEPT !.failures = @ + 1]

NoFault == UNCHANGED used

Quiet == \A c \in Commands : pc[c] = "idle"

\* A command is accepted while others, or the helper, may be running.
Accept(c) ==
    /\ pc[c] = "idle" /\ used.commands < MaxCommands
    /\ IF Quiet THEN ~overlapped ELSE used.commands <= MaxOverlap
    /\ used' = [used EXCEPT !.commands = @ + 1]
    /\ overlapped' = (overlapped \/ ~Quiet \/ helper)

Begin(c) ==
    /\ Accept(c)
    /\ \E op \in {"deploy", "rollback", "update"} :
          /\ cmd' = [cmd EXCEPT ![c].op = op]
          /\ Goto(c, IF op = "rollback" THEN "restore" ELSE "prepare")
    /\ UNCHANGED <<disk, containers, helper, validated>>

\* start, stop and restart pass through to docker, which refuses a container
\* that does not exist.
Lifecycle(c) ==
    /\ Accept(c)
    /\ \E up \in BOOLEAN :
          containers' = IF containers.rev = None THEN containers
                        ELSE [containers EXCEPT !.up = up]
    /\ UNCHANGED <<disk, helper, pc, cmd, validated>>

-----------------------------------------------------------------------------
(* Rendering and saving what a rollback will need.                         *)

\* What there is of a directory that is being removed, or of a copy of it
\* that is being made.
Remains(dir) ==
    {None} \cup (IF dir = None THEN {} ELSE {Torn})
           \cup (IF dir \in Startable THEN {Part} ELSE {})

\* Another command wipes or fills the output directory.
Disturbed(c) == \E d \in Commands \ {c} : pc[d] \in {"wipe", "render"}

\* The checkout is resolved and the artifact selected; the output directory
\* is then wiped.  A source that cannot be resolved wipes nothing, a directory
\* another command writes to may resist.
Prepare(c) ==
    /\ pc[c] = "prepare"
    /\ \/ /\ \E left \in Remains(disk.rendered) : disk' = [disk EXCEPT !.rendered = left]
          /\ \/ Goto(c, "wipe") /\ UNCHANGED cmd
             \/ Disturbed(c) /\ Return(c)
          /\ NoFault
       \/ Return(c) /\ Fault /\ UNCHANGED disk
    /\ UNCHANGED <<containers, helper, validated, overlapped>>

\* The files of a service are rendered one by one, compose.yml among the
\* first ...
Render(c) ==
    /\ pc[c] = "wipe"
    /\ \/ /\ \E dir \in {Torn, Part} : disk' = [disk EXCEPT !.rendered = dir]
          /\ Goto(c, "render") /\ NoFault /\ UNCHANGED cmd
       \/ /\ \E dir \in {None, Torn, Part} : disk' = [disk EXCEPT !.rendered = dir]
          /\ Return(c) /\ Fault
    /\ UNCHANGED <<containers, helper, validated, overlapped>>

\* What the last file makes of the output directory: all of the revision the
\* checkout holds, if no other command has wiped it or written to it.
Filled(c, rev) ==
    {rev} \cup IF Disturbed(c) \/ disk.rendered \notin {Torn, Part}
               THEN {Torn, Part} ELSE {}

\* ... and the manifest last; a template that cannot be rendered leaves the rest.
Fill(c) ==
    /\ pc[c] = "render"
    /\ \/ /\ \E r \in Revisions :
                /\ \E dir \in Filled(c, r) : disk' = [disk EXCEPT !.rendered = dir]
                /\ cmd' = [cmd EXCEPT ![c].rev = r]
          /\ Goto(c, IF cmd[c].op = "deploy" THEN "keep" ELSE "networks")
          /\ NoFault
       \/ /\ \E dir \in {Torn, Part} : disk' = [disk EXCEPT !.rendered = dir]
          /\ Return(c) /\ Fault
    /\ UNCHANGED <<containers, helper, validated, overlapped>>

\* Mutant: an existing record is not kept.
KeepSuccessOnce(c) ==
    /\ pc[c] = "keep"
    /\ Goto(c, IF disk.last \in Revisions /\ disk.prior = None
               THEN "keep_prior" ELSE "keep_render")
    /\ UNCHANGED <<disk, containers, helper, cmd, used, validated, overlapped>>

\* last-success.json is read (a truncated one raises) and
\* previous-success.json opened for writing.
KeepSuccess(c) ==
    /\ pc[c] = "keep"
    /\ \/ /\ disk.last = None
          /\ Goto(c, "keep_render") /\ UNCHANGED <<disk, cmd>>
       \/ /\ disk.last = Torn
          /\ Return(c) /\ UNCHANGED disk
       \/ /\ disk.last \in Revisions
          /\ disk' = [disk EXCEPT !.prior = Torn]
          /\ Goto(c, "keep_prior") /\ UNCHANGED cmd
    /\ UNCHANGED <<containers, helper, used, validated, overlapped>>

WritePrior(c) ==
    /\ pc[c] = "keep_prior"
    /\ disk' = [disk EXCEPT !.prior = disk.last]
    /\ Goto(c, "keep_render")
    /\ UNCHANGED <<containers, helper, cmd, used, validated, overlapped>>

\* previous-render is removed before active-render is copied over it.
KeepRender(c) ==
    /\ pc[c] = "keep_render"
    /\ \/ /\ disk.active = None
          /\ Goto(c, "pull") /\ UNCHANGED disk
       \/ /\ disk.active # None
          /\ \E left \in Remains(disk.previous) \cup Remains(disk.active) :
                disk' = [disk EXCEPT !.previous = left]
          /\ Goto(c, "copy_previous")
    /\ UNCHANGED <<containers, helper, cmd, used, validated, overlapped>>

\* Mutant: what was just rendered is copied, not what was active.
CopyPreviousRendered(c) ==
    /\ pc[c] = "copy_previous"
    /\ disk' = [disk EXCEPT !.previous = disk.rendered]
    /\ Goto(c, "pull")
    /\ UNCHANGED <<containers, helper, cmd, used, validated, overlapped>>

\* Copying a directory that another command has removed raises, and so does
\* copying over one that another command has made.
CopyPrevious(c) ==
    /\ pc[c] = "copy_previous"
    /\ \/ /\ disk.active # None /\ disk.previous \notin Revisions
          /\ disk' = [disk EXCEPT !.previous = disk.active]
          /\ Goto(c, "pull") /\ UNCHANGED cmd
       \/ /\ disk.active = None \/ disk.previous \in Revisions
          /\ Return(c) /\ UNCHANGED disk
    /\ UNCHANGED <<containers, helper, used, validated, overlapped>>

-----------------------------------------------------------------------------
(* Replacing the containers.                                               *)

\* A failed pull is noted; the stack is deployed all the same.
Pull(c) ==
    /\ pc[c] = "pull"
    /\ Goto(c, "remove")
    /\ \/ NoFault /\ UNCHANGED cmd
       \/ /\ Fault \/ (disk.rendered \notin Startable /\ NoFault)
          /\ cmd' = [cmd EXCEPT ![c].ok = FALSE]
    /\ UNCHANGED <<disk, containers, helper, validated, overlapped>>

\* deploy_stack on the directory dir: the networks it asks for are created
\* first (a missing or broken compose file raises), then the old containers are
\* removed; a removal that fails is not noticed.
RemoveContainers(c, dir, next, failed) ==
    \/ /\ dir # None
       /\ \/ containers' = Removed /\ NoFault
          \/ UNCHANGED containers /\ Fault
       /\ Goto(c, next) /\ UNCHANGED cmd
    \/ /\ dir # None
       /\ Fault /\ failed /\ UNCHANGED containers
    \/ /\ dir \notin Startable
       /\ Return(c) /\ NoFault /\ UNCHANGED containers

\* Mutant: what the stack could not be replaced by is polled all the same.
RemoveUnnoted(c) ==
    /\ pc[c] = "remove"
    /\ RemoveContainers(c, disk.rendered, "up", Goto(c, "poll") /\ UNCHANGED cmd)
    /\ UNCHANGED <<disk, helper, validated, overlapped>>

Remove(c) ==
    /\ pc[c] = "remove"
    /\ RemoveContainers(c, disk.rendered, "up",
          Goto(c, "poll") /\ cmd' = [cmd EXCEPT ![c].ok = FALSE])
    /\ UNCHANGED <<disk, helper, validated, overlapped>>

\* compose up makes the containers from the files that are there now.  It asks
\* for compose.yml only, and fails over containers that were not removed.
ComposeUp(dir, ok) ==
    \/ /\ ok /\ dir \in Startable
       /\ containers' = [rev |-> dir, up |-> TRUE] /\ NoFault
    \/ /\ ~ok /\ UNCHANGED containers
       /\ Fault \/ ((dir \notin Startable \/ containers # Removed) /\ NoFault)

Up(c) ==
    /\ pc[c] = "up"
    /\ \E ok \in BOOLEAN :
          /\ ComposeUp(disk.rendered, ok)
          /\ cmd' = [cmd EXCEPT ![c].ok = @ /\ ok]
    /\ Goto(c, "poll")
    /\ UNCHANGED <<disk, helper, validated, overlapped>>

\* Whether the containers have a health check: what is there in part may.
HealthChecks ==
    IF containers.rev = Part THEN BOOLEAN ELSE {containers.rev \in Checked}

\* Mutant: a container that is not there is no error.
ReadyOrAbsent == BOOLEAN

\* A container that runs may still be starting or unhealthy.
Ready == {FALSE, containers.up}

\* Mutant: a container that flaps starts the wait anew.
PollOutcomeResets(c, ready, checked) ==
    IF ready /\ (checked \/ cmd[c].streak >= 1) THEN "passed" ELSE "again"

\* What one more poll makes of the command: passed at once with a health
\* check, after two ready polls or at the deadline without one.
PollOutcome(c, ready, checked) ==
    IF ready /\ (checked \/ cmd[c].streak >= 1 \/ cmd[c].left = 0)
    THEN "passed"
    ELSE IF cmd[c].left = 0 THEN "failed" ELSE "again"

Poll(c) ==
    /\ pc[c] = "poll"
    /\ \E ready \in Ready, checked \in HealthChecks :
          LET outcome == PollOutcome(c, ready, checked)
          IN \/ /\ outcome = "again"
                /\ cmd' = [cmd EXCEPT ![c].streak = IF ready THEN @ + 1 ELSE 0,
                                      ![c].left = IF @ = 0 THEN 0 ELSE @ - 1]
                /\ UNCHANGED <<pc, validated>>
             \/ /\ outcome = "passed" /\ cmd[c].ok
                /\ Goto(c, "publish")
                /\ validated' = validated \cup {containers.rev}
                /\ UNCHANGED cmd
             \/ /\ outcome = "failed" \/ (outcome = "passed" /\ ~cmd[c].ok)
                /\ Goto(c, "restore") /\ UNCHANGED <<cmd, validated>>
    /\ UNCHANGED <<disk, containers, helper, used, overlapped>>

-----------------------------------------------------------------------------
(* The two ends of a deploy; rollback.                                     *)

\* A failed deploy brings previous-render up if there is one, with the names
\* in previous-success.json, if there is one; the rollback command insists
\* on both.  A truncated record raises in both.
Restore(c) ==
    /\ pc[c] = "restore"
    /\ \/ /\ \/ disk.previous = None
             \/ disk.prior = Torn
             \/ cmd[c].op = "rollback" /\ disk.prior = None
          /\ Return(c) /\ UNCHANGED <<containers, used>>
       \/ /\ disk.previous # None /\ disk.prior # Torn
          /\ cmd[c].op = "rollback" => disk.prior # None
          /\ RemoveContainers(c, disk.previous, "restore_up", Return(c))
    /\ UNCHANGED <<disk, helper, validated, overlapped>>

\* Neither of them looks at the containers again, or at what is recorded.
RestoreUp(c) ==
    /\ pc[c] = "restore_up"
    /\ \E ok \in BOOLEAN : ComposeUp(disk.previous, ok)
    /\ Return(c)
    /\ UNCHANGED <<disk, helper, validated, overlapped>>

\* A deploy that passed copies the output directory over active-render ...
Publish(c) ==
    /\ pc[c] = "publish"
    /\ \E left \in Remains(disk.active) \cup Remains(disk.rendered) :
          disk' = [disk EXCEPT !.active = left]
    /\ Goto(c, "copy_active")
    /\ UNCHANGED <<containers, helper, cmd, used, validated, overlapped>>

CopyActive(c) ==
    /\ pc[c] = "copy_active"
    /\ \/ /\ disk.rendered # None /\ disk.active \notin Revisions
          /\ disk' = [disk EXCEPT !.active = disk.rendered]
          /\ Goto(c, "record") /\ UNCHANGED cmd
       \/ /\ disk.rendered = None \/ disk.active \in Revisions
          /\ Return(c) /\ UNCHANGED disk
    /\ UNCHANGED <<containers, helper, used, validated, overlapped>>

\* ... and rewrites last-success.json in place.
Record(c) ==
    /\ pc[c] = "record"
    /\ disk' = [disk EXCEPT !.last = Torn]
    /\ Goto(c, "write_last")
    /\ UNCHANGED <<containers, helper, cmd, used, validated, overlapped>>

WriteLast(c) ==
    /\ pc[c] = "write_last"
    /\ disk' = [disk EXCEPT !.last = cmd[c].rev]
    /\ Return(c)
    /\ UNCHANGED <<containers, helper, used, validated, overlapped>>

-----------------------------------------------------------------------------
(* Self-update of the gateway's own service.                               *)

\* The networks are created, the image of this container is looked up.
UpdateNetworks(c) ==
    /\ pc[c] = "networks"
    /\ \/ disk.rendered # None /\ Goto(c, "launch") /\ NoFault /\ UNCHANGED cmd
       \/ disk.rendered # None /\ Return(c) /\ Fault
       \/ disk.rendered \notin Startable /\ Return(c) /\ NoFault
    /\ UNCHANGED <<disk, containers, helper, validated, overlapped>>

\* A detached helper is started and the command answers at once; nothing is
\* saved for a rollback.
LaunchHelper(c) ==
    /\ pc[c] = "launch"
    /\ \/ helper' = TRUE /\ NoFault
       \/ UNCHANGED helper /\ Fault
    /\ Return(c)
    /\ UNCHANGED <<disk, containers, validated, overlapped>>

\* The helper recreates the gateway from the files that are there now, which
\* ends every command in progress.
HelperUp ==
    /\ helper /\ helper' = FALSE
    /\ \/ /\ disk.rendered \in Startable
          /\ containers' = [rev |-> disk.rendered, up |-> TRUE]
          /\ pc' = [c \in Commands |-> "idle"]
          /\ cmd' = [c \in Commands |-> NoCommand]
          /\ NoFault
       \/ /\ disk.rendered \in Startable
          /\ Fault /\ UNCHANGED <<containers, pc, cmd>>
       \/ /\ disk.rendered \notin Startable
          /\ UNCHANGED <<containers, pc, cmd, used>>
    /\ overlapped' = (overlapped \/ ~Quiet)
    /\ UNCHANGED <<disk, validated>>

\* The gateway is killed and started again; containers and files remain.
Kill ==
    /\ used.kills < MaxKills /\ ~Quiet /\ ~overlapped
    /\ used' = [used EXCEPT !.kills = @ + 1]
    /\ pc' = [c \in Commands |-> "idle"]
    /\ cmd' = [c \in Commands |-> NoCommand]
    /\ UNCHANGED <<disk, containers, helper, validated, overlapped>>

-----------------------------------------------------------------------------
\* A service that was never deployed, or one that was once.
Init ==
    /\ \/ /\ disk = [rendered |-> None, active |-> None, previous |-> None,
                     last |-> None, prior |-> None]
          /\ containers = Removed /\ validated = {}
       \/ \E r \in Revisions :
             /\ disk = [rendered |-> r, active |-> r, previous |-> None,
                        last |-> r, prior |-> None]
             /\ containers = [rev |-> r, up |-> TRUE] /\ validated = {r}
    /\ helper = FALSE
    /\ pc = [c \in Commands |-> "idle"]
    /\ cmd = [c \in Commands |-> NoCommand]
    /\ used = [commands |-> 0, failures |-> 0, kills |-> 0]
    /\ overlapped = FALSE

Deploy(c) ==
    \/ Prepare(c) \/ Render(c) \/ Fill(c)
    \/ KeepSuccess(c) \/ WritePrior(c) \/ KeepRender(c) \/ CopyPrevious(c)
    \/ Pull(c) \/ Remove(c) \/ Up(c) \/ Poll(c)
    \/ Publish(c) \/ CopyActive(c) \/ Record(c) \/ WriteLast(c)

Work(c) ==
    \/ Deploy(c) \/ Restore(c) \/ RestoreUp(c)
    \/ UpdateNetworks(c) \/ LaunchHelper(c)

Next ==
    \/ \E c \in Commands : Begin(c) \/ Lifecycle(c) \/ Work(c)
    \/ HelperUp \/ Kill

Spec == Init /\ [][Next]_vars

\* The threads are scheduled, every docker call returns and the wait for the
\* containers counts down by the clock.
FairSpec == Spec /\ \A c \in Commands : WF_vars(Work(c))

-----------------------------------------------------------------------------

\* The types of the variables: what polls validate is a container that is there.
PipelineTypeOK ==
    /\ disk \in Disk
    /\ containers \in Containers
    /\ helper \in BOOLEAN
    /\ pc \in [Commands -> Steps]
    /\ cmd \in [Commands -> Command]
    /\ used \in Bounds
    /\ validated \subseteq Startable
    /\ overlapped \in BOOLEAN

\* Whatever fails or is killed, as long as commands do not overlap: the renders
\* kept for a rollback are of revisions whose containers passed their polls, or
\* are copies a kill cut short, and without a kill containers are made from
\* whole renders only.
KeptIsValidated ==
    ~overlapped =>
        /\ validated \subseteq Revisions
        /\ used.kills = 0 => containers.rev \in Revisions \cup {None}
        /\ {disk.active, disk.previous} \subseteq validated \cup {None, Torn, Part}

\* Between commands that neither overlapped nor were killed, each render is of
\* the revision the record beside it names, so a rollback starts containers
\* under the names and the project they had.
RecordsMatchRenders ==
    (Quiet /\ ~overlapped /\ used.kills = 0) =>
        /\ disk.active = disk.last
        /\ disk.previous = disk.prior

\* A failed deploy that brings containers up again brings up the revision of
\* the last successful deploy, however many deploys failed since.
FailedDeployRestoresLast ==
    [][\A c \in Commands :
          (/\ pc[c] = "restore_up" /\ cmd[c].op = "deploy"
           /\ containers' # containers
           /\ ~overlapped' /\ used.kills = 0)
          => containers'.rev = disk.last]_vars

\* A deploy that records its success leaves the containers it made running, and
\* their render as the active one.
SuccessIsWhatRuns ==
    [][\A c \in Commands :
          (/\ pc[c] = "write_last" /\ disk'.last # Torn /\ ~overlapped)
          => /\ containers = [rev |-> disk'.last, up |-> TRUE]
             /\ disk.active = disk'.last]_vars

\* Every command answers, also when its containers never become ready.
CommandsEnd == \A c \in Commands : (pc[c] # "idle") ~> (pc[c] = "idle")

=============================================================================
