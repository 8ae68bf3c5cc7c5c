------------------------ MODULE LegacyGatewayProofs ------------------------
(***************************************************************************)
(* The archived Python gateway, for any number of commands, revisions,     *)
(* failures and kills, one part per subject of MCLegacyGateway:            *)
(*                                                                         *)
(*   service pipeline   what a deploy keeps for a rollback and records     *)
(*   repository cache   who is in the checkout, how new what it read is    *)
(*   bootstrap          what a host has when its bootstrap says ok         *)
(*   skill deploys      which plugins of which skills OpenClaw has         *)
(*                                                                         *)
(* While the commands of a subject do not overlap at most one is at work,  *)
(* so what the step it is at says of the files and the containers stays    *)
(* true until its next step.  The last part composes the four.             *)
(***************************************************************************)
EXTENDS MCLegacyGateway, TLAPS

\* At most one command is at work, unless two have overlapped.
Alone == ~overlapped => \A c, d \in Commands : pc[c] # "idle" /\ pc[d] # "idle" => c = d

DeploySteps == {"keep", "keep_prior", "keep_render", "copy_previous", "pull",
                "remove", "up", "poll", "publish", "copy_active", "record",
                "write_last"}

\* Only a deploy keeps, replaces and publishes; an update ends after its render.
OpFits ==
    \A c \in Commands :
        /\ pc[c] \in DeploySteps => cmd[c].op = "deploy"
        /\ pc[c] \in {"restore", "restore_up"} => cmd[c].op \in {"deploy", "rollback"}

\* What a deploy has made by the time it is at a step.
MadeBy(c) ==
    /\ pc[c] = "render" => disk.rendered \in {Torn, Part}
    /\ pc[c] \in DeploySteps \cup {"networks", "launch"} =>
          disk.rendered = cmd[c].rev /\ cmd[c].rev \in Revisions
    /\ pc[c] = "poll" /\ cmd[c].ok =>
          containers = [rev |-> cmd[c].rev, up |-> TRUE]
    /\ pc[c] \in {"publish", "copy_active", "record", "write_last"} =>
          containers = [rev |-> cmd[c].rev, up |-> TRUE] /\ cmd[c].rev \in validated
    /\ pc[c] \in {"record", "write_last"} => disk.active = cmd[c].rev
    /\ pc[c] = "write_last" => disk.last = Torn

Making == ~overlapped => \A c \in Commands : MadeBy(c)

\* Each record names the render beside it, and nothing is kept of a service
\* that was never deployed.
Settled ==
    /\ disk.active = disk.last /\ disk.previous = disk.prior
    /\ disk.active = None => disk.previous = None

\* How renders and records hang together while a command is at a step.
KeptBy(c) ==
    CASE pc[c] \in {"prepare", "wipe", "render", "keep", "networks", "launch"} -> Settled
      [] pc[c] = "keep_prior" ->
            disk.active = disk.last /\ disk.last # None
      [] pc[c] = "keep_render" ->
            /\ disk.active = disk.last /\ disk.prior = disk.last
            /\ disk.active = None => disk.previous = None
      [] pc[c] = "copy_previous" ->
            /\ disk.active = disk.last /\ disk.prior = disk.last /\ disk.active # None
            /\ disk.previous \notin Revisions
      [] pc[c] \in {"pull", "remove", "up", "poll", "publish"} ->
            /\ disk.active = disk.last
            /\ disk.prior = disk.last /\ disk.previous = disk.last
      [] pc[c] \in {"restore", "restore_up"} ->
            Settled /\ (cmd[c].op = "deploy" => disk.previous = disk.last)
      [] pc[c] = "copy_active" ->
            disk.previous = disk.prior /\ disk.active \notin Revisions
      [] pc[c] \in {"record", "write_last"} -> disk.previous = disk.prior
      [] OTHER -> TRUE

Keeping ==
    (~overlapped /\ used.kills = 0) =>
        /\ Quiet => Settled
        /\ \A c \in Commands : KeptBy(c)

\* The helper finds the render of the update that started it.
Helping == ~overlapped /\ helper => Quiet /\ disk.rendered \in Revisions

PipelineInv ==
    PipelineTypeOK /\ Alone /\ OpFits /\ Making /\ KeptIsValidated /\ Keeping /\ Helping

-----------------------------------------------------------------------------
(* Types.                                                                  *)

LEMMA GotoType ==
  ASSUME PipelineTypeOK, NEW c \in Commands, NEW step \in Steps, Goto(c, step)
  PROVE  pc' \in [Commands -> Steps]
BY DEF PipelineTypeOK, Goto

LEMMA NoCommandType == NoCommand \in Command
BY PipelineAssumption DEF NoCommand, Command, Names, None

LEMMA ReturnType ==
  ASSUME PipelineTypeOK, NEW c \in Commands, Return(c)
  PROVE  pc' \in [Commands -> Steps] /\ cmd' \in [Commands -> Command]
<1>1. pc' \in [Commands -> Steps]
  BY GotoType DEF Return, Steps
<1> QED
  BY <1>1, NoCommandType DEF PipelineTypeOK, Return

LEMMA FaultType ==
  ASSUME PipelineTypeOK, Fault \/ NoFault
  PROVE  used' \in Bounds
BY PipelineAssumption DEF PipelineTypeOK, Fault, NoFault, Bounds

LEMMA AcceptType ==
  ASSUME PipelineTypeOK, NEW c \in Commands, Accept(c)
  PROVE  used' \in Bounds /\ overlapped' \in BOOLEAN
BY PipelineAssumption DEF PipelineTypeOK, Accept, Bounds

LEMMA ComposeUpType ==
  ASSUME PipelineTypeOK, NEW dir, NEW ok \in BOOLEAN, ComposeUp(dir, ok)
  PROVE  containers' \in Containers /\ used' \in Bounds
<1>1. containers' \in Containers
  <2>1. CASE dir \in Startable /\ containers' = [rev |-> dir, up |-> TRUE]
    BY <2>1 DEF Containers
  <2>2. CASE UNCHANGED containers
    BY <2>2 DEF PipelineTypeOK
  <2> QED
    BY <2>1, <2>2 DEF ComposeUp
<1>2. Fault \/ NoFault
  BY DEF ComposeUp
<1> QED
  BY <1>1, <1>2, FaultType

LEMMA BeginType ==
  ASSUME PipelineTypeOK, NEW c \in Commands, Begin(c) \/ Lifecycle(c)
  PROVE  PipelineTypeOK'
<1>1. used' \in Bounds /\ overlapped' \in BOOLEAN
  BY AcceptType DEF Begin, Lifecycle
<1>2. CASE Begin(c)
  <2>1. PICK op \in {"deploy", "rollback", "update"} :
           /\ cmd' = [cmd EXCEPT ![c].op = op]
           /\ Goto(c, IF op = "rollback" THEN "restore" ELSE "prepare")
    BY <1>2 DEF Begin
  <2>2. cmd' \in [Commands -> Command]
    BY <2>1 DEF PipelineTypeOK, Command
  <2>3. pc' \in [Commands -> Steps]
    BY <2>1, GotoType DEF Steps
  <2> QED
    BY <1>1, <1>2, <2>2, <2>3 DEF PipelineTypeOK, Begin
<1>3. CASE Lifecycle(c)
  <2>1. containers' \in Containers
    BY <1>3 DEF PipelineTypeOK, Lifecycle, Containers, Removed
  <2> QED
    BY <1>1, <1>3, <2>1 DEF PipelineTypeOK, Lifecycle
<1> QED
  BY <1>2, <1>3

LEMMA RemainsType ==
  ASSUME NEW dir PROVE Remains(dir) \subseteq Content
BY DEF Remains, Content, Startable

LEMMA RenderingType ==
  ASSUME PipelineTypeOK, NEW c \in Commands, Prepare(c) \/ Render(c) \/ Fill(c)
  PROVE  PipelineTypeOK'
<1>1. used' \in Bounds
  <2>1. Fault \/ NoFault
    BY DEF Prepare, Render, Fill
  <2> QED
    BY <2>1, FaultType
<1>2. ASSUME NEW dir \in Content PROVE [disk EXCEPT !.rendered = dir] \in Disk
  BY DEF PipelineTypeOK, Disk
<1>3. CASE Prepare(c)
  <2>1. disk' \in Disk
    BY <1>2, <1>3, RemainsType DEF PipelineTypeOK, Prepare
  <2>2. pc' \in [Commands -> Steps] /\ cmd' \in [Commands -> Command]
    <3>1. CASE Goto(c, "wipe") /\ UNCHANGED cmd
      BY <3>1, GotoType DEF PipelineTypeOK, Steps
    <3>2. CASE Return(c)
      BY <3>2, ReturnType
    <3> QED
      BY <1>3, <3>1, <3>2 DEF Prepare
  <2> QED
    BY <1>1, <1>3, <2>1, <2>2 DEF PipelineTypeOK, Prepare
<1>4. CASE Render(c)
  <2>1. disk' \in Disk
    BY <1>2, <1>4 DEF Render, Content, Startable
  <2>2. pc' \in [Commands -> Steps] /\ cmd' \in [Commands -> Command]
    <3>1. CASE Goto(c, "render") /\ UNCHANGED cmd
      BY <3>1, GotoType DEF PipelineTypeOK, Steps
    <3>2. CASE Return(c)
      BY <3>2, ReturnType
    <3> QED
      BY <1>4, <3>1, <3>2 DEF Render
  <2> QED
    BY <1>1, <1>4, <2>1, <2>2 DEF PipelineTypeOK, Render
<1>5. CASE Fill(c)
  <2>1. disk' \in Disk
    BY <1>2, <1>5 DEF Fill, Filled, Content, Startable
  <2>2. pc' \in [Commands -> Steps] /\ cmd' \in [Commands -> Command]
    <3>1. ASSUME NEW r \in Revisions, cmd' = [cmd EXCEPT ![c].rev = r],
                 Goto(c, IF cmd[c].op = "deploy" THEN "keep" ELSE "networks")
          PROVE  pc' \in [Commands -> Steps] /\ cmd' \in [Commands -> Command]
      <4>1. cmd' \in [Commands -> Command]
        BY <3>1 DEF PipelineTypeOK, Command, Names
      <4> QED
        BY <3>1, <4>1, GotoType DEF Steps
    <3>2. CASE Return(c)
      BY <3>2, ReturnType
    <3> QED
      BY <1>5, <3>1, <3>2 DEF Fill
  <2> QED
    BY <1>1, <1>5, <2>1, <2>2 DEF PipelineTypeOK, Fill
<1> QED
  BY <1>3, <1>4, <1>5

LEMMA KeepingType ==
  ASSUME PipelineTypeOK, NEW c \in Commands,
         KeepSuccess(c) \/ WritePrior(c) \/ KeepRender(c) \/ CopyPrevious(c)
         \/ Publish(c) \/ CopyActive(c) \/ Record(c) \/ WriteLast(c)
  PROVE  PipelineTypeOK'
<1>1. disk' \in Disk
  BY RemainsType DEF PipelineTypeOK, Disk, Names, Command, KeepSuccess, WritePrior,
         KeepRender, CopyPrevious, Publish, CopyActive, Record, WriteLast
<1>2. pc' \in [Commands -> Steps] /\ cmd' \in [Commands -> Command]
  <2>1. CASE Return(c)
    BY <2>1, ReturnType
  <2>2. ASSUME NEW step \in Steps, Goto(c, step), UNCHANGED cmd
        PROVE  pc' \in [Commands -> Steps] /\ cmd' \in [Commands -> Command]
    BY <2>2, GotoType DEF PipelineTypeOK
  <2> QED
    BY <2>1, <2>2 DEF Steps, KeepSuccess, WritePrior, KeepRender, CopyPrevious,
                      Publish, CopyActive, Record, WriteLast
<1> QED
  BY <1>1, <1>2 DEF PipelineTypeOK, KeepSuccess, WritePrior, KeepRender,
                    CopyPrevious, Publish, CopyActive, Record, WriteLast

LEMMA RemoveContainersType ==
  ASSUME PipelineTypeOK, NEW c \in Commands, NEW dir, NEW next \in Steps,
         NEW ACTION failed, RemoveContainers(c, dir, next, failed),
         failed => pc' \in [Commands -> Steps] /\ cmd' \in [Commands -> Command]
  PROVE  /\ containers' \in Containers /\ used' \in Bounds
         /\ pc' \in [Commands -> Steps] /\ cmd' \in [Commands -> Command]
<1>1. containers' \in Containers /\ used' \in Bounds
  BY FaultType DEF PipelineTypeOK, RemoveContainers, Containers, Removed
<1>2. pc' \in [Commands -> Steps] /\ cmd' \in [Commands -> Command]
  <2>1. CASE Goto(c, next) /\ UNCHANGED cmd
    BY <2>1, GotoType DEF PipelineTypeOK
  <2>2. CASE Return(c)
    BY <2>2, ReturnType
  <2> QED
    BY <2>1, <2>2 DEF RemoveContainers
<1> QED
  BY <1>1, <1>2

LEMMA ReplacingType ==
  ASSUME PipelineTypeOK, NEW c \in Commands, Pull(c) \/ Remove(c) \/ Up(c)
  PROVE  PipelineTypeOK'
<1>1. ASSUME NEW ok \in BOOLEAN PROVE [cmd EXCEPT ![c].ok = ok] \in [Commands -> Command]
  BY DEF PipelineTypeOK, Command
<1>2. CASE Pull(c)
  <2>1. used' \in Bounds /\ cmd' \in [Commands -> Command]
    BY <1>1, <1>2, FaultType DEF PipelineTypeOK, Pull
  <2>2. pc' \in [Commands -> Steps]
    BY <1>2, GotoType DEF Pull, Steps
  <2> QED
    BY <1>2, <2>1, <2>2 DEF PipelineTypeOK, Pull
<1>3. CASE Remove(c)
  <2>1. (Goto(c, "poll") /\ cmd' = [cmd EXCEPT ![c].ok = FALSE])
        => pc' \in [Commands -> Steps] /\ cmd' \in [Commands -> Command]
    BY <1>1, GotoType DEF Steps
  <2>2. /\ containers' \in Containers /\ used' \in Bounds
        /\ pc' \in [Commands -> Steps] /\ cmd' \in [Commands -> Command]
    <3>1. "up" \in Steps
      BY DEF Steps
    <3> QED
      BY <1>3, <2>1, <3>1, RemoveContainersType DEF Remove
  <2> QED
    BY <1>3, <2>2 DEF PipelineTypeOK, Remove
<1>4. CASE Up(c)
  <2>1. containers' \in Containers /\ used' \in Bounds
    BY <1>4, ComposeUpType DEF Up
  <2>2. pc' \in [Commands -> Steps]
    BY <1>4, GotoType DEF Up, Steps
  <2>3. cmd' \in [Commands -> Command]
    BY <1>1, <1>4 DEF PipelineTypeOK, Command, Up
  <2> QED
    BY <1>4, <2>1, <2>2, <2>3 DEF PipelineTypeOK, Up
<1> QED
  BY <1>2, <1>3, <1>4

\* A poll that passes was of containers that are there.
LEMMA PollType ==
  ASSUME PipelineTypeOK, NEW c \in Commands, Poll(c)
  PROVE  PipelineTypeOK'
<1>1. PICK ready \in {FALSE, containers.up}, checked \in HealthChecks :
         LET outcome == PollOutcome(c, ready, checked)
         IN \/ /\ outcome = "again"
               /\ cmd' = [cmd EXCEPT ![c].streak = IF ready THEN @ + 1 ELSE 0,
                                     ![c].left = IF @ = 0 THEN 0 ELSE @ - 1]
               /\ UNCHANGED <<pc, validated>>
            \/ /\ outcome = "passed" /\ cmd[c].ok
               /\ Goto(c, "publish")
               /\ validated' = validated \cup {containers.rev}
               /\ UNCHANGED cmd
            \/ /\ outcome = "failed" \/ (outcome = "passed" /\ ~cmd[c].ok)
               /\ Goto(c, "restore") /\ UNCHANGED <<cmd, validated>>
  BY DEF Poll, Ready
<1>2. cmd[c] \in Command /\ MaxPolls \in Nat
  BY PipelineAssumption DEF PipelineTypeOK
<1>3. /\ cmd[c].streak \in 0..2 /\ cmd[c].left \in 0..MaxPolls
      /\ ready \in BOOLEAN
      /\ ready => containers.rev \in Startable
  <2>1. cmd[c].streak \in 0..2 /\ cmd[c].left \in 0..MaxPolls
    BY <1>2 DEF Command
  <2>2. containers.up \in BOOLEAN /\ (containers.up => containers.rev \in Startable)
    <3>1. CASE containers \in [rev : Startable, up : BOOLEAN]
      BY <3>1
    <3>2. CASE containers = Removed
      BY <3>2 DEF Removed
    <3> QED
      BY <3>1, <3>2 DEF PipelineTypeOK, Containers
  <2> QED
    BY <2>1, <2>2
<1>4. CASE /\ PollOutcome(c, ready, checked) = "again"
           /\ cmd' = [cmd EXCEPT ![c].streak = IF ready THEN @ + 1 ELSE 0,
                                 ![c].left = IF @ = 0 THEN 0 ELSE @ - 1]
           /\ UNCHANGED <<pc, validated>>
  <2>1. ready => cmd[c].streak = 0
    BY <1>4, <1>3 DEF PollOutcome
  <2>2. cmd' \in [Commands -> Command]
    <3>1. cmd[c].left # 0
      BY <1>4, <1>3 DEF PollOutcome
    <3>2. /\ (IF ready THEN cmd[c].streak + 1 ELSE 0) \in 0..2
          /\ (IF cmd[c].left = 0 THEN 0 ELSE cmd[c].left - 1) \in 0..MaxPolls
      BY <1>2, <1>3, <2>1
    <3>3. [cmd[c] EXCEPT !.streak = IF ready THEN @ + 1 ELSE 0,
                         !.left = IF @ = 0 THEN 0 ELSE @ - 1] \in Command
      BY <1>2, <3>2 DEF Command
    <3>4. cmd' = [cmd EXCEPT ![c] =
                     [cmd[c] EXCEPT !.streak = IF ready THEN @ + 1 ELSE 0,
                                    !.left = IF @ = 0 THEN 0 ELSE @ - 1]]
      BY <1>2, <1>4 DEF PipelineTypeOK, Command
    <3> QED
      BY <3>3, <3>4 DEF PipelineTypeOK
  <2> QED
    BY <1>4, <2>2 DEF PipelineTypeOK, Poll
<1>5. CASE /\ PollOutcome(c, ready, checked) = "passed" /\ Goto(c, "publish")
           /\ validated' = validated \cup {containers.rev} /\ UNCHANGED cmd
  <2>1. containers.rev \in Startable
    BY <1>5, <1>3 DEF PollOutcome
  <2>2. pc' \in [Commands -> Steps]
    BY <1>5, GotoType DEF Steps
  <2> QED
    BY <1>5, <2>1, <2>2 DEF PipelineTypeOK, Poll
<1>6. CASE Goto(c, "restore") /\ UNCHANGED <<cmd, validated>>
  <2>1. pc' \in [Commands -> Steps]
    BY <1>6, GotoType DEF Steps
  <2> QED
    BY <1>6, <2>1 DEF PipelineTypeOK, Poll
<1> QED
  BY <1>1, <1>4, <1>5, <1>6

LEMMA RestoringType ==
  ASSUME PipelineTypeOK, NEW c \in Commands, Restore(c) \/ RestoreUp(c)
  PROVE  PipelineTypeOK'
<1>1. /\ containers' \in Containers /\ used' \in Bounds
      /\ pc' \in [Commands -> Steps] /\ cmd' \in [Commands -> Command]
  <2>1. CASE Restore(c)
    <3>1. CASE Return(c) /\ UNCHANGED <<containers, used>>
      BY <3>1, ReturnType DEF PipelineTypeOK
    <3>2. CASE RemoveContainers(c, disk.previous, "restore_up", Return(c))
      <4>1. "restore_up" \in Steps
        BY DEF Steps
      <4>2. Return(c) => pc' \in [Commands -> Steps] /\ cmd' \in [Commands -> Command]
        BY ReturnType
      <4> QED
        BY <3>2, <4>1, <4>2, RemoveContainersType
    <3> QED
      BY <2>1, <3>1, <3>2 DEF Restore
  <2>2. CASE RestoreUp(c)
    BY <2>2, ComposeUpType, ReturnType DEF RestoreUp
  <2> QED
    BY <2>1, <2>2
<1> QED
  BY <1>1 DEF PipelineTypeOK, Restore, RestoreUp

LEMMA UpdateType ==
  ASSUME PipelineTypeOK, NEW c \in Commands, UpdateNetworks(c) \/ LaunchHelper(c)
  PROVE  PipelineTypeOK'
<1>1. used' \in Bounds
  <2>1. Fault \/ NoFault
    BY DEF UpdateNetworks, LaunchHelper
  <2> QED
    BY <2>1, FaultType
<1>2. pc' \in [Commands -> Steps] /\ cmd' \in [Commands -> Command]
  <2>1. CASE Goto(c, "launch") /\ UNCHANGED cmd
    BY <2>1, GotoType DEF PipelineTypeOK, Steps
  <2>2. CASE Return(c)
    BY <2>2, ReturnType
  <2> QED
    BY <2>1, <2>2 DEF UpdateNetworks, LaunchHelper
<1> QED
  BY <1>1, <1>2 DEF PipelineTypeOK, UpdateNetworks, LaunchHelper

LEMMA EndingType ==
  ASSUME PipelineTypeOK, HelperUp \/ Kill
  PROVE  PipelineTypeOK'
<1>1. /\ [c \in Commands |-> "idle"] \in [Commands -> Steps]
      /\ [c \in Commands |-> NoCommand] \in [Commands -> Command]
  BY NoCommandType DEF Steps
<1>2. CASE HelperUp
  <2>1. used' \in Bounds
    <3>1. Fault \/ NoFault
      BY <1>2 DEF HelperUp, NoFault
    <3> QED
      BY <3>1, FaultType
  <2>2. containers' \in Containers
    <3>1. CASE /\ disk.rendered \in Startable
               /\ containers' = [rev |-> disk.rendered, up |-> TRUE]
      BY <3>1 DEF Containers
    <3>2. CASE UNCHANGED containers
      BY <3>2 DEF PipelineTypeOK
    <3> QED
      BY <1>2, <3>1, <3>2 DEF HelperUp
  <2> QED
    BY <1>1, <1>2, <2>1, <2>2 DEF PipelineTypeOK, HelperUp
<1>3. CASE Kill
  <2>1. used' \in Bounds
    BY <1>3, PipelineAssumption DEF PipelineTypeOK, Kill, Bounds
  <2> QED
    BY <1>1, <1>3, <2>1 DEF PipelineTypeOK, Kill
<1> QED
  BY <1>2, <1>3

LEMMA TypeKept ==
  ASSUME PipelineTypeOK, [Next]_vars
  PROVE  PipelineTypeOK'
<1>1. ASSUME NEW c \in Commands, Work(c) PROVE PipelineTypeOK'
  BY <1>1, RenderingType, KeepingType, ReplacingType, PollType, RestoringType, UpdateType
     DEF Work, Deploy
<1>2. CASE UNCHANGED vars
  BY <1>2 DEF PipelineTypeOK, vars
<1> QED
  BY <1>1, <1>2, BeginType, EndingType DEF Next

LEMMA InitType == Init => PipelineTypeOK
<1> SUFFICES ASSUME Init PROVE PipelineTypeOK
  OBVIOUS
<1>1. disk \in Disk /\ containers \in Containers /\ validated \subseteq Startable
  <2>1. CASE /\ disk = [rendered |-> None, active |-> None, previous |-> None,
                        last |-> None, prior |-> None]
             /\ containers = Removed /\ validated = {}
    BY <2>1 DEF Disk, Content, Names, Containers
  <2>2. ASSUME NEW r \in Revisions,
               disk = [rendered |-> r, active |-> r, previous |-> None,
                       last |-> r, prior |-> None],
               containers = [rev |-> r, up |-> TRUE], validated = {r}
        PROVE  disk \in Disk /\ containers \in Containers /\ validated \subseteq Startable
    BY <2>2 DEF Disk, Content, Names, Startable, Containers
  <2> QED
    BY <2>1, <2>2 DEF Init
<1>2. used \in Bounds
  BY PipelineAssumption DEF Init, Bounds
<1>3. pc \in [Commands -> Steps] /\ cmd \in [Commands -> Command]
  BY NoCommandType DEF Init, Steps
<1> QED
  BY <1>1, <1>2, <1>3 DEF Init, PipelineTypeOK

\* Every variable keeps its type, whatever overlaps, fails or is killed; what is
\* validated is a container that is there.
THEOREM PipelineTypeCorrect == Spec => []PipelineTypeOK
  BY InitType, TypeKept, PTL DEF Spec

-----------------------------------------------------------------------------
(* One command at work.                                                    *)

LEMMA FaultKills ==
  ASSUME PipelineTypeOK, Fault \/ NoFault
  PROVE  used'.kills = used.kills
BY DEF PipelineTypeOK, Fault, NoFault, Bounds

LEMMA GotoLocal ==
  ASSUME PipelineTypeOK, NEW c \in Commands, NEW step, Goto(c, step)
  PROVE  pc'[c] = step /\ \A d \in Commands \ {c} : pc'[d] = pc[d]
BY DEF PipelineTypeOK, Goto

LEMMA ReturnLocal ==
  ASSUME PipelineTypeOK, NEW c \in Commands, Return(c)
  PROVE  /\ pc'[c] = "idle" /\ cmd'[c] = NoCommand
         /\ \A d \in Commands \ {c} : pc'[d] = pc[d] /\ cmd'[d] = cmd[d]
BY GotoLocal DEF PipelineTypeOK, Return

\* A step of a command moves that command only.
Local(c) ==
    /\ pc[c] # "idle"
    /\ overlapped' = overlapped /\ used'.kills = used.kills
    /\ \A d \in Commands \ {c} : pc'[d] = pc[d] /\ cmd'[d] = cmd[d]

LEMMA FilesLocal ==
  ASSUME PipelineTypeOK, NEW c \in Commands,
         Prepare(c) \/ Render(c) \/ Fill(c)
         \/ KeepSuccess(c) \/ WritePrior(c) \/ KeepRender(c) \/ CopyPrevious(c)
         \/ Publish(c) \/ CopyActive(c) \/ Record(c) \/ WriteLast(c)
  PROVE  Local(c)
<1>1. pc[c] # "idle" /\ overlapped' = overlapped
  BY DEF Prepare, Render, Fill, KeepSuccess, WritePrior, KeepRender, CopyPrevious,
         Publish, CopyActive, Record, WriteLast
<1>2. used'.kills = used.kills
  BY FaultKills DEF NoFault, Prepare, Render, Fill, KeepSuccess, WritePrior, KeepRender,
         CopyPrevious, Publish, CopyActive, Record, WriteLast
<1>3. \A d \in Commands \ {c} : pc'[d] = pc[d] /\ cmd'[d] = cmd[d]
  <2>1. CASE Return(c)
    BY <2>1, ReturnLocal
  <2>2. ASSUME NEW step, Goto(c, step), UNCHANGED cmd
        PROVE  \A d \in Commands \ {c} : pc'[d] = pc[d] /\ cmd'[d] = cmd[d]
    BY <2>2, GotoLocal
  <2>3. ASSUME NEW r, NEW step, Goto(c, step), cmd' = [cmd EXCEPT ![c].rev = r]
        PROVE  \A d \in Commands \ {c} : pc'[d] = pc[d] /\ cmd'[d] = cmd[d]
    BY <2>3, GotoLocal DEF PipelineTypeOK
  <2> QED
    BY <2>1, <2>2, <2>3
       DEF Prepare, Render, Fill, KeepSuccess, WritePrior, KeepRender, CopyPrevious,
           Publish, CopyActive, Record, WriteLast
<1> QED
  BY <1>1, <1>2, <1>3 DEF Local

LEMMA ContainersLocal ==
  ASSUME PipelineTypeOK, NEW c \in Commands,
         Pull(c) \/ Remove(c) \/ Up(c) \/ Poll(c) \/ Restore(c) \/ RestoreUp(c)
         \/ UpdateNetworks(c) \/ LaunchHelper(c)
  PROVE  Local(c)
<1>1. pc[c] # "idle" /\ overlapped' = overlapped
  BY DEF Pull, Remove, Up, Poll, Restore, RestoreUp, UpdateNetworks, LaunchHelper
<1>2. used'.kills = used.kills
  BY FaultKills DEF NoFault, Pull, Remove, RemoveContainers, Up, ComposeUp, Poll,
         Restore, RestoreUp, UpdateNetworks, LaunchHelper
<1>3. \A d \in Commands \ {c} : pc'[d] = pc[d]
  BY GotoLocal, ReturnLocal DEF Pull, Remove, RemoveContainers, Up, Poll,
         Restore, RestoreUp, UpdateNetworks, LaunchHelper
<1>4. \A d \in Commands \ {c} : cmd'[d] = cmd[d]
  BY ReturnLocal DEF PipelineTypeOK, Pull, Remove, RemoveContainers, Up, Poll,
         Restore, RestoreUp, UpdateNetworks, LaunchHelper
<1> QED
  BY <1>1, <1>2, <1>3, <1>4 DEF Local

LEMMA WorkLocal ==
  ASSUME PipelineTypeOK, NEW c \in Commands, Work(c)
  PROVE  Local(c)
BY FilesLocal, ContainersLocal DEF Work, Deploy

\* The steps that are nobody's work.
Outside == (\E c \in Commands : Begin(c) \/ Lifecycle(c)) \/ HelperUp \/ Kill

LEMMA NextCases ==
  ASSUME [Next]_vars
  PROVE  (\E c \in Commands : Work(c)) \/ Outside \/ UNCHANGED vars
BY DEF Next, Outside

LEMMA AloneKept ==
  ASSUME PipelineTypeOK, Alone, [Next]_vars
  PROVE  Alone'
<1>1. ASSUME NEW c \in Commands, Work(c) PROVE Alone'
  BY <1>1, WorkLocal DEF Local, Alone
<1>2. ASSUME NEW c \in Commands, Begin(c) PROVE Alone'
  <2>1. \A d \in Commands \ {c} : pc'[d] = pc[d]
    BY <1>2, GotoLocal DEF Begin
  <2> QED
    BY <1>2, <2>1 DEF Begin, Accept, Quiet, Alone
<1>3. ASSUME NEW c \in Commands, Lifecycle(c) PROVE Alone'
  BY <1>3 DEF Lifecycle, Accept, Alone
<1>4. CASE HelperUp
  BY <1>4 DEF HelperUp, Alone
<1>5. CASE Kill
  BY <1>5 DEF Kill, Alone
<1>6. CASE UNCHANGED vars
  BY <1>6 DEF vars, Alone
<1> QED
  BY <1>1, <1>2, <1>3, <1>4, <1>5, <1>6 DEF Next

LEMMA OpFitsKept ==
  ASSUME PipelineTypeOK, OpFits, [Next]_vars
  PROVE  OpFits'
<1> DEFINE Fit(c) == /\ pc[c] \in DeploySteps => cmd[c].op = "deploy"
                     /\ pc[c] \in {"restore", "restore_up"} => cmd[c].op \in {"deploy", "rollback"}
<1>1. ASSUME NEW c \in Commands, Work(c) PROVE OpFits'
  <2>1. Local(c) /\ Fit(c)
    BY <1>1, WorkLocal DEF OpFits
  <2>2. Fit(c)'
    <3>1. CASE pc'[c] = "idle"
      BY <3>1 DEF DeploySteps
    <3>2. CASE Prepare(c) \/ Render(c)
      BY <3>2, GotoLocal, ReturnLocal DEF Prepare, Render, DeploySteps
    <3>3. CASE Fill(c) /\ pc'[c] # "idle"
      <4>1. PICK r \in Revisions :
               /\ cmd' = [cmd EXCEPT ![c].rev = r]
               /\ Goto(c, IF cmd[c].op = "deploy" THEN "keep" ELSE "networks")
        BY <3>3, ReturnLocal DEF Fill
      <4>2. cmd'[c].op = cmd[c].op
        BY <4>1 DEF PipelineTypeOK, Command
      <4> QED
        BY <4>1, <4>2, GotoLocal DEF DeploySteps
    <3>4. CASE pc[c] \in DeploySteps /\ cmd'[c].op = cmd[c].op
      BY <2>1, <3>4
    <3>5. CASE pc[c] \in DeploySteps
      <4>1. pc'[c] = "idle" \/ cmd'[c].op = cmd[c].op
        <5>1. CASE \/ KeepSuccess(c) \/ WritePrior(c) \/ KeepRender(c) \/ CopyPrevious(c)
                   \/ Publish(c) \/ CopyActive(c) \/ Record(c) \/ WriteLast(c)
          BY <5>1, ReturnLocal DEF KeepSuccess, WritePrior, KeepRender, CopyPrevious,
             Publish, CopyActive, Record, WriteLast
        <5>2. CASE Pull(c) \/ Remove(c)
          BY <5>2, ReturnLocal DEF PipelineTypeOK, Command, Pull, Remove, RemoveContainers
        <5>3. CASE Up(c) \/ Poll(c)
          BY <5>3 DEF PipelineTypeOK, Command, Up, Poll
        <5> QED
          BY <1>1, <3>5, <5>1, <5>2, <5>3
             DEF DeploySteps, Work, Deploy, Prepare, Render, Fill, Restore, RestoreUp,
                 UpdateNetworks, LaunchHelper
      <4> QED
        BY <3>1, <3>4, <3>5, <4>1
    <3>6. CASE Restore(c) \/ RestoreUp(c)
      BY <2>1, <3>6, GotoLocal, ReturnLocal DEF Restore, RestoreUp, RemoveContainers, DeploySteps
    <3>7. CASE UpdateNetworks(c) \/ LaunchHelper(c)
      BY <3>7, GotoLocal, ReturnLocal DEF UpdateNetworks, LaunchHelper, DeploySteps
    <3>8. Prepare(c) \/ Render(c) \/ Fill(c) \/ pc[c] \in DeploySteps \/ Restore(c) \/ RestoreUp(c)
          \/ UpdateNetworks(c) \/ LaunchHelper(c)
      BY <1>1 DEF Work, Deploy, DeploySteps, KeepSuccess, WritePrior, KeepRender,
                  CopyPrevious, Pull, Remove, Up, Poll, Publish, CopyActive, Record, WriteLast
    <3> QED
      BY <3>1, <3>2, <3>3, <3>5, <3>6, <3>7, <3>8
  <2> QED
    BY <2>1, <2>2 DEF Local, OpFits
<1>2. ASSUME NEW c \in Commands, Begin(c) PROVE OpFits'
  <2>1. PICK op \in {"deploy", "rollback", "update"} :
           /\ cmd' = [cmd EXCEPT ![c].op = op]
           /\ Goto(c, IF op = "rollback" THEN "restore" ELSE "prepare")
    BY <1>2 DEF Begin
  <2>2. cmd'[c].op = op /\ \A d \in Commands \ {c} : pc'[d] = pc[d] /\ cmd'[d] = cmd[d]
    BY <2>1, GotoLocal DEF PipelineTypeOK, Command
  <2> QED
    BY <2>1, <2>2, GotoLocal DEF OpFits, DeploySteps
<1>3. ASSUME NEW c \in Commands, Lifecycle(c) PROVE OpFits'
  BY <1>3 DEF Lifecycle, OpFits
<1>4. CASE HelperUp \/ Kill
  BY <1>4 DEF HelperUp, Kill, OpFits, DeploySteps
<1>5. CASE UNCHANGED vars
  BY <1>5 DEF vars, OpFits
<1> QED
  BY <1>1, <1>2, <1>3, <1>4, <1>5 DEF Next

-----------------------------------------------------------------------------
(* What a deploy has made at each of its steps.                            *)

LEMMA RevisionsNotNone == {None, Torn, Part} \cap Revisions = {}
BY PipelineAssumption DEF None, Torn, Part

LEMMA KeepMade ==
  ASSUME PipelineTypeOK, NEW c \in Commands, MadeBy(c),
         KeepSuccess(c) \/ WritePrior(c) \/ KeepRender(c) \/ CopyPrevious(c)
  PROVE  MadeBy(c)'
<1>1. CASE pc'[c] = "idle"
  BY <1>1 DEF MadeBy, DeploySteps
<1>2. CASE pc'[c] # "idle"
  <2>1. /\ UNCHANGED cmd /\ pc[c] \in DeploySteps
        /\ pc'[c] \in {"keep_prior", "keep_render", "copy_previous", "pull"}
    BY <1>2, GotoLocal, ReturnLocal
       DEF KeepSuccess, WritePrior, KeepRender, CopyPrevious, DeploySteps
  <2>2. disk'.rendered = disk.rendered
    BY DEF PipelineTypeOK, Disk, KeepSuccess, WritePrior, KeepRender, CopyPrevious
  <2> QED
    BY <2>1, <2>2 DEF MadeBy
<1> QED
  BY <1>1, <1>2

LEMMA ReplaceMade ==
  ASSUME PipelineTypeOK, NEW c \in Commands, MadeBy(c),
         Pull(c) \/ Remove(c) \/ Up(c) \/ Poll(c)
  PROVE  MadeBy(c)'
<1>1. cmd[c] \in Command /\ pc[c] \in DeploySteps /\ UNCHANGED disk
  BY DEF PipelineTypeOK, Pull, Remove, Up, Poll, DeploySteps
<1>2. CASE Pull(c)
  <2>1. pc'[c] = "remove" /\ cmd'[c].rev = cmd[c].rev
    BY <1>1, <1>2, GotoLocal DEF PipelineTypeOK, Command, Pull
  <2> QED
    BY <1>1, <2>1 DEF MadeBy
<1>3. CASE Remove(c)
  <2>1. \/ pc'[c] = "idle"
        \/ pc'[c] = "up" /\ cmd'[c].rev = cmd[c].rev
        \/ pc'[c] = "poll" /\ cmd'[c].rev = cmd[c].rev /\ ~cmd'[c].ok
    BY <1>1, <1>3, GotoLocal, ReturnLocal
       DEF PipelineTypeOK, Command, Remove, RemoveContainers
  <2> QED
    BY <1>1, <2>1 DEF MadeBy, DeploySteps
<1>4. CASE Up(c)
  <2>1. pc'[c] = "poll" /\ cmd'[c].rev = cmd[c].rev
    BY <1>1, <1>4, GotoLocal DEF PipelineTypeOK, Command, Up
  <2>2. cmd'[c].ok => containers' = [rev |-> disk.rendered, up |-> TRUE]
    <3>1. PICK ok \in BOOLEAN :
             ComposeUp(disk.rendered, ok) /\ cmd' = [cmd EXCEPT ![c].ok = @ /\ ok]
      BY <1>4 DEF Up
    <3>2. cmd'[c].ok => ok
      BY <1>1, <3>1 DEF PipelineTypeOK, Command
    <3> QED
      BY <3>1, <3>2 DEF ComposeUp
  <2> QED
    BY <1>1, <2>1, <2>2 DEF MadeBy
<1>5. CASE Poll(c)
  <2>1. CASE pc'[c] = "poll" /\ cmd'[c].rev = cmd[c].rev /\ cmd'[c].ok = cmd[c].ok
    BY <1>1, <1>5, <2>1 DEF MadeBy, Poll
  <2>2. CASE /\ pc'[c] = "publish" /\ cmd[c].ok /\ UNCHANGED cmd
             /\ validated' = validated \cup {containers.rev}
    BY <1>1, <1>5, <2>2 DEF MadeBy, Poll
  <2>3. CASE pc'[c] = "restore"
    BY <2>3 DEF MadeBy, DeploySteps
  <2> QED
    BY <1>1, <1>5, <2>1, <2>2, <2>3, GotoLocal DEF PipelineTypeOK, Command, Poll
<1> QED
  BY <1>2, <1>3, <1>4, <1>5

LEMMA PublishMade ==
  ASSUME PipelineTypeOK, NEW c \in Commands, MadeBy(c),
         Publish(c) \/ CopyActive(c) \/ Record(c) \/ WriteLast(c)
  PROVE  MadeBy(c)'
<1>1. UNCHANGED <<containers, validated>> /\ pc[c] \in DeploySteps
  BY DEF Publish, CopyActive, Record, WriteLast, DeploySteps
<1>2. disk'.rendered = disk.rendered
  BY DEF PipelineTypeOK, Disk, Publish, CopyActive, Record, WriteLast
<1>3. CASE pc'[c] = "idle"
  BY <1>3 DEF MadeBy, DeploySteps
<1>4. CASE Publish(c)
  BY <1>1, <1>2, <1>4, GotoLocal DEF MadeBy, Publish
<1>5. CASE CopyActive(c) /\ pc'[c] # "idle"
  <2>1. pc'[c] = "record" /\ UNCHANGED cmd /\ disk'.active = disk.rendered
    BY <1>5, GotoLocal, ReturnLocal DEF PipelineTypeOK, Disk, CopyActive
  <2> QED
    BY <1>1, <1>2, <1>5, <2>1 DEF MadeBy, CopyActive
<1>6. CASE Record(c)
  <2>1. pc'[c] = "write_last" /\ disk'.active = disk.active /\ disk'.last = Torn
    BY <1>6, GotoLocal DEF PipelineTypeOK, Disk, Record
  <2> QED
    BY <1>1, <1>2, <1>6, <2>1 DEF MadeBy, Record
<1>7. CASE WriteLast(c)
  BY <1>3, <1>7, ReturnLocal DEF WriteLast
<1> QED
  BY <1>3, <1>4, <1>5, <1>6, <1>7

LEMMA WorkMade ==
  ASSUME PipelineTypeOK, Alone, ~overlapped, OpFits, NEW c \in Commands, MadeBy(c), Work(c)
  PROVE  MadeBy(c)'
<1>1. CASE pc'[c] \notin DeploySteps \cup {"render", "networks", "launch"}
  BY <1>1 DEF MadeBy, DeploySteps
<1>2. CASE Fill(c)
  <2>1. CASE Return(c)
    BY <1>1, <2>1, ReturnLocal DEF DeploySteps
  <2>2. ASSUME NEW r \in Revisions, NEW dir \in Filled(c, r),
               disk' = [disk EXCEPT !.rendered = dir],
               cmd' = [cmd EXCEPT ![c].rev = r],
               Goto(c, IF cmd[c].op = "deploy" THEN "keep" ELSE "networks")
        PROVE  MadeBy(c)'
    <3>0. dir = r
      <4>1. ~Disturbed(c) /\ disk.rendered \in {Torn, Part}
        BY <1>2 DEF Disturbed, Alone, Fill, MadeBy
      <4> QED
        BY <2>2, <4>1 DEF Filled
    <3>1. disk'.rendered = r /\ cmd'[c].rev = r /\ pc'[c] \in {"keep", "networks"}
      BY <2>2, <3>0, GotoLocal DEF PipelineTypeOK, Disk, Command
    <3> QED
      BY <3>1 DEF MadeBy, DeploySteps
  <2> QED
    BY <1>2, <2>1, <2>2 DEF Fill
<1>3. CASE Prepare(c) \/ Restore(c) \/ RestoreUp(c) \/ LaunchHelper(c)
  <2>1. pc'[c] \notin DeploySteps \cup {"render", "networks", "launch"}
    BY <1>3, GotoLocal, ReturnLocal
       DEF Prepare, Restore, RestoreUp, RemoveContainers, LaunchHelper, DeploySteps
  <2> QED
    BY <1>1, <2>1
<1>4. CASE Render(c) \/ UpdateNetworks(c)
  <2>1. CASE pc'[c] = "idle"
    BY <1>1, <2>1 DEF DeploySteps
  <2>2. CASE Render(c) /\ pc'[c] # "idle"
    <3>1. pc'[c] = "render" /\ disk'.rendered \in {Torn, Part}
      BY <2>2, GotoLocal, ReturnLocal DEF PipelineTypeOK, Disk, Render
    <3> QED
      BY <3>1 DEF MadeBy, DeploySteps
  <2>3. CASE UpdateNetworks(c) /\ pc'[c] # "idle"
    <3>1. pc[c] = "networks" /\ pc'[c] = "launch" /\ UNCHANGED <<disk, cmd>>
      BY <2>3, GotoLocal, ReturnLocal DEF UpdateNetworks
    <3> QED
      BY <3>1 DEF MadeBy, DeploySteps
  <2> QED
    BY <1>4, <2>1, <2>2, <2>3
<1> QED
  BY <1>2, <1>3, <1>4, KeepMade, ReplaceMade, PublishMade DEF Work, Deploy

\* Steps from outside that leave no overlap find nobody at work.
LEMMA OutsideQuiet ==
  ASSUME PipelineTypeOK, Outside, ~overlapped'
  PROVE  ~overlapped /\ UNCHANGED disk /\ (Quiet \/ \A c \in Commands : pc'[c] = "idle")
<1>1. ASSUME NEW c \in Commands, Begin(c) \/ Lifecycle(c)
      PROVE  ~overlapped /\ UNCHANGED disk /\ Quiet
  BY <1>1 DEF PipelineTypeOK, Begin, Lifecycle, Accept
<1>2. CASE HelperUp
  BY <1>2 DEF PipelineTypeOK, HelperUp
<1>3. CASE Kill
  BY <1>3 DEF Kill
<1> QED
  BY <1>1, <1>2, <1>3 DEF Outside

LEMMA OutsideIdle ==
  ASSUME PipelineTypeOK, Outside, ~overlapped', NEW c \in Commands
  PROVE  pc'[c] \in {"idle", "prepare", "restore"}
BY GotoLocal DEF Outside, Begin, Lifecycle, Accept, Quiet, HelperUp, Kill, PipelineTypeOK

LEMMA MakingKept ==
  ASSUME PipelineTypeOK, Alone, OpFits, Making, [Next]_vars
  PROVE  Making'
<1>1. ASSUME NEW c \in Commands, Work(c), ~overlapped'
      PROVE  \A d \in Commands : MadeBy(d)'
  <2>1. Local(c) /\ ~overlapped
    BY <1>1, WorkLocal DEF Local
  <2>2. MadeBy(c)'
    BY <1>1, <2>1, WorkMade DEF Making
  <2>3. ASSUME NEW d \in Commands \ {c} PROVE MadeBy(d)'
    <3>1. pc'[d] = "idle"
      BY <2>1 DEF Local, Alone
    <3> QED
      BY <3>1 DEF MadeBy, DeploySteps
  <2> QED
    BY <2>2, <2>3
<1>2. ASSUME Outside, ~overlapped', NEW d \in Commands PROVE MadeBy(d)'
  BY <1>2, OutsideIdle DEF MadeBy, DeploySteps
<1>3. CASE UNCHANGED vars
  BY <1>3 DEF vars, Making, MadeBy
<1> QED
  BY <1>1, <1>2, <1>3, NextCases DEF Making

\* The containers a step makes are of a revision, unless a kill or an overlap
\* has come before.
LEMMA WholeRuns ==
  ASSUME PipelineTypeOK, NEW c \in Commands, MadeBy(c), KeptBy(c), Work(c),
         containers.rev \in Revisions \cup {None}
  PROVE  containers'.rev \in Revisions \cup {None}
<1>1. CASE Remove(c) \/ Restore(c)
  <2>1. UNCHANGED containers \/ containers' = Removed
    BY <1>1 DEF Remove, Restore, RemoveContainers
  <2> QED
    BY <2>1 DEF Removed
<1>2. CASE Up(c)
  <2>1. disk.rendered \in Revisions
    BY <1>2 DEF MadeBy, DeploySteps, Up
  <2>2. UNCHANGED containers \/ containers' = [rev |-> disk.rendered, up |-> TRUE]
    BY <1>2 DEF Up, ComposeUp
  <2> QED
    BY <2>1, <2>2
<1>3. CASE RestoreUp(c)
  <2>1. disk.previous \in Names
    BY <1>3 DEF KeptBy, Settled, PipelineTypeOK, Disk, RestoreUp
  <2>2. \/ UNCHANGED containers
        \/ disk.previous \in Startable /\ containers' = [rev |-> disk.previous, up |-> TRUE]
    BY <1>3 DEF RestoreUp, ComposeUp
  <2>3. Part \notin Names
    BY PipelineAssumption DEF Names, None, Torn, Part
  <2> QED
    BY <2>1, <2>2, <2>3 DEF Startable
<1>4. CASE UNCHANGED containers
  BY <1>4
<1> QED
  BY <1>1, <1>2, <1>3, <1>4
     DEF Work, Deploy, Prepare, Render, Fill, KeepSuccess, WritePrior, KeepRender,
         CopyPrevious, Pull, Poll, Publish, CopyActive, Record, WriteLast,
         UpdateNetworks, LaunchHelper

LEMMA ValidatedKept ==
  ASSUME PipelineTypeOK, Making, Keeping, Helping, KeptIsValidated, [Next]_vars
  PROVE  KeptIsValidated'
<1> DEFINE Kept == {disk.active, disk.previous} \subseteq validated \cup {None, Torn, Part}
<1>1. ASSUME NEW c \in Commands, Work(c), ~overlapped'
      PROVE  validated' \subseteq Revisions /\ Kept'
  <2>1. ~overlapped /\ MadeBy(c) /\ Kept /\ validated \subseteq Revisions
    BY <1>1, WorkLocal DEF Local, Making, KeptIsValidated
  <2>2. validated \subseteq validated' /\ validated' \subseteq Revisions
    <3>1. CASE UNCHANGED validated
      BY <2>1, <3>1
    <3>2. CASE Poll(c) /\ pc'[c] = "publish"
      <4>1. pc[c] = "poll" /\ cmd[c].ok
        BY <3>2, GotoLocal DEF Poll
      <4>2. containers.rev \in Revisions
        BY <2>1, <4>1 DEF MadeBy, DeploySteps
      <4> QED
        BY <2>1, <3>2, <4>2 DEF Poll
    <3>3. CASE Poll(c) /\ ~UNCHANGED validated
      BY <3>2, <3>3, GotoLocal DEF Poll
    <3> QED
      BY <1>1, <3>1, <3>3
         DEF Work, Deploy, Prepare, Render, Fill, KeepSuccess, WritePrior, KeepRender,
             CopyPrevious, Pull, Remove, Up, Publish, CopyActive, Record,
             WriteLast, Restore, RestoreUp, UpdateNetworks, LaunchHelper
  <2>3. \A dir : Remains(dir) \subseteq {None, Torn, Part}
    BY DEF Remains
  <2>4. CASE KeepRender(c) \/ CopyPrevious(c) \/ Publish(c)
    BY <2>1, <2>2, <2>3, <2>4 DEF PipelineTypeOK, Disk, KeepRender, CopyPrevious, Publish
  <2>5. CASE CopyActive(c)
    <3>1. disk.rendered \in validated
      BY <2>1, <2>5 DEF MadeBy, DeploySteps, CopyActive
    <3> QED
      BY <2>1, <2>2, <2>5, <3>1 DEF PipelineTypeOK, Disk, CopyActive
  <2>6. CASE disk'.active = disk.active /\ disk'.previous = disk.previous
    BY <2>1, <2>2, <2>6
  <2>7. KeepRender(c) \/ CopyPrevious(c) \/ Publish(c) \/ CopyActive(c)
        \/ (disk'.active = disk.active /\ disk'.previous = disk.previous)
    BY <1>1 DEF PipelineTypeOK, Disk, Work, Deploy, Prepare, Render, Fill, KeepSuccess,
                WritePrior, Pull, Remove, Up, Poll, Record,
                WriteLast, Restore, RestoreUp, UpdateNetworks, LaunchHelper
  <2> QED
    BY <2>2, <2>4, <2>5, <2>6, <2>7
<1>2. ASSUME NEW c \in Commands, Work(c), ~overlapped', used'.kills = 0
      PROVE  containers'.rev \in Revisions \cup {None}
  <2>1. ~overlapped /\ used.kills = 0
    BY <1>2, WorkLocal DEF Local
  <2> QED
    BY <1>2, <2>1, WholeRuns DEF Making, Keeping, KeptIsValidated
<1>3. ASSUME Outside, ~overlapped'
      PROVE  validated' \subseteq Revisions /\ Kept'
  <2>1. UNCHANGED <<disk, validated>>
    BY <1>3, OutsideQuiet DEF Outside, Begin, Lifecycle, HelperUp, Kill
  <2> QED
    BY <1>3, <2>1, OutsideQuiet DEF KeptIsValidated
<1>4. ASSUME Outside, ~overlapped', used'.kills = 0
      PROVE  containers'.rev \in Revisions \cup {None}
  <2>1. ~overlapped
    BY <1>4, OutsideQuiet
  <2>2. used.kills = 0
    BY <1>4 DEF PipelineTypeOK, Bounds, Outside, Begin, Lifecycle, Accept, HelperUp,
                NoFault, Fault, Kill
  <2>3. containers.rev \in Revisions \cup {None}
    BY <2>1, <2>2 DEF KeptIsValidated
  <2>4. CASE HelperUp
    <3>1. disk.rendered \in Revisions
      BY <2>1, <2>4 DEF Helping, HelperUp
    <3> QED
      BY <2>3, <2>4, <3>1 DEF HelperUp
  <2>5. CASE \E c \in Commands : Lifecycle(c)
    <3>1. containers'.rev = containers.rev
      BY <2>5 DEF PipelineTypeOK, Containers, Removed, Lifecycle
    <3> QED
      BY <2>3, <3>1
  <2>6. CASE Kill \/ \E c \in Commands : Begin(c)
    BY <2>3, <2>6 DEF Kill, Begin
  <2> QED
    BY <1>4, <2>4, <2>5, <2>6 DEF Outside
<1>5. CASE UNCHANGED vars
  BY <1>5 DEF vars, KeptIsValidated
<1> QED
  BY <1>1, <1>2, <1>3, <1>4, <1>5, NextCases DEF KeptIsValidated

\* Nobody is at work while the helper waits, unless there is an overlap.
LEMMA HelpingKept ==
  ASSUME PipelineTypeOK, Alone, Making, Helping, [Next]_vars
  PROVE  Helping'
<1>1. ASSUME NEW c \in Commands, Work(c), ~overlapped', helper'
      PROVE  Quiet' /\ disk'.rendered \in Revisions
  <2>1. Local(c) /\ ~overlapped
    BY <1>1, WorkLocal DEF Local
  <2>2. ~helper
    BY <2>1 DEF Helping, Quiet, Local
  <2>3. LaunchHelper(c)
    BY <1>1, <2>2
       DEF Work, Deploy, Prepare, Render, Fill, KeepSuccess, WritePrior, KeepRender,
           CopyPrevious, Pull, Remove, Up, Poll, Publish, CopyActive, Record,
           WriteLast, Restore, RestoreUp, UpdateNetworks
  <2>4. disk'.rendered \in Revisions
    BY <2>1, <2>3 DEF Making, MadeBy, LaunchHelper
  <2>5. Quiet'
    BY <2>1, <2>3, ReturnLocal DEF LaunchHelper, Local, Alone, Quiet
  <2> QED
    BY <2>4, <2>5
<1>2. ASSUME Outside, ~overlapped', helper'
      PROVE  Quiet' /\ disk'.rendered \in Revisions
  <2>1. ~overlapped /\ UNCHANGED disk
    BY <1>2, OutsideQuiet
  <2>2. helper /\ Kill
    BY <1>2 DEF Outside, Begin, Lifecycle, Accept, HelperUp, Kill, PipelineTypeOK
  <2> QED
    BY <2>1, <2>2 DEF Helping, Quiet, Kill
<1>3. CASE UNCHANGED vars
  BY <1>3 DEF vars, Helping, Quiet
<1> QED
  BY <1>1, <1>2, <1>3, NextCases DEF Helping

-----------------------------------------------------------------------------
(* How renders and records hang together.                                  *)

\* A step that leaves the four kept files as they are.
SameKept ==
    /\ disk'.active = disk.active /\ disk'.previous = disk.previous
    /\ disk'.last = disk.last /\ disk'.prior = disk.prior

KeptNext(c) == IF pc'[c] = "idle" THEN Settled' ELSE KeptBy(c)'

LEMMA RenderKept ==
  ASSUME PipelineTypeOK, NEW c \in Commands, KeptBy(c),
         Prepare(c) \/ Render(c) \/ Fill(c) \/ UpdateNetworks(c) \/ LaunchHelper(c)
  PROVE  KeptNext(c)
<1>1. SameKept /\ Settled
  BY DEF PipelineTypeOK, Disk, SameKept, KeptBy, Prepare, Render, Fill, UpdateNetworks,
         LaunchHelper
<1>2. pc'[c] \in {"idle", "wipe", "render", "keep", "networks", "launch"}
  BY GotoLocal, ReturnLocal DEF Prepare, Render, Fill, UpdateNetworks, LaunchHelper
<1>3. Settled'
  BY <1>1 DEF SameKept, Settled
<1> QED
  BY <1>2, <1>3 DEF KeptNext, KeptBy

LEMMA KeepKept ==
  ASSUME PipelineTypeOK, NEW c \in Commands, KeptBy(c),
         KeepSuccess(c) \/ WritePrior(c) \/ KeepRender(c) \/ CopyPrevious(c)
  PROVE  KeptNext(c)
<1>1. CASE KeepSuccess(c)
  <2>1. pc[c] = "keep" /\ Settled
    BY <1>1 DEF KeepSuccess, KeptBy
  <2>2. CASE disk.last = None /\ pc'[c] = "keep_render" /\ UNCHANGED disk
    BY <2>1, <2>2 DEF KeptNext, KeptBy, Settled
  <2>3. CASE pc'[c] = "idle" /\ UNCHANGED disk
    BY <2>1, <2>3 DEF KeptNext, Settled
  <2>4. CASE /\ disk.last \in Revisions /\ pc'[c] = "keep_prior"
             /\ disk' = [disk EXCEPT !.prior = Torn]
    <3>1. disk'.active = disk.active /\ disk'.last = disk.last
      BY <2>4 DEF PipelineTypeOK, Disk
    <3> QED
      BY <2>1, <2>4, <3>1, RevisionsNotNone DEF KeptNext, KeptBy, Settled
  <2> QED
    BY <1>1, <2>2, <2>3, <2>4, GotoLocal, ReturnLocal DEF KeepSuccess
<1>2. CASE WritePrior(c)
  <2>1. pc'[c] = "keep_render" /\ disk' = [disk EXCEPT !.prior = disk.last]
    BY <1>2, GotoLocal DEF WritePrior
  <2>2. /\ disk'.active = disk.active /\ disk'.last = disk.last
        /\ disk'.prior = disk.last /\ disk'.previous = disk.previous
    BY <2>1 DEF PipelineTypeOK, Disk
  <2> QED
    BY <1>2, <2>1, <2>2 DEF KeptNext, KeptBy, WritePrior
<1>3. CASE KeepRender(c)
  <2>1. CASE disk.active = None /\ pc'[c] = "pull" /\ UNCHANGED disk
    BY <1>3, <2>1 DEF KeptNext, KeptBy, KeepRender
  <2>2. ASSUME disk.active # None, pc'[c] = "copy_previous",
               NEW left \in Remains(disk.previous) \cup Remains(disk.active),
               disk' = [disk EXCEPT !.previous = left]
        PROVE  KeptNext(c)
    <3>1. /\ disk'.active = disk.active /\ disk'.last = disk.last
          /\ disk'.prior = disk.prior /\ disk'.previous \notin Revisions
      BY <2>2, RevisionsNotNone DEF PipelineTypeOK, Disk, Remains
    <3> QED
      BY <1>3, <2>2, <3>1 DEF KeptNext, KeptBy, KeepRender
  <2> QED
    BY <1>3, <2>1, <2>2, GotoLocal DEF KeepRender
<1>4. CASE CopyPrevious(c)
  <2>1. disk.active # None /\ disk.previous \notin Revisions
    BY <1>4 DEF KeptBy, CopyPrevious
  <2>2. pc'[c] = "pull" /\ disk' = [disk EXCEPT !.previous = disk.active]
    BY <1>4, <2>1, GotoLocal DEF CopyPrevious
  <2>3. /\ disk'.active = disk.active /\ disk'.last = disk.last
        /\ disk'.prior = disk.prior /\ disk'.previous = disk.active
    BY <2>2 DEF PipelineTypeOK, Disk
  <2> QED
    BY <1>4, <2>2, <2>3 DEF KeptNext, KeptBy, CopyPrevious
<1> QED
  BY <1>1, <1>2, <1>3, <1>4

LEMMA ReplaceKept ==
  ASSUME PipelineTypeOK, NEW c \in Commands, KeptBy(c),
         Pull(c) \/ Remove(c) \/ Up(c) \/ Poll(c)
  PROVE  KeptNext(c)
<1>1. /\ disk.active = disk.last /\ disk.prior = disk.last
      /\ disk.previous = disk.last /\ UNCHANGED disk
  BY DEF KeptBy, Pull, Remove, Up, Poll
<1>2. pc'[c] \in {"idle", "remove", "up", "poll", "publish", "restore"}
  BY GotoLocal, ReturnLocal DEF Pull, Remove, RemoveContainers, Up, Poll
<1> QED
  BY <1>1, <1>2 DEF KeptNext, KeptBy, Settled

LEMMA RestoreKept ==
  ASSUME PipelineTypeOK, NEW c \in Commands, KeptBy(c), Restore(c) \/ RestoreUp(c)
  PROVE  KeptNext(c)
<1>1. /\ Settled /\ UNCHANGED disk
      /\ cmd[c].op = "deploy" => disk.previous = disk.last
  BY DEF KeptBy, Restore, RestoreUp
<1>2. pc'[c] = "idle" \/ (pc'[c] = "restore_up" /\ UNCHANGED cmd)
  BY GotoLocal, ReturnLocal DEF Restore, RestoreUp, RemoveContainers
<1> QED
  BY <1>1, <1>2 DEF KeptNext, KeptBy, Settled

LEMMA PublishKept ==
  ASSUME PipelineTypeOK, NEW c \in Commands, KeptBy(c), MadeBy(c),
         Publish(c) \/ CopyActive(c) \/ Record(c) \/ WriteLast(c)
  PROVE  KeptNext(c)
<1>1. disk.previous = disk.prior
  BY DEF KeptBy, Publish, CopyActive, Record, WriteLast
<1>2. disk'.previous = disk.previous /\ disk'.prior = disk.prior
  BY DEF PipelineTypeOK, Disk, Publish, CopyActive, Record, WriteLast
<1>3. CASE Publish(c) \/ Record(c)
  <2>1. Publish(c) => disk'.active \notin Revisions
    BY RevisionsNotNone DEF PipelineTypeOK, Disk, Publish, Remains
  <2> QED
    BY <1>1, <1>2, <1>3, <2>1, GotoLocal DEF KeptNext, KeptBy, Publish, Record
<1>4. CASE CopyActive(c)
  <2>1. disk.rendered # None /\ disk.active \notin Revisions
    BY <1>4, RevisionsNotNone DEF MadeBy, KeptBy, DeploySteps, CopyActive
  <2>2. pc'[c] = "record"
    BY <1>4, <2>1, GotoLocal DEF CopyActive
  <2> QED
    BY <1>1, <1>2, <2>2 DEF KeptNext, KeptBy
<1>5. CASE WriteLast(c)
  <2>1. disk.active = cmd[c].rev /\ cmd[c].rev # None
    BY <1>5, RevisionsNotNone DEF MadeBy, DeploySteps, WriteLast
  <2>2. pc'[c] = "idle" /\ disk'.active = disk.active /\ disk'.last = cmd[c].rev
    BY <1>5, ReturnLocal DEF PipelineTypeOK, Disk, WriteLast
  <2> QED
    BY <1>1, <1>2, <2>1, <2>2 DEF KeptNext, Settled
<1> QED
  BY <1>3, <1>4, <1>5

LEMMA WorkKept ==
  ASSUME PipelineTypeOK, NEW c \in Commands, KeptBy(c), MadeBy(c), Work(c)
  PROVE  KeptNext(c)
BY RenderKept, KeepKept, ReplaceKept, RestoreKept, PublishKept DEF Work, Deploy

LEMMA KeepingKept ==
  ASSUME PipelineTypeOK, Alone, Making, Keeping, [Next]_vars
  PROVE  Keeping'
<1>1. ASSUME NEW c \in Commands, Work(c), ~overlapped', used'.kills = 0
      PROVE  (Quiet' => Settled') /\ \A d \in Commands : KeptBy(d)'
  <2>1. Local(c) /\ ~overlapped /\ used.kills = 0
    BY <1>1, WorkLocal DEF Local
  <2>2. KeptNext(c)
    BY <1>1, <2>1, WorkKept DEF Making, Keeping
  <2>3. ASSUME NEW d \in Commands \ {c} PROVE KeptBy(d)'
    <3>1. pc'[d] = "idle"
      BY <2>1 DEF Local, Alone
    <3> QED
      BY <3>1 DEF KeptBy
  <2> QED
    BY <2>2, <2>3 DEF KeptNext, KeptBy, Quiet
<1>2. ASSUME Outside, ~overlapped', used'.kills = 0
      PROVE  (Quiet' => Settled') /\ \A d \in Commands : KeptBy(d)'
  <2>1. ~overlapped /\ UNCHANGED disk
    BY <1>2, OutsideQuiet
  <2>2. CASE \E c \in Commands : Begin(c)
    <3>1. Quiet /\ used.kills = 0
      BY <1>2, <2>2 DEF PipelineTypeOK, Bounds, Begin, Accept
    <3>2. Settled /\ Settled'
      BY <2>1, <3>1 DEF Keeping, Settled
    <3>3. ASSUME NEW d \in Commands PROVE KeptBy(d)'
      <4>1. CASE pc'[d] \in {"idle", "prepare"}
        BY <3>2, <4>1 DEF KeptBy
      <4>2. CASE pc'[d] = "restore"
        <5>1. PICK c \in Commands, op \in {"deploy", "rollback", "update"} :
                 /\ cmd' = [cmd EXCEPT ![c].op = op]
                 /\ Goto(c, IF op = "rollback" THEN "restore" ELSE "prepare")
          BY <2>2 DEF Begin
        <5>2. d = c /\ op = "rollback"
          BY <3>1, <4>2, <5>1, GotoLocal DEF Quiet
        <5>3. cmd'[d].op = "rollback"
          BY <5>1, <5>2 DEF PipelineTypeOK, Command
        <5> QED
          BY <3>2, <4>2, <5>3 DEF KeptBy
      <4> QED
        BY <1>2, <4>1, <4>2, OutsideIdle
    <3> QED
      BY <3>2, <3>3
  <2>3. CASE HelperUp \/ (\E c \in Commands : Lifecycle(c))
    <3>1. Quiet /\ used.kills = 0
      <4>1. CASE HelperUp
        BY <1>2, <4>1, FaultKills DEF PipelineTypeOK, HelperUp, NoFault
      <4>2. CASE \E c \in Commands : Lifecycle(c)
        BY <1>2, <4>2 DEF PipelineTypeOK, Bounds, Lifecycle, Accept
      <4> QED
        BY <2>3, <4>1, <4>2
    <3>2. Settled'
      BY <2>1, <3>1 DEF Keeping, Settled
    <3>3. \A d \in Commands : pc'[d] = "idle"
      BY <2>3, <3>1 DEF Quiet, HelperUp, Lifecycle
    <3> QED
      BY <3>2, <3>3 DEF KeptBy
  <2>4. CASE Kill
    BY <1>2, <2>4 DEF PipelineTypeOK, Bounds, Kill
  <2> QED
    BY <1>2, <2>2, <2>3, <2>4 DEF Outside
<1>3. CASE UNCHANGED vars
  BY <1>3 DEF vars, Keeping, KeptBy, Quiet, Settled
<1> QED
  BY <1>1, <1>2, <1>3, NextCases DEF Keeping

-----------------------------------------------------------------------------
(* The theorems.                                                           *)

LEMMA InitPipeline == Init => PipelineInv
<1> SUFFICES ASSUME Init PROVE PipelineInv
  OBVIOUS
<1>1. PipelineTypeOK
  BY InitType
<1>2. \A c \in Commands : pc[c] = "idle"
  BY DEF Init
<1>3. /\ {disk.active, disk.previous} \subseteq validated \cup {None, Torn} /\ Settled
      /\ validated \subseteq Revisions /\ containers.rev \in Revisions \cup {None}
  BY DEF Init, Settled, Removed
<1> QED
  BY <1>1, <1>2, <1>3 DEF PipelineInv, Alone, OpFits, Making, MadeBy, DeploySteps,
                          KeptIsValidated, Keeping, KeptBy, Helping, Init

LEMMA PipelineKept == PipelineInv /\ [Next]_vars => PipelineInv'
BY TypeKept, AloneKept, OpFitsKept, MakingKept, ValidatedKept, KeepingKept, HelpingKept
   DEF PipelineInv

\* A deploy's files, records and containers agree at every step it is at.
THEOREM PipelineInvariant == Spec => []PipelineInv
  BY InitPipeline, PipelineKept, PTL DEF Spec

\* As long as commands do not overlap, what is kept for a rollback has been
\* validated or is a copy a kill cut short, and without a kill containers are
\* made from whole renders only (pipeline.py).
THEOREM KeptRendersValidated == Spec => []KeptIsValidated
<1>1. PipelineInv => KeptIsValidated
  BY DEF PipelineInv
<1> QED
  BY PipelineInvariant, <1>1, PTL

\* Between commands that neither overlapped nor were killed each record names
\* the render beside it.
THEOREM RecordsNameRenders == Spec => []RecordsMatchRenders
<1>1. PipelineInv => RecordsMatchRenders
  BY DEF PipelineInv, Keeping, Settled, RecordsMatchRenders
<1> QED
  BY PipelineInvariant, <1>1, PTL

\* The containers a failed deploy brings up again are those of the last
\* successful deploy, however many deploys and calls have failed.
THEOREM FailedDeploysRestoreLast == Spec => FailedDeployRestoresLast
<1>1. ASSUME PipelineInv, [Next]_vars, NEW c \in Commands,
             pc[c] = "restore_up", cmd[c].op = "deploy", containers' # containers,
             ~overlapped', used.kills = 0
      PROVE  containers'.rev = disk.last
  <2>1. ASSUME NEW d \in Commands, Work(d) PROVE containers'.rev = disk.last
    <3>1. ~overlapped /\ d = c
      BY <1>1, <2>1, WorkLocal DEF Local, PipelineInv, Alone
    <3>2. RestoreUp(c)
      BY <1>1, <2>1, <3>1
         DEF Work, Deploy, Prepare, Render, Fill, KeepSuccess, WritePrior, KeepRender,
             CopyPrevious, Pull, Remove, Up, Poll, Publish, CopyActive, Record,
             WriteLast, Restore, UpdateNetworks, LaunchHelper
    <3>3. disk.previous = disk.last
      BY <1>1, <3>1 DEF PipelineInv, Keeping, KeptBy
    <3> QED
      BY <1>1, <3>2, <3>3 DEF RestoreUp, ComposeUp
  <2>2. CASE Outside
    BY <1>1, <2>2 DEF PipelineInv, PipelineTypeOK, Outside, Begin, Lifecycle, Accept,
                      Quiet, HelperUp, Kill
  <2>3. CASE UNCHANGED vars
    BY <1>1, <2>3 DEF vars
  <2> QED
    BY <1>1, <2>1, <2>2, <2>3, NextCases
<1>2. PipelineInv /\ [Next]_vars =>
        [\A c \in Commands :
            (/\ pc[c] = "restore_up" /\ cmd[c].op = "deploy"
             /\ containers' # containers
             /\ ~overlapped' /\ used.kills = 0)
            => containers'.rev = disk.last]_vars
  BY <1>1
<1> QED
  BY PipelineInvariant, <1>2, PTL DEF Spec, FailedDeployRestoresLast

\* A deploy that records its success leaves the containers it made running and
\* their render active, whatever failed or was killed before.
THEOREM RecordedSuccessRuns == Spec => SuccessIsWhatRuns
<1>1. ASSUME PipelineInv, [Next]_vars, NEW c \in Commands,
             pc[c] = "write_last", disk'.last # Torn, ~overlapped
      PROVE  /\ containers = [rev |-> disk'.last, up |-> TRUE]
             /\ disk.active = disk'.last
  <2>1. MadeBy(c)
    BY <1>1 DEF PipelineInv, Making
  <2>2. ASSUME NEW d \in Commands, Work(d) PROVE disk'.last = cmd[c].rev
    <3>1. d = c
      BY <1>1, <2>2, WorkLocal DEF Local, PipelineInv, Alone
    <3>2. WriteLast(c)
      BY <1>1, <2>2, <3>1
         DEF Work, Deploy, Prepare, Render, Fill, KeepSuccess, WritePrior, KeepRender,
             CopyPrevious, Pull, Remove, Up, Poll, Publish, CopyActive, Record,
             Restore, RestoreUp, UpdateNetworks, LaunchHelper
    <3> QED
      BY <1>1, <3>2 DEF PipelineInv, PipelineTypeOK, Disk, WriteLast
  <2>3. CASE Outside
    BY <1>1, <2>1, <2>3 DEF MadeBy, Outside, Begin, Lifecycle, HelperUp, Kill
  <2>4. CASE UNCHANGED vars
    BY <1>1, <2>1, <2>4 DEF MadeBy, vars
  <2> QED
    BY <1>1, <2>1, <2>2, <2>3, <2>4, NextCases DEF MadeBy
<1>2. PipelineInv /\ [Next]_vars =>
        [\A c \in Commands :
            (/\ pc[c] = "write_last" /\ disk'.last # Torn /\ ~overlapped)
            => /\ containers = [rev |-> disk'.last, up |-> TRUE]
               /\ disk.active = disk'.last]_vars
  BY <1>1
<1> QED
  BY PipelineInvariant, <1>2, PTL DEF Spec, SuccessIsWhatRuns

-----------------------------------------------------------------------------
(* Commands end.  CommandsEnd itself is liveness; the measure is proved.   *)

\* How far a step is from the end of its command.
Distance(step) ==
    CASE step = "idle" -> 0
      [] step \in {"write_last", "restore_up", "launch"} -> 1
      [] step \in {"record", "restore", "networks"} -> 2
      [] step = "copy_active" -> 3
      [] step = "publish" -> 4
      [] step = "poll" -> 5
      [] step = "up" -> 6
      [] step = "remove" -> 7
      [] step = "pull" -> 8
      [] step = "copy_previous" -> 9
      [] step = "keep_render" -> 10
      [] step = "keep_prior" -> 11
      [] step = "keep" -> 12
      [] step = "render" -> 13
      [] step = "wipe" -> 14
      [] OTHER -> 15

\* A command takes a step nearer to its end, or has one poll less.
MovesOn(c) ==
    \/ Distance(pc'[c]) < Distance(pc[c])
    \/ /\ pc[c] = "poll" /\ pc'[c] = "poll"
       /\ cmd[c].left \in Nat /\ cmd'[c].left \in Nat /\ cmd'[c].left < cmd[c].left

LEMMA WorkMovesOn ==
  ASSUME PipelineTypeOK, NEW c \in Commands, Work(c)
  PROVE  MovesOn(c)
<1>0. /\ pc \in [Commands -> Steps] /\ cmd[c].left \in 0..MaxPolls
      /\ \A step : Goto(c, step) => pc'[c] = step
  BY GotoLocal DEF PipelineTypeOK, Command
<1> USE DEF MovesOn, Distance, Return
<1>1. CASE Prepare(c) \/ Render(c) \/ Fill(c) \/ KeepSuccess(c) \/ WritePrior(c) \/ KeepRender(c)
  BY <1>0, <1>1 DEF Prepare, Render, Fill, KeepSuccess, WritePrior, KeepRender
<1>2. CASE CopyPrevious(c) \/ Pull(c) \/ Remove(c) \/ Up(c)
  BY <1>0, <1>2 DEF CopyPrevious, Pull, Remove, RemoveContainers, Up
<1>3. CASE Publish(c) \/ CopyActive(c) \/ Record(c) \/ WriteLast(c)
  BY <1>0, <1>3 DEF Publish, CopyActive, Record, WriteLast
<1>4. CASE Restore(c) \/ RestoreUp(c) \/ UpdateNetworks(c) \/ LaunchHelper(c)
  BY <1>0, <1>4 DEF Restore, RemoveContainers, RestoreUp, UpdateNetworks, LaunchHelper
<1>5. CASE Poll(c)
  <2>1. PICK ready \in {FALSE, containers.up}, checked \in HealthChecks :
           \/ /\ PollOutcome(c, ready, checked) = "again" /\ UNCHANGED pc
              /\ cmd' = [cmd EXCEPT ![c].streak = IF ready THEN @ + 1 ELSE 0,
                                    ![c].left = IF @ = 0 THEN 0 ELSE @ - 1]
           \/ Goto(c, "publish") \/ Goto(c, "restore")
    BY <1>5 DEF Poll, Ready
  <2>2. pc[c] = "poll"
    BY <1>5 DEF Poll
  <2>3. CASE Goto(c, "publish") \/ Goto(c, "restore")
    BY <1>0, <2>2, <2>3
  <2>4. CASE /\ PollOutcome(c, ready, checked) = "again" /\ UNCHANGED pc
             /\ cmd' = [cmd EXCEPT ![c].streak = IF ready THEN @ + 1 ELSE 0,
                                   ![c].left = IF @ = 0 THEN 0 ELSE @ - 1]
    <3>1. cmd[c].left # 0
      BY <2>4 DEF PollOutcome
    <3>2. cmd[c].left \in Nat \ {0}
      BY <1>0, <3>1, PipelineAssumption
    <3>3. cmd'[c].left = cmd[c].left - 1
      BY <2>4, <3>1 DEF PipelineTypeOK, Command
    <3> QED
      BY <2>2, <2>4, <3>2, <3>3
  <2> QED
    BY <2>1, <2>3, <2>4
<1> QED
  BY <1>1, <1>2, <1>3, <1>4, <1>5 DEF Work, Deploy

\* Every step of a command of the pipeline brings it nearer to its end, by one
\* step of its operation or one poll of the bounded wait for the containers; no
\* other command takes it back, and a kill or the update's helper ends it
\* (pipeline.py, engine.py).
THEOREM CommandsMoveOn ==
  Spec => [][\A c \in Commands :
                /\ Work(c) => MovesOn(c)
                /\ pc[c] # "idle" /\ <<pc[c], cmd[c]>>' # <<pc[c], cmd[c]>>
                   => MovesOn(c)]_vars
<1> DEFINE OnlyOn ==
      \A c \in Commands :
          /\ Work(c) => MovesOn(c)
          /\ pc[c] # "idle" /\ <<pc[c], cmd[c]>>' # <<pc[c], cmd[c]>> => MovesOn(c)
<1>1. ASSUME PipelineTypeOK, Next, NEW c \in Commands, pc[c] # "idle",
             <<pc[c], cmd[c]>>' # <<pc[c], cmd[c]>>
      PROVE  MovesOn(c)
  <2>1. pc[c] \in Steps
    BY <1>1 DEF PipelineTypeOK
  <2>2. CASE pc'[c] = "idle"
    BY <1>1, <2>1, <2>2 DEF MovesOn, Distance, Steps
  <2>3. ASSUME NEW d \in Commands, Work(d) PROVE MovesOn(c)
    <3>1. d = c
      BY <1>1, <2>3, WorkLocal DEF Local
    <3> QED
      BY <1>1, <2>3, <3>1, WorkMovesOn
  <2>4. ASSUME NEW d \in Commands, Begin(d) \/ Lifecycle(d) PROVE FALSE
    <3>1. CASE Lifecycle(d)
      BY <1>1, <3>1 DEF Lifecycle
    <3>2. CASE Begin(d)
      <4>1. d # c
        BY <1>1, <3>2 DEF Begin, Accept
      <4> QED
        BY <1>1, <3>2, <4>1 DEF Begin, Goto, PipelineTypeOK
    <3> QED
      BY <2>4, <3>1, <3>2
  <2>5. CASE HelperUp \/ Kill
    <3>1. pc'[c] = "idle"
      BY <1>1, <2>5 DEF HelperUp, Kill
    <3> QED
      BY <2>2, <3>1
  <2> QED
    BY <1>1, <2>3, <2>4, <2>5 DEF Next
<1>2. PipelineTypeOK /\ [Next]_vars => [OnlyOn]_vars
  BY <1>1, WorkMovesOn
<1> HIDE DEF OnlyOn
<1>3. Spec => [][OnlyOn]_vars
  BY <1>2, PipelineTypeCorrect, PTL DEF Spec
<1> QED
  BY <1>3 DEF OnlyOn

-----------------------------------------------------------------------------
(* The repository cache: its types.                                        *)

RepoTypes ==
    Repo!CacheTypeOK /\ repoUsed \in [commands : Nat, failures : Nat, kills : Nat]

LEMMA CheckoutType ==
  ASSUME RepoTypes
  PROVE  {mirror, cache, origin, Repo!Source} \subseteq Repo!Checkout
BY GatewayAssumption DEF RepoTypes, Repo!CacheTypeOK, Repo!Checkout, Repo!Commits, Repo!Source

LEMMA RepoGotoLocal ==
  ASSUME RepoTypes, NEW c \in Commands, NEW step, Repo!Goto(c, step)
  PROVE  /\ repoPc'[c] = step /\ \A d \in Commands \ {c} : repoPc'[d] = repoPc[d]
         /\ step \in Repo!Steps => repoPc' \in [Commands -> Repo!Steps]
BY DEF RepoTypes, Repo!CacheTypeOK, Repo!Goto

LEMMA RepoReturnLocal ==
  ASSUME RepoTypes, NEW c \in Commands, Repo!Return(c)
  PROVE  /\ repoPc'[c] = "idle" /\ repoCmd'[c] = Repo!NoCommand
         /\ \A d \in Commands \ {c} : repoPc'[d] = repoPc[d] /\ repoCmd'[d] = repoCmd[d]
         /\ repoPc' \in [Commands -> Repo!Steps]
         /\ repoCmd' \in [Commands -> Repo!Command]
<1>1. Repo!NoCommand \in Repo!Command
  BY GatewayAssumption
     DEF Repo!NoCommand, Repo!Command, Repo!Checkout, Repo!None
<1>2. /\ repoPc'[c] = "idle" /\ \A d \in Commands \ {c} : repoPc'[d] = repoPc[d]
      /\ repoPc' \in [Commands -> Repo!Steps]
  BY RepoGotoLocal DEF Repo!Return, Repo!Steps
<1> QED
  BY <1>1, <1>2 DEF RepoTypes, Repo!CacheTypeOK, Repo!Return

LEMMA RepoRaiseLocal ==
  ASSUME RepoTypes, NEW c \in Commands, Repo!Raise(c)
  PROVE  /\ repoPc'[c] = "release" /\ repoCmd'[c].op = "none"
         /\ \A d \in Commands \ {c} : repoPc'[d] = repoPc[d] /\ repoCmd'[d] = repoCmd[d]
         /\ repoPc' \in [Commands -> Repo!Steps]
         /\ repoCmd' \in [Commands -> Repo!Command]
         /\ repoCmd'[c].since = repoCmd[c].since
<1>1. /\ repoPc'[c] = "release" /\ \A d \in Commands \ {c} : repoPc'[d] = repoPc[d]
      /\ repoPc' \in [Commands -> Repo!Steps]
  BY RepoGotoLocal DEF Repo!Raise, Repo!Steps
<1> QED
  BY <1>1 DEF RepoTypes, Repo!CacheTypeOK, Repo!Raise, Repo!Command

LEMMA RepoUsedType ==
  ASSUME RepoTypes, Repo!Fault \/ Repo!NoFault
  PROVE  /\ repoUsed' \in [commands : Nat, failures : Nat, kills : Nat]
         /\ repoUsed'.kills = repoUsed.kills
BY DEF RepoTypes, Repo!Fault, Repo!NoFault

\* A step of a command in the cache: it moves that command only.
RepoLocal(c) ==
    /\ repoPc[c] # "idle" /\ UNCHANGED <<local, origin>>
    /\ \A d \in Commands \ {c} : repoPc'[d] = repoPc[d] /\ repoCmd'[d] = repoCmd[d]
    /\ repoPc' \in [Commands -> Repo!Steps]
    /\ repoCmd' \in [Commands -> Repo!Command]
    /\ repoUsed' \in [commands : Nat, failures : Nat, kills : Nat]

LEMMA LockLocal ==
  ASSUME RepoTypes, NEW c \in Commands,
         Repo!TakeLock(c) \/ Repo!ReadAge(c) \/ Repo!StealLock(c) \/ Repo!Release(c)
         \/ Repo!ReadHead(c) \/ Repo!ReadFiles(c)
  PROVE  RepoLocal(c) /\ UNCHANGED repoUsed /\ UNCHANGED <<mirror, cache, index>>
<1>1. /\ repoPc[c] # "idle" /\ UNCHANGED <<local, origin, mirror, cache, index, repoUsed>>
  BY DEF Repo!TakeLock, Repo!ReadAge, Repo!StealLock, Repo!Release, Repo!ReadHead,
         Repo!ReadFiles
<1>2. /\ \A d \in Commands \ {c} : repoPc'[d] = repoPc[d] /\ repoCmd'[d] = repoCmd[d]
      /\ repoPc' \in [Commands -> Repo!Steps] /\ repoCmd' \in [Commands -> Repo!Command]
  <2>1. CASE Repo!Return(c)
    BY <2>1, RepoReturnLocal
  <2>2. ASSUME NEW step \in Repo!Steps, Repo!Goto(c, step), UNCHANGED repoCmd
        PROVE  /\ \A d \in Commands \ {c} : repoPc'[d] = repoPc[d] /\ repoCmd'[d] = repoCmd[d]
               /\ repoPc' \in [Commands -> Repo!Steps]
               /\ repoCmd' \in [Commands -> Repo!Command]
    BY <2>2, RepoGotoLocal DEF RepoTypes, Repo!CacheTypeOK
  <2>3. CASE Repo!Wait(c)
    <3>1. CASE Repo!Goto(c, "lock") /\ repoCmd' = [repoCmd EXCEPT ![c].left = @ - 1]
               /\ repoCmd[c].left > 0
      BY <3>1, RepoGotoLocal, GatewayAssumption
         DEF RepoTypes, Repo!CacheTypeOK, Repo!Command, Repo!Steps
    <3> QED
      BY <2>1, <2>3, <3>1 DEF Repo!Wait
  <2>4. CASE Repo!ReadHead(c)
    <3>1. cache \in Repo!Checkout
      BY CheckoutType
    <3> QED
      BY <2>4, <3>1, RepoGotoLocal
         DEF RepoTypes, Repo!CacheTypeOK, Repo!Command, Repo!Steps, Repo!ReadHead
  <2> QED
    BY <2>1, <2>2, <2>3, <2>4
       DEF Repo!TakeLock, Repo!ReadAge, Repo!StealLock, Repo!Release, Repo!ReadFiles,
           Repo!Steps
<1> QED
  BY <1>1, <1>2 DEF RepoLocal, RepoTypes

\* A checkout never loses commits, but for one that has none yet.
Grown(old, new) == old \in Repo!Commits => new \in Repo!Commits /\ new >= old

LEMMA PulledType ==
  ASSUME RepoTypes, NEW ours \in 1..origin, NEW theirs \in (1..origin) \cup {Repo!None, Repo!Broken}
  PROVE  /\ Repo!Pulled(ours, theirs) \in 1..origin
         /\ Repo!Pulled(ours, theirs) \in Repo!Commits
         /\ Repo!Pulled(ours, theirs) >= ours /\ Repo!Pulled(ours, theirs) >= theirs
BY GatewayAssumption
   DEF RepoTypes, Repo!CacheTypeOK, Repo!Commits, Repo!Pulled, Repo!None, Repo!Broken

LEMMA GrownSame ==
  ASSUME RepoTypes
  PROVE  Grown(cache, cache) /\ Grown(mirror, mirror)
BY GatewayAssumption DEF RepoTypes, Repo!CacheTypeOK, Grown, Repo!Commits

LEMMA SourceType ==
  ASSUME RepoTypes
  PROVE  /\ Repo!Source \in (1..origin) \cup {Repo!None, Repo!Broken}
         /\ origin \in 1..origin /\ 1..origin \subseteq Repo!Commits
         /\ mirror \in Repo!Commits => mirror \in 1..origin
         /\ cache \in Repo!Commits => cache \in 1..origin
BY GatewayAssumption
   DEF RepoTypes, Repo!CacheTypeOK, Repo!Commits, Repo!Source, Repo!None, Repo!Broken

\* What a step of a command does to the checkouts.
RepoData ==
    /\ {mirror', cache'} \subseteq (1..origin) \cup {Repo!None, Repo!Broken}
    /\ Grown(mirror, mirror') /\ Grown(cache, cache')
    /\ index' \in Commands \cup {Repo!Free, Repo!Dead}

LEMMA SameData ==
  ASSUME RepoTypes, UNCHANGED <<mirror, cache>>,
         index' = index \/ index' = Repo!Free \/ index' \in Commands
  PROVE  RepoData
BY GrownSame DEF RepoTypes, Repo!CacheTypeOK, RepoData

LEMMA PullLocal ==
  ASSUME RepoTypes, NEW c \in Commands,
         Repo!Inside(c) \/ Repo!Clone(c) \/ Repo!Pull(c)
         \/ Repo!RefreshCache(c) \/ Repo!RefreshPull(c)
  PROVE  RepoLocal(c) /\ RepoData /\ UNCHANGED mirror
<1>1. repoPc[c] # "idle" /\ UNCHANGED <<local, origin, mirror>>
  BY DEF Repo!Inside, Repo!Clone, Repo!Pull, Repo!RefreshCache, Repo!RefreshPull
<1>2. repoUsed' \in [commands : Nat, failures : Nat, kills : Nat]
  <2>1. Repo!Fault \/ Repo!NoFault \/ UNCHANGED repoUsed
    BY DEF Repo!Inside, Repo!StartPull, Repo!Clone, Repo!Pull, Repo!EndPull,
           Repo!RefreshCache, Repo!RefreshPull
  <2> QED
    BY <2>1, RepoUsedType DEF RepoTypes
<1>3. /\ \A d \in Commands \ {c} : repoPc'[d] = repoPc[d] /\ repoCmd'[d] = repoCmd[d]
      /\ repoPc' \in [Commands -> Repo!Steps] /\ repoCmd' \in [Commands -> Repo!Command]
  <2>1. CASE Repo!Return(c)
    BY <2>1, RepoReturnLocal
  <2>2. CASE Repo!Raise(c)
    BY <2>2, RepoRaiseLocal
  <2>3. ASSUME NEW step \in Repo!Steps, Repo!Goto(c, step), UNCHANGED repoCmd
        PROVE  /\ \A d \in Commands \ {c} : repoPc'[d] = repoPc[d] /\ repoCmd'[d] = repoCmd[d]
               /\ repoPc' \in [Commands -> Repo!Steps]
               /\ repoCmd' \in [Commands -> Repo!Command]
    BY <2>3, RepoGotoLocal DEF RepoTypes, Repo!CacheTypeOK
  <2> QED
    BY <2>1, <2>2, <2>3
       DEF Repo!Inside, Repo!StartPull, Repo!Clone, Repo!Pull, Repo!EndPull,
           Repo!RefreshCache, Repo!RefreshPull, Repo!Steps
<1>4. RepoData
  <2>1. CASE Repo!Inside(c) \/ Repo!RefreshCache(c)
    <3>1. UNCHANGED <<mirror, cache>> /\ (index' = index \/ index' = c)
      BY <2>1 DEF Repo!Inside, Repo!RefreshCache, Repo!StartPull
    <3> QED
      BY <3>1, SameData
  <2>2. CASE Repo!Clone(c)
    <3>1. CASE UNCHANGED <<mirror, cache, index>>
      BY <3>1, SameData
    <3>2. CASE /\ cache' = Repo!Source /\ cache = Repo!None /\ Repo!Source \in Repo!Commits
               /\ UNCHANGED <<mirror, index>>
      <4>1. Repo!None \notin Repo!Commits
        BY GatewayAssumption DEF Repo!None, Repo!Commits
      <4> QED
        BY <3>2, <4>1, SourceType, GrownSame DEF RepoTypes, Repo!CacheTypeOK, RepoData, Grown
    <3> QED
      BY <2>2, <3>1, <3>2 DEF Repo!Clone
  <2>3. CASE Repo!Pull(c) \/ Repo!RefreshPull(c)
    <3>1. /\ UNCHANGED mirror /\ index' = Repo!Free
          /\ cache' = cache \/ cache' = Repo!Pulled(cache, Repo!Source)
      BY <2>3 DEF Repo!Pull, Repo!RefreshPull, Repo!EndPull
    <3>2. Grown(cache, Repo!Pulled(cache, Repo!Source))
      BY SourceType, PulledType DEF Grown
    <3>3. Repo!Pulled(cache, Repo!Source) \in {cache, Repo!Source}
      BY DEF Repo!Pulled
    <3>4. cache' \in (1..origin) \cup {Repo!None, Repo!Broken}
      BY <3>1, <3>3, SourceType DEF RepoTypes, Repo!CacheTypeOK
    <3> QED
      BY <3>1, <3>2, <3>4, GrownSame DEF RepoTypes, Repo!CacheTypeOK, RepoData
  <2> QED
    BY <2>1, <2>2, <2>3
<1> QED
  BY <1>1, <1>2, <1>3, <1>4 DEF RepoLocal

LEMMA MirrorLocal ==
  ASSUME RepoTypes, NEW c \in Commands, Repo!RefreshMirror(c) \/ Repo!SeedMirror(c)
  PROVE  /\ RepoLocal(c) /\ RepoData
         /\ \/ repoPc'[c] = "idle"
            \/ /\ repoPc'[c] = "cache" /\ repoCmd'[c].seen = mirror'
               /\ repoCmd'[c].since = repoCmd[c].since
               /\ mirror' \in Repo!Commits
<1>1. /\ repoPc[c] # "idle" /\ UNCHANGED <<local, origin, cache, index>>
  BY DEF Repo!RefreshMirror, Repo!SeedMirror
<1>2. repoUsed' \in [commands : Nat, failures : Nat, kills : Nat]
  BY RepoUsedType DEF Repo!RefreshMirror, Repo!SeedMirror
<1>3. CASE Repo!Return(c) /\ UNCHANGED mirror
  BY <1>1, <1>2, <1>3, RepoReturnLocal, SameData DEF RepoLocal
<1>4. ASSUME NEW head \in 1..origin, mirror' = head, Grown(mirror, head),
             repoCmd' = [repoCmd EXCEPT ![c].seen = head], Repo!Goto(c, "cache")
      PROVE  /\ RepoLocal(c) /\ RepoData
             /\ repoPc'[c] = "cache" /\ repoCmd'[c].seen = mirror'
             /\ repoCmd'[c].since = repoCmd[c].since
             /\ mirror' \in Repo!Commits
  <2>1. head \in Repo!Commits /\ head \in Repo!Checkout
    BY <1>4, SourceType DEF Repo!Checkout
  <2>2. /\ repoCmd' \in [Commands -> Repo!Command] /\ repoCmd'[c].seen = head
        /\ repoCmd'[c].since = repoCmd[c].since
        /\ \A d \in Commands \ {c} : repoCmd'[d] = repoCmd[d]
    BY <1>4, <2>1 DEF RepoTypes, Repo!CacheTypeOK, Repo!Command
  <2> QED
    BY <1>1, <1>2, <1>4, <2>1, <2>2, GrownSame, RepoGotoLocal
       DEF RepoTypes, Repo!CacheTypeOK, RepoLocal, RepoData, Repo!Steps
<1>5. Repo!None \notin Repo!Commits
  BY GatewayAssumption DEF Repo!None, Repo!Commits
<1>6. ASSUME NEW theirs \in 1..origin, mirror \in Repo!Commits
      PROVE  /\ Repo!Pulled(mirror, theirs) \in 1..origin
             /\ Grown(mirror, Repo!Pulled(mirror, theirs))
  BY <1>6, SourceType, PulledType DEF Grown
<1>7. ASSUME NEW theirs \in 1..origin, mirror = Repo!None
      PROVE  /\ Repo!Pulled(mirror, theirs) = theirs
             /\ Grown(mirror, theirs)
  BY <1>5, <1>7 DEF Repo!Pulled, Repo!None, Grown, RepoTypes, Repo!CacheTypeOK, Repo!Commits
<1>8. CASE Repo!RefreshMirror(c)
  <2>1. CASE /\ mirror = Repo!None /\ mirror' = origin
             /\ repoCmd' = [repoCmd EXCEPT ![c].seen = origin] /\ Repo!Goto(c, "cache")
    BY <1>4, <1>7, <2>1, SourceType
  <2>2. ASSUME mirror \in Repo!Commits, NEW theirs \in IF local THEN {mirror, origin} ELSE {origin},
               mirror' = Repo!Pulled(mirror, theirs),
               repoCmd' = [repoCmd EXCEPT ![c].seen = Repo!Pulled(mirror, theirs)],
               Repo!Goto(c, "cache")
        PROVE  /\ RepoLocal(c) /\ RepoData
               /\ repoPc'[c] = "cache" /\ repoCmd'[c].seen = mirror'
               /\ repoCmd'[c].since = repoCmd[c].since
               /\ mirror' \in Repo!Commits
    <3>1. theirs \in 1..origin
      BY <2>2, SourceType
    <3> QED
      BY <1>4, <1>6, <2>2, <3>1
  <2> QED
    BY <1>3, <1>8, <2>1, <2>2 DEF Repo!RefreshMirror
<1>9. CASE Repo!SeedMirror(c)
  <2>1. ASSUME mirror # Repo!Broken, NEW bundle \in 1..origin,
               mirror' = Repo!Pulled(mirror, bundle),
               repoCmd' = [repoCmd EXCEPT ![c].seen = Repo!Pulled(mirror, bundle)],
               Repo!Goto(c, "cache")
        PROVE  /\ RepoLocal(c) /\ RepoData
               /\ repoPc'[c] = "cache" /\ repoCmd'[c].seen = mirror'
               /\ repoCmd'[c].since = repoCmd[c].since
               /\ mirror' \in Repo!Commits
    <3>1. mirror = Repo!None \/ mirror \in Repo!Commits
      BY <2>1, SourceType DEF RepoTypes, Repo!CacheTypeOK
    <3> QED
      BY <1>4, <1>6, <1>7, <2>1, <3>1
  <2> QED
    BY <1>3, <1>9, <2>1 DEF Repo!SeedMirror
<1> QED
  BY <1>8, <1>9

LEMMA RepoWorkLocal ==
  ASSUME RepoTypes, NEW c \in Commands, Repo!Work(c)
  PROVE  RepoLocal(c) /\ RepoData
<1>1. CASE Repo!TakeLock(c) \/ Repo!ReadAge(c) \/ Repo!StealLock(c) \/ Repo!Release(c)
           \/ Repo!ReadHead(c) \/ Repo!ReadFiles(c)
  BY <1>1, LockLocal, SameData
<1> QED
  BY <1>1, PullLocal, MirrorLocal DEF Repo!Work

LEMMA LockFileType ==
  ASSUME RepoTypes, [Repo!Next]_Repo!vars
  PROVE  lock' \in Repo!LockFile /\ stolen' \in BOOLEAN
<1>1. stolen' \in BOOLEAN
  BY DEF RepoTypes, Repo!CacheTypeOK, Repo!Next, Repo!vars, Repo!Begin, Repo!Work, Repo!Kill, Repo!Push, Repo!Age,
         Repo!TakeLock, Repo!ReadAge, Repo!StealLock, Repo!Release, Repo!Inside,
         Repo!Clone, Repo!Pull, Repo!ReadHead, Repo!ReadFiles, Repo!RefreshMirror,
         Repo!SeedMirror, Repo!RefreshCache, Repo!RefreshPull
<1>2. ASSUME lock' = lock \/ lock' = Repo!NoLock PROVE lock' \in Repo!LockFile
  BY <1>2 DEF RepoTypes, Repo!CacheTypeOK, Repo!LockFile
<1>3. ASSUME NEW c \in Commands, lock' = [by |-> c, age |-> 0]
      PROVE  lock' \in Repo!LockFile
  BY <1>3, GatewayAssumption DEF Repo!LockFile
<1>4. ASSUME Repo!Age PROVE lock' \in Repo!LockFile
  <2>1. /\ lock \in [by : Commands \cup {Repo!Dead}, age : 0..Stale]
        /\ lock.age < Stale /\ lock' = [lock EXCEPT !.age = @ + 1]
    BY <1>4 DEF RepoTypes, Repo!CacheTypeOK, Repo!LockFile, Repo!Age
  <2>2. lock' \in [by : Commands \cup {Repo!Dead}, age : 0..Stale]
    BY <2>1, GatewayAssumption
  <2> QED
    BY <2>2 DEF Repo!LockFile
<1>5. ASSUME NEW c \in Commands, Repo!Kill(c) PROVE lock' \in Repo!LockFile
  <2>1. CASE lock.by = c
    <3>1. lock \in [by : Commands \cup {Repo!Dead}, age : 0..Stale]
      BY <2>1, GatewayAssumption DEF RepoTypes, Repo!CacheTypeOK, Repo!LockFile, Repo!NoLock
    <3>2. lock' = [lock EXCEPT !.by = Repo!Dead]
      BY <1>5, <2>1 DEF Repo!Kill
    <3>3. lock' \in [by : Commands \cup {Repo!Dead}, age : 0..Stale]
      BY <3>1, <3>2
    <3> QED
      BY <3>3 DEF Repo!LockFile
  <2>2. CASE lock.by # c
    BY <1>2, <1>5, <2>2 DEF Repo!Kill
  <2> QED
    BY <2>1, <2>2
<1>6. \/ lock' = lock \/ lock' = Repo!NoLock \/ Repo!Age
      \/ \E c \in Commands : lock' = [by |-> c, age |-> 0] \/ Repo!Kill(c)
  BY DEF Repo!Next, Repo!vars, Repo!Begin, Repo!Work, Repo!Push,
         Repo!TakeLock, Repo!ReadAge, Repo!StealLock, Repo!Release, Repo!Inside,
         Repo!Clone, Repo!Pull, Repo!ReadHead, Repo!ReadFiles, Repo!RefreshMirror,
         Repo!SeedMirror, Repo!RefreshCache, Repo!RefreshPull
<1> QED
  BY <1>1, <1>2, <1>3, <1>4, <1>5, <1>6 DEF RepoTypes, Repo!CacheTypeOK

LEMMA RepoBegin ==
  ASSUME RepoTypes, NEW c \in Commands, Repo!Begin(c)
  PROVE  /\ repoCmd' \in [Commands -> Repo!Command] /\ repoCmd'[c].since = Repo!Source
         /\ repoPc'[c] \in {"lock", "mirror"} /\ repoPc' \in [Commands -> Repo!Steps]
         /\ \A d \in Commands \ {c} : repoPc'[d] = repoPc[d] /\ repoCmd'[d] = repoCmd[d]
<1>1. PICK op \in {"checkout", "refresh", "seed"} :
         /\ repoCmd' = [repoCmd EXCEPT ![c].op = op, ![c].since = Repo!Source]
         /\ Repo!Goto(c, IF op = "checkout" THEN "lock" ELSE "mirror")
  BY DEF Repo!Begin
<1>2. Repo!Source \in Repo!Checkout
  BY CheckoutType
<1>3. [repoCmd[c] EXCEPT !.op = op, !.since = Repo!Source] \in Repo!Command
  BY <1>2 DEF RepoTypes, Repo!CacheTypeOK, Repo!Command
<1>4. repoCmd' = [repoCmd EXCEPT ![c] = [repoCmd[c] EXCEPT !.op = op, !.since = Repo!Source]]
  BY <1>1 DEF RepoTypes, Repo!CacheTypeOK, Repo!Command
<1>5. repoCmd' \in [Commands -> Repo!Command] /\ repoCmd'[c].since = Repo!Source
      /\ \A d \in Commands \ {c} : repoCmd'[d] = repoCmd[d]
  BY <1>3, <1>4 DEF RepoTypes, Repo!CacheTypeOK, Repo!Command
<1> QED
  BY <1>1, <1>5, RepoGotoLocal DEF Repo!Steps

LEMMA RepoTypesKept ==
  ASSUME RepoTypes, [Repo!Next]_Repo!vars
  PROVE  RepoTypes'
<1>1. lock' \in Repo!LockFile /\ stolen' \in BOOLEAN
  BY LockFileType
<1>2. ASSUME NEW c \in Commands, Repo!Work(c) PROVE RepoTypes'
  BY <1>1, <1>2, RepoWorkLocal DEF RepoTypes, Repo!CacheTypeOK, RepoLocal, RepoData
<1>3. ASSUME NEW c \in Commands, Repo!Begin(c) PROVE RepoTypes'
  <2>1. repoUsed' \in [commands : Nat, failures : Nat, kills : Nat]
    BY <1>3 DEF RepoTypes, Repo!Begin
  <2> QED
    BY <1>1, <1>3, <2>1, RepoBegin DEF RepoTypes, Repo!CacheTypeOK, Repo!Begin
<1>4. ASSUME NEW c \in Commands, Repo!Kill(c) PROVE RepoTypes'
  <2>1. repoUsed' \in [commands : Nat, failures : Nat, kills : Nat]
    BY <1>4 DEF RepoTypes, Repo!Kill
  <2>2. repoPc' \in [Commands -> Repo!Steps] /\ repoCmd' \in [Commands -> Repo!Command]
    BY <1>4, RepoReturnLocal DEF Repo!Kill
  <2>3. index' \in Commands \cup {Repo!Free, Repo!Dead}
        /\ mirror' \in (1..origin) \cup {Repo!None, Repo!Broken}
        /\ UNCHANGED <<local, origin, cache>>
    BY <1>4 DEF RepoTypes, Repo!CacheTypeOK, Repo!Kill
  <2> QED
    BY <1>1, <2>1, <2>2, <2>3 DEF RepoTypes, Repo!CacheTypeOK
<1>5. CASE Repo!Push
  <2>1. origin' \in Repo!Commits /\ 1..origin \subseteq 1..(origin')
    BY <1>5, GatewayAssumption DEF RepoTypes, Repo!CacheTypeOK, Repo!Commits, Repo!Push
  <2> QED
    BY <1>1, <1>5, <2>1 DEF RepoTypes, Repo!CacheTypeOK, Repo!Push
<1>6. CASE Repo!Age
  BY <1>1, <1>6 DEF RepoTypes, Repo!CacheTypeOK, Repo!Age
<1>7. CASE UNCHANGED Repo!vars
  BY <1>7 DEF RepoTypes, Repo!CacheTypeOK, Repo!vars
<1> QED
  BY <1>2, <1>3, <1>4, <1>5, <1>6, <1>7 DEF Repo!Next

-----------------------------------------------------------------------------
(* The repository cache: its lock and what is read from it.                *)

Block == {"inside", "clone", "pulling", "release"}

\* The lock file is that of the command in the block, until one was stolen.
Holding == ~stolen => \A c \in Commands : repoPc[c] \in Block => lock.by = c

LEMMA HoldingWork ==
  ASSUME RepoTypes, Holding, NEW c \in Commands, Repo!Work(c)
  PROVE  Holding'
<1>1. \A d \in Commands \ {c} : repoPc'[d] = repoPc[d]
  BY RepoWorkLocal DEF RepoLocal
<1>2. CASE Repo!TakeLock(c)
  <2>1. CASE lock = Repo!NoLock /\ lock' = [by |-> c, age |-> 0] /\ UNCHANGED stolen
    BY <1>1, <2>1, GatewayAssumption DEF Holding, Repo!NoLock
  <2>2. CASE UNCHANGED <<lock, stolen>> /\ repoPc'[c] = "age"
    BY <1>1, <2>2 DEF Holding, Block
  <2> QED
    BY <1>2, <2>1, <2>2, RepoGotoLocal DEF Repo!TakeLock
<1>3. CASE Repo!StealLock(c) /\ stolen'
  BY <1>3 DEF Holding
<1>4. CASE Repo!Release(c)
  <2>1. repoPc'[c] \notin Block /\ UNCHANGED stolen
    BY <1>4, RepoReturnLocal, RepoGotoLocal DEF Repo!Release, Block
  <2>2. repoPc[c] \in Block
    BY <1>4 DEF Repo!Release, Block
  <2> QED
    BY <1>1, <2>1, <2>2 DEF Holding
<1>5. CASE UNCHANGED <<lock, stolen>> /\ (repoPc'[c] \in Block => repoPc[c] \in Block)
  BY <1>1, <1>5 DEF Holding
<1>6. ASSUME Repo!ReadAge(c) \/ (Repo!StealLock(c) /\ ~stolen')
      PROVE  UNCHANGED <<lock, stolen>> /\ repoPc'[c] \notin Block
  BY <1>6, RepoReturnLocal, RepoGotoLocal
     DEF Repo!ReadAge, Repo!StealLock, Repo!Wait, Block
<1>7. ASSUME Repo!Inside(c) \/ Repo!Clone(c) \/ Repo!Pull(c)
      PROVE  UNCHANGED <<lock, stolen>> /\ repoPc[c] \in Block
  BY <1>7 DEF Repo!Inside, Repo!Clone, Repo!Pull, Block
<1>8. ASSUME Repo!ReadHead(c) \/ Repo!ReadFiles(c) \/ Repo!RefreshMirror(c)
             \/ Repo!SeedMirror(c) \/ Repo!RefreshCache(c) \/ Repo!RefreshPull(c)
      PROVE  UNCHANGED <<lock, stolen>> /\ repoPc'[c] \notin Block
  BY <1>8, RepoReturnLocal, RepoGotoLocal, MirrorLocal
     DEF Repo!ReadHead, Repo!ReadFiles, Repo!RefreshMirror, Repo!SeedMirror,
         Repo!RefreshCache, Repo!StartPull, Repo!RefreshPull, Block
<1> QED
  BY <1>2, <1>3, <1>4, <1>5, <1>6, <1>7, <1>8 DEF Repo!Work

LEMMA HoldingKept ==
  ASSUME RepoTypes, Holding, [Repo!Next]_Repo!vars
  PROVE  Holding'
<1>1. ASSUME NEW c \in Commands, Repo!Begin(c) PROVE Holding'
  BY <1>1, RepoBegin DEF Holding, Block, Repo!Begin
<1>2. ASSUME NEW c \in Commands, Repo!Kill(c) PROVE Holding'
  <2>1. /\ repoPc'[c] = "idle" /\ \A d \in Commands \ {c} : repoPc'[d] = repoPc[d]
        /\ lock.by # c => lock' = lock
    BY <1>2, RepoReturnLocal DEF Repo!Kill
  <2> QED
    BY <1>2, <2>1 DEF Holding, Block, Repo!Kill
<1>3. CASE Repo!Age
  BY <1>3 DEF RepoTypes, Repo!CacheTypeOK, Repo!LockFile, Holding, Repo!Age, Repo!NoLock
<1>4. CASE Repo!Push \/ UNCHANGED Repo!vars
  BY <1>4 DEF Holding, Repo!Push, Repo!vars
<1> QED
  BY <1>1, <1>2, <1>3, <1>4, HoldingWork DEF Repo!Next

\* What a command compares with is no newer than what it can still reach: its
\* source when it started, unless that had no commit, and the head it reports.
Reachable ==
    \A c \in Commands :
        /\ repoPc[c] # "idle" /\ repoCmd[c].since \in Repo!Commits =>
              Repo!Source \in Repo!Commits /\ Repo!Source >= repoCmd[c].since
        /\ repoPc[c] \in {"cache", "refresh_pull"} =>
              /\ repoCmd[c].seen \in Repo!Commits
              /\ Repo!Source \in Repo!Commits /\ Repo!Source >= repoCmd[c].seen

LEMMA SourceGrown ==
  ASSUME RepoTypes, RepoData, UNCHANGED <<local, origin>>
  PROVE  Grown(Repo!Source, Repo!Source')
BY SourceType, GatewayAssumption
   DEF RepoTypes, Repo!CacheTypeOK, RepoData, Grown, Repo!Source, Repo!Commits

LEMMA GrownTrans ==
  ASSUME NEW old, NEW new, NEW since \in Repo!Commits, Grown(old, new),
         old \in Repo!Commits, old >= since
  PROVE  new \in Repo!Commits /\ new >= since
BY GatewayAssumption DEF Grown, Repo!Commits

LEMMA ReachableWork ==
  ASSUME RepoTypes, Reachable, NEW c \in Commands, Repo!Work(c)
  PROVE  Reachable'
<1>1. RepoLocal(c) /\ RepoData /\ Grown(Repo!Source, Repo!Source')
  BY RepoWorkLocal, SourceGrown DEF RepoLocal
<1>2. ASSUME NEW d \in Commands, repoPc'[d] # "idle",
             repoPc[d] # "idle", repoCmd'[d].since = repoCmd[d].since,
             repoCmd'[d].since \in Repo!Commits
      PROVE  Repo!Source' \in Repo!Commits /\ Repo!Source' >= repoCmd'[d].since
  BY <1>1, <1>2, GrownTrans DEF Reachable
<1>3. ASSUME NEW d \in Commands, repoPc[d] \in {"cache", "refresh_pull"},
             repoCmd'[d].seen = repoCmd[d].seen
      PROVE  /\ repoCmd'[d].seen \in Repo!Commits
             /\ Repo!Source' \in Repo!Commits /\ Repo!Source' >= repoCmd'[d].seen
  BY <1>1, <1>3, GrownTrans DEF Reachable
<1>4. repoPc'[c] = "idle" \/ repoCmd'[c].since = repoCmd[c].since
  BY RepoReturnLocal, RepoRaiseLocal, MirrorLocal
     DEF RepoTypes, Repo!CacheTypeOK, Repo!Command, Repo!Work, Repo!TakeLock,
         Repo!ReadAge, Repo!Wait, Repo!StealLock, Repo!Release, Repo!Inside,
         Repo!StartPull, Repo!Clone, Repo!Pull, Repo!EndPull, Repo!ReadHead,
         Repo!ReadFiles, Repo!RefreshCache, Repo!RefreshPull
<1>5. CASE Repo!RefreshMirror(c) \/ Repo!SeedMirror(c)
  <2>1. repoPc'[c] = "cache" =>
          /\ repoCmd'[c].seen \in Repo!Commits
          /\ Repo!Source' \in Repo!Commits /\ Repo!Source' >= repoCmd'[c].seen
    <3>1. repoPc'[c] = "cache" => repoCmd'[c].seen = mirror' /\ mirror' \in Repo!Commits
      BY <1>5, MirrorLocal
    <3>2. mirror' \in Repo!Commits => Repo!Source' \in Repo!Commits /\ Repo!Source' >= mirror'
      BY <1>1, SourceType, GatewayAssumption
         DEF RepoTypes, Repo!CacheTypeOK, RepoLocal, RepoData, Repo!Source, Repo!Commits,
             Repo!None, Repo!Broken
    <3> QED
      BY <3>1, <3>2
  <2>2. repoPc'[c] \in {"idle", "cache"}
    BY <1>5, MirrorLocal
  <2> QED
    BY <1>1, <1>2, <1>3, <1>4, <2>1, <2>2 DEF RepoLocal, Reachable
<1>6. CASE Repo!RefreshCache(c)
  <2>1. repoPc'[c] = "idle"
        \/ (repoPc[c] = "cache" /\ repoPc'[c] = "refresh_pull" /\ UNCHANGED repoCmd)
    BY <1>6, RepoReturnLocal, RepoGotoLocal DEF Repo!RefreshCache, Repo!StartPull
  <2> QED
    BY <1>1, <1>2, <1>3, <1>4, <2>1 DEF RepoLocal, Reachable
<1>7. CASE repoPc'[c] \notin {"cache", "refresh_pull"}
  BY <1>1, <1>2, <1>3, <1>4, <1>7 DEF RepoLocal, Reachable
<1>8. repoPc'[c] \notin {"cache", "refresh_pull"}
      \/ Repo!RefreshMirror(c) \/ Repo!SeedMirror(c) \/ Repo!RefreshCache(c)
  BY RepoReturnLocal, RepoRaiseLocal, RepoGotoLocal
     DEF Repo!Work, Repo!TakeLock, Repo!ReadAge, Repo!Wait, Repo!StealLock,
         Repo!Release, Repo!Inside, Repo!StartPull, Repo!Clone, Repo!Pull,
         Repo!EndPull, Repo!ReadHead, Repo!ReadFiles, Repo!RefreshPull
<1> QED
  BY <1>5, <1>6, <1>7, <1>8

\* The steps of the cache that are no command's work.
RepoOutside ==
    (\E c \in Commands : Repo!Begin(c) \/ Repo!Kill(c)) \/ Repo!Push \/ Repo!Age

LEMMA RepoNextCases ==
  ASSUME [Repo!Next]_Repo!vars
  PROVE  (\E c \in Commands : Repo!Work(c)) \/ RepoOutside \/ UNCHANGED Repo!vars
BY DEF Repo!Next, RepoOutside

LEMMA OutsideGrown ==
  ASSUME RepoTypes, RepoOutside
  PROVE  Grown(Repo!Source, Repo!Source') /\ UNCHANGED cache
<1>1. ASSUME UNCHANGED <<local, origin>>, mirror' = mirror \/ mirror = Repo!None
      PROVE  Grown(Repo!Source, Repo!Source')
  BY <1>1, GatewayAssumption
     DEF RepoTypes, Repo!CacheTypeOK, Grown, Repo!Source, Repo!Commits, Repo!None
<1>2. CASE Repo!Push
  <2>1. Grown(Repo!Source, Repo!Source')
    BY <1>2, GatewayAssumption
       DEF RepoTypes, Repo!CacheTypeOK, Grown, Repo!Source, Repo!Commits, Repo!Push
  <2> QED
    BY <1>2, <2>1 DEF Repo!Push
<1> QED
  BY <1>1, <1>2 DEF RepoOutside, Repo!Begin, Repo!Kill, Repo!Age

\* A command outside its work keeps its place, or starts, or is killed.
LEMMA OutsideMoves ==
  ASSUME RepoTypes, RepoOutside, NEW d \in Commands
  PROVE  \/ repoPc'[d] = repoPc[d] /\ repoCmd'[d] = repoCmd[d]
         \/ repoPc'[d] = "idle"
         \/ repoPc'[d] \in {"lock", "mirror"} /\ repoCmd'[d].since = Repo!Source
            /\ Repo!Source' = Repo!Source
<1>1. ASSUME NEW c \in Commands, Repo!Begin(c)
      PROVE  \/ repoPc'[d] = repoPc[d] /\ repoCmd'[d] = repoCmd[d]
             \/ repoPc'[d] \in {"lock", "mirror"} /\ repoCmd'[d].since = Repo!Source
                /\ Repo!Source' = Repo!Source
  <2>1. Repo!Source' = Repo!Source
    BY <1>1 DEF Repo!Begin, Repo!Source
  <2> QED
    BY <1>1, <2>1, RepoBegin
<1>2. ASSUME NEW c \in Commands, Repo!Kill(c)
      PROVE  \/ repoPc'[d] = repoPc[d] /\ repoCmd'[d] = repoCmd[d]
             \/ repoPc'[d] = "idle"
  BY <1>2, RepoReturnLocal DEF Repo!Kill
<1> QED
  BY <1>1, <1>2 DEF RepoOutside, Repo!Push, Repo!Age

LEMMA ReachableKept ==
  ASSUME RepoTypes, Reachable, [Repo!Next]_Repo!vars
  PROVE  Reachable'
<1>1. CASE RepoOutside
  <2>1. Grown(Repo!Source, Repo!Source')
    BY <1>1, OutsideGrown
  <2>2. ASSUME NEW d \in Commands, repoPc'[d] # "idle", repoCmd'[d].since \in Repo!Commits
        PROVE  Repo!Source' \in Repo!Commits /\ Repo!Source' >= repoCmd'[d].since
    <3>1. CASE repoPc'[d] = repoPc[d] /\ repoCmd'[d] = repoCmd[d]
      BY <2>1, <2>2, <3>1, GrownTrans DEF Reachable
    <3>2. CASE repoCmd'[d].since = Repo!Source /\ Repo!Source' = Repo!Source
      BY <2>2, <3>2, GatewayAssumption DEF Repo!Commits
    <3> QED
      BY <1>1, <2>2, <3>1, <3>2, OutsideMoves
  <2>3. ASSUME NEW d \in Commands, repoPc'[d] \in {"cache", "refresh_pull"}
        PROVE  /\ repoCmd'[d].seen \in Repo!Commits
               /\ Repo!Source' \in Repo!Commits /\ Repo!Source' >= repoCmd'[d].seen
    <3>1. repoPc'[d] = repoPc[d] /\ repoCmd'[d] = repoCmd[d]
      BY <1>1, <2>3, OutsideMoves
    <3> QED
      BY <2>1, <2>3, <3>1, GrownTrans DEF Reachable
  <2> QED
    BY <2>2, <2>3 DEF Reachable
<1>2. CASE UNCHANGED Repo!vars
  BY <1>2 DEF Reachable, Repo!vars, Repo!Source
<1> QED
  BY <1>1, <1>2, ReachableWork, RepoNextCases

\* Past its update a command finds the cache at least at its source's start.
UpToDate ==
    \A c \in Commands :
        ((repoPc[c] = "release" /\ repoCmd[c].op # "none") \/ repoPc[c] \in {"head", "read"})
        => cache \in Repo!Commits /\ cache >= repoCmd[c].since

LEMMA UpToDateKept ==
  ASSUME RepoTypes, Reachable, UpToDate, [Repo!Next]_Repo!vars
  PROVE  UpToDate'
<1>1. ASSUME NEW d \in Commands, Grown(cache, cache'),
             repoPc'[d] = repoPc[d], repoCmd'[d] = repoCmd[d],
             (repoPc'[d] = "release" /\ repoCmd'[d].op # "none") \/ repoPc'[d] \in {"head", "read"}
      PROVE  cache' \in Repo!Commits /\ cache' >= repoCmd'[d].since
  <2>1. cache \in Repo!Commits /\ cache >= repoCmd[d].since
    BY <1>1 DEF UpToDate
  <2>2. repoCmd[d].since \in Repo!Checkout
    BY DEF RepoTypes, Repo!CacheTypeOK, Repo!Command
  <2> QED
    BY <1>1, <2>1, <2>2, GatewayAssumption
       DEF Grown, Repo!Commits, Repo!Checkout, Repo!None, Repo!Broken
<1>2. ASSUME NEW c \in Commands, Repo!Work(c) PROVE UpToDate'
  <2>1. RepoLocal(c) /\ Grown(cache, cache')
    BY <1>2, RepoWorkLocal DEF RepoData
  <2>2. repoCmd[c].since \in Repo!Checkout
    BY DEF RepoTypes, Repo!CacheTypeOK, Repo!Command
  <2>3. ASSUME cache' \in Repo!Commits, cache' >= Repo!Source, Repo!Source \in Repo!Commits,
               repoCmd'[c].since = repoCmd[c].since
        PROVE  cache' \in Repo!Commits /\ cache' >= repoCmd'[c].since
    <3>1. repoCmd[c].since \in Repo!Commits => Repo!Source >= repoCmd[c].since
      BY <2>1 DEF RepoLocal, Reachable
    <3> QED
      BY <2>2, <2>3, <3>1, GatewayAssumption
         DEF Repo!Commits, Repo!Checkout, Repo!None, Repo!Broken
  <2>4. CASE ~((repoPc'[c] = "release" /\ repoCmd'[c].op # "none")
               \/ repoPc'[c] \in {"head", "read"})
    BY <1>1, <2>1, <2>4 DEF RepoLocal, UpToDate
  <2>5. CASE cache' \in Repo!Commits /\ cache' >= repoCmd'[c].since
    BY <1>1, <2>1, <2>5 DEF RepoLocal, UpToDate
  <2>6. CASE Repo!Clone(c)
    <3>1. CASE Repo!Raise(c)
      BY <2>4, <3>1, RepoRaiseLocal
    <3>2. CASE Repo!Source \in Repo!Commits /\ cache' = Repo!Source /\ UNCHANGED repoCmd
      BY <2>3, <2>5, <3>2, GatewayAssumption DEF Repo!Commits
    <3> QED
      BY <2>6, <3>1, <3>2 DEF Repo!Clone
  <2>7. CASE Repo!Pull(c)
    <3>1. CASE Repo!Raise(c)
      BY <2>4, <3>1, RepoRaiseLocal
    <3>2. CASE /\ Repo!Source \in Repo!Commits /\ UNCHANGED repoCmd
               /\ cache' = Repo!Pulled(cache, Repo!Source)
      <4>1. cache' \in Repo!Commits /\ cache' >= Repo!Source
        BY <3>2, GatewayAssumption
           DEF RepoTypes, Repo!CacheTypeOK, Repo!Commits, Repo!Pulled, Repo!None, Repo!Broken
      <4> QED
        BY <2>3, <2>5, <3>2, <4>1
    <3> QED
      BY <2>7, <3>1, <3>2 DEF Repo!Pull, Repo!EndPull
  <2>8. CASE Repo!Inside(c)
    <3>1. repoPc'[c] \in {"clone", "pulling"} \/ repoCmd'[c].op = "none"
      BY <2>8, RepoGotoLocal, RepoRaiseLocal DEF Repo!Inside, Repo!StartPull
    <3>2. repoPc'[c] \notin {"head", "read"}
      BY <2>8, RepoGotoLocal, RepoRaiseLocal DEF Repo!Inside, Repo!StartPull
    <3> QED
      BY <2>4, <3>1, <3>2
  <2>9. CASE Repo!Release(c) \/ Repo!ReadHead(c)
    <3>1. CASE repoPc'[c] = "idle"
      BY <2>4, <3>1
    <3>2. CASE repoPc'[c] # "idle"
      <4>1. /\ repoCmd'[c].since = repoCmd[c].since /\ UNCHANGED cache
            /\ (repoPc[c] = "release" /\ repoCmd[c].op # "none") \/ repoPc[c] = "head"
        BY <2>9, <3>2, RepoReturnLocal
           DEF RepoTypes, Repo!CacheTypeOK, Repo!Command, Repo!Release, Repo!ReadHead
      <4> QED
        BY <2>5, <4>1 DEF UpToDate
    <3> QED
      BY <3>1, <3>2
  <2>10. ASSUME Repo!TakeLock(c) \/ Repo!ReadAge(c) \/ Repo!StealLock(c) \/ Repo!ReadFiles(c)
                \/ Repo!RefreshMirror(c) \/ Repo!SeedMirror(c) \/ Repo!RefreshCache(c)
                \/ Repo!RefreshPull(c)
         PROVE  repoPc'[c] \notin {"release", "head", "read"}
    BY <2>10, RepoReturnLocal, RepoGotoLocal, MirrorLocal
       DEF Repo!TakeLock, Repo!ReadAge, Repo!Wait, Repo!StealLock, Repo!ReadFiles,
           Repo!RefreshCache, Repo!StartPull, Repo!RefreshPull
  <2> QED
    BY <1>2, <2>4, <2>6, <2>7, <2>8, <2>9, <2>10 DEF Repo!Work
<1>3. CASE RepoOutside
  <2>1. UNCHANGED cache /\ Grown(cache, cache')
    BY <1>3, OutsideGrown, GrownSame
  <2> QED
    BY <1>1, <1>3, <2>1, OutsideMoves DEF UpToDate
<1>4. CASE UNCHANGED Repo!vars
  BY <1>4 DEF UpToDate, Repo!vars
<1> QED
  BY <1>2, <1>3, <1>4, RepoNextCases

RepoInv == RepoTypes /\ Holding /\ Reachable /\ UpToDate

LEMMA InitRepo == Repo!Init => RepoInv
<1> SUFFICES ASSUME Repo!Init PROVE RepoInv
  OBVIOUS
<1>1. 1 \in Repo!Commits /\ Repo!NoCommand \in Repo!Command
  BY GatewayAssumption
     DEF Repo!Commits, Repo!NoCommand, Repo!Command, Repo!Checkout, Repo!None
<1>2. RepoTypes
  <2>1. origin \in Repo!Commits /\ {mirror, cache} \subseteq (1..origin) \cup {Repo!None, Repo!Broken}
    <3>1. origin = 1 /\ 1 \in 1..1
      BY DEF Repo!Init
    <3> QED
      BY <1>1, <3>1 DEF Repo!Init
  <2>2. local \in BOOLEAN /\ stolen \in BOOLEAN
    BY DEF Repo!Init
  <2>3. lock \in Repo!LockFile /\ index \in Commands \cup {Repo!Free, Repo!Dead}
    BY DEF Repo!Init, Repo!LockFile
  <2>4. repoPc \in [Commands -> Repo!Steps] /\ repoCmd \in [Commands -> Repo!Command]
    BY <1>1 DEF Repo!Init, Repo!Steps
  <2>5. repoUsed \in [commands : Nat, failures : Nat, kills : Nat]
    BY DEF Repo!Init
  <2> QED
    BY <2>1, <2>2, <2>3, <2>4, <2>5 DEF RepoTypes, Repo!CacheTypeOK
<1>3. Holding /\ Reachable /\ UpToDate
  BY DEF Repo!Init, Holding, Block, Reachable, UpToDate
<1> QED
  BY <1>2, <1>3 DEF RepoInv

LEMMA RepoKept == RepoInv /\ [Repo!Next]_Repo!vars => RepoInv'
BY RepoTypesKept, HoldingKept, ReachableKept, UpToDateKept DEF RepoInv

\* The lock and the contents of the cache keep their relation in every behaviour.
THEOREM RepoInvariant == Repo!Spec => []RepoInv
BY InitRepo, RepoKept, PTL DEF Repo!Spec

\* Whatever locks killed commands leave, no two commands are in the block the
\* lock file guards, until one takes a lock for stale (_repository_lock).
THEOREM LockExcludesOthers == Repo!Spec => []LockExcludes
<1>1. RepoInv => LockExcludes
  <2> SUFFICES ASSUME Holding, ~stolen, NEW c \in Commands, NEW d \in Commands,
                      repoPc[c] \in Block, repoPc[d] \in Block
               PROVE  c = d
    BY DEF RepoInv, LockExcludes, Repo!LockExcludes, Block
  <2> QED
    BY DEF Holding
<1> QED
  BY <1>1, RepoInvariant, PTL

\* The files a command goes on to use are at least as new as its source was when
\* it started, stolen locks, kills and refreshes included (checkout_repo).
THEOREM ReadsAreFresh == Repo!Spec => []FreshRead
<1>1. RepoInv => FreshRead
  BY DEF RepoInv, UpToDate, FreshRead, Repo!FreshRead
<1> QED
  BY <1>1, RepoInvariant, PTL

\* A refresh or a seed that answers has brought the cache at least to the head it
\* reports of the mirror, from a URL as from a path (refresh_repo, seed_repo).
THEOREM RefreshesReachTheCache == Repo!Spec => RefreshBringsCacheUp
<1>1. RepoInv /\ [Repo!Next]_Repo!vars =>
        [\A c \in Commands :
           (repoPc[c] = "refresh_pull" /\ repoPc'[c] = "idle" /\ repoUsed'.kills = repoUsed.kills)
           => cache' >= repoCmd[c].seen]_Repo!vars
  <2> SUFFICES ASSUME RepoInv, Repo!Next, NEW c \in Commands, repoPc[c] = "refresh_pull",
                      repoPc'[c] = "idle", repoUsed'.kills = repoUsed.kills
               PROVE  cache' >= repoCmd[c].seen
    OBVIOUS
  <2> USE DEF RepoInv
  <2>1. ASSUME NEW d \in Commands, Repo!Work(d) PROVE cache' >= repoCmd[c].seen
    <3>1. d = c
      BY <2>1, RepoWorkLocal DEF RepoLocal
    <3>2. Repo!RefreshPull(c)
      BY <2>1, <3>1
         DEF Repo!Work, Repo!TakeLock, Repo!ReadAge, Repo!StealLock, Repo!Release,
             Repo!Inside, Repo!Clone, Repo!Pull, Repo!ReadHead, Repo!ReadFiles,
             Repo!RefreshMirror, Repo!SeedMirror, Repo!RefreshCache
    <3>3. /\ repoCmd[c].seen \in Repo!Commits /\ Repo!Source \in Repo!Commits
          /\ Repo!Source >= repoCmd[c].seen
      BY DEF Reachable
    <3>4. cache' = Repo!Pulled(cache, Repo!Source)
      BY <3>2 DEF Repo!RefreshPull
    <3>5. cache \in Int
      BY GatewayAssumption DEF RepoTypes, Repo!CacheTypeOK, Repo!Commits, Repo!None, Repo!Broken
    <3> QED
      BY <3>3, <3>4, <3>5, GatewayAssumption DEF Repo!Pulled, Repo!Commits
  <2>2. ASSUME NEW d \in Commands, Repo!Begin(d) PROVE FALSE
    BY <2>2, RepoBegin DEF Repo!Begin
  <2>3. ASSUME NEW d \in Commands, Repo!Kill(d) PROVE FALSE
    BY <2>3 DEF RepoTypes, Repo!Kill
  <2>4. CASE Repo!Push \/ Repo!Age
    BY <2>4 DEF Repo!Push, Repo!Age
  <2> QED
    BY <2>1, <2>2, <2>3, <2>4 DEF Repo!Next
<1> QED
  BY <1>1, RepoInvariant, PTL DEF Repo!Spec, RefreshBringsCacheUp, Repo!RefreshBringsCacheUp

-----------------------------------------------------------------------------
(* Commands of the cache end: the measure behind CacheCommandsEnd.         *)

Waiting == {"lock", "age", "steal"}

\* How far a step is from the end of its command; all of the wait is one.
RepoDistance(step) ==
    CASE step = "idle" -> 0
      [] step \in {"read", "refresh_pull"} -> 1
      [] step \in {"head", "cache"} -> 2
      [] step \in {"release", "mirror"} -> 3
      [] step \in {"pulling", "clone"} -> 4
      [] step = "inside" -> 5
      [] OTHER -> 6

\* What remains of the wait: three steps for every sleep that is left.
WaitLeft(step, left) ==
    3 * left + (CASE step = "lock" -> 2 [] step = "age" -> 1 [] OTHER -> 0)

\* A lock taken for stale is removed, and the command tries again.
Steals(c) ==
    /\ repoPc[c] = "steal" /\ repoPc'[c] = "lock"
    /\ lock # Repo!NoLock /\ lock' = Repo!NoLock

\* A command takes a step nearer to its end or to the end of its wait, unless it
\* has just removed a lock.
RepoMovesOn(c) ==
    \/ RepoDistance(repoPc'[c]) < RepoDistance(repoPc[c])
    \/ /\ repoPc[c] \in Waiting /\ repoPc'[c] \in Waiting
       /\ WaitLeft(repoPc[c], repoCmd[c].left) \in Nat
       /\ WaitLeft(repoPc'[c], repoCmd'[c].left) \in Nat
       /\ WaitLeft(repoPc'[c], repoCmd'[c].left) < WaitLeft(repoPc[c], repoCmd[c].left)
    \/ Steals(c)

LEMMA RepoWorkMovesOn ==
  ASSUME RepoTypes, NEW c \in Commands, Repo!Work(c)
  PROVE  RepoMovesOn(c)
<1>0. /\ repoPc \in [Commands -> Repo!Steps]
      /\ repoCmd \in [Commands -> Repo!Command]
      /\ repoCmd[c].left \in Nat
      /\ \A step : Repo!Goto(c, step) => repoPc'[c] = step
      /\ Repo!Raise(c) => repoPc'[c] = "release"
      /\ Repo!Return(c) => repoPc'[c] = "idle"
  <2>1. /\ repoPc \in [Commands -> Repo!Steps]
        /\ repoCmd \in [Commands -> Repo!Command]
    BY DEF RepoTypes, Repo!CacheTypeOK
  <2>2. repoCmd[c].left \in Nat
    BY <2>1, GatewayAssumption DEF Repo!Command
  <2> QED
    BY <2>1, <2>2, RepoGotoLocal, RepoRaiseLocal, RepoReturnLocal
<1>1. CASE \/ Repo!Inside(c) \/ Repo!Clone(c) \/ Repo!Pull(c) \/ Repo!Release(c)
           \/ Repo!ReadHead(c) \/ Repo!ReadFiles(c)
  BY <1>0, <1>1
     DEF Repo!Inside, Repo!StartPull, Repo!Clone, Repo!Pull, Repo!EndPull, Repo!Release,
         Repo!ReadHead, Repo!ReadFiles, RepoMovesOn, RepoDistance
<1>2. CASE \/ Repo!RefreshMirror(c) \/ Repo!SeedMirror(c) \/ Repo!RefreshCache(c)
           \/ Repo!RefreshPull(c)
  BY <1>0, <1>2
     DEF Repo!RefreshMirror, Repo!SeedMirror, Repo!RefreshCache, Repo!RefreshPull,
         Repo!StartPull, RepoMovesOn, RepoDistance
<1>3. CASE Repo!TakeLock(c)
  <2>1. CASE Repo!Goto(c, "inside")
    BY <1>0, <1>3, <2>1 DEF Repo!TakeLock, RepoMovesOn, RepoDistance
  <2>2. CASE Repo!Goto(c, "age") /\ UNCHANGED repoCmd
    <3>1. repoPc[c] = "lock" /\ repoPc'[c] = "age" /\ repoCmd'[c].left = repoCmd[c].left
      BY <1>0, <1>3, <2>2 DEF Repo!TakeLock
    <3>2. /\ WaitLeft("lock", repoCmd[c].left) = 3 * repoCmd[c].left + 2
          /\ WaitLeft("age", repoCmd[c].left) = 3 * repoCmd[c].left + 1
      BY DEF WaitLeft
    <3> QED
      BY <1>0, <3>1, <3>2 DEF RepoMovesOn, Waiting
  <2> QED
    BY <1>3, <2>1, <2>2 DEF Repo!TakeLock
<1>4. ASSUME Repo!Wait(c), repoPc[c] \in {"age", "steal"}
      PROVE  RepoMovesOn(c)
  <2>1. CASE Repo!Return(c)
    BY <1>0, <1>4, <2>1 DEF RepoMovesOn, RepoDistance
  <2>2. CASE /\ repoCmd[c].left > 0 /\ Repo!Goto(c, "lock")
             /\ repoCmd' = [repoCmd EXCEPT ![c].left = @ - 1]
    <3>1. repoPc'[c] = "lock" /\ repoCmd'[c].left = repoCmd[c].left - 1
      BY <1>0, <2>2 DEF Repo!Command
    <3> DEFINE n == repoCmd[c].left
    <3>2. n \in Nat \ {0}
      BY <1>0, <2>2
    <3>3. WaitLeft(repoPc[c], n) \in {3 * n, 3 * n + 1}
      BY <1>4, <3>2 DEF WaitLeft
    <3>4. WaitLeft("lock", n - 1) = 3 * (n - 1) + 2
      BY <3>2 DEF WaitLeft
    <3> QED
      BY <1>4, <3>1, <3>2, <3>3, <3>4 DEF RepoMovesOn, Waiting
  <2> QED
    BY <1>4, <2>1, <2>2 DEF Repo!Wait
<1>5. CASE Repo!ReadAge(c)
  <2>1. CASE Repo!Wait(c)
    BY <1>4, <1>5, <2>1 DEF Repo!ReadAge
  <2>2. CASE Repo!Goto(c, "steal") /\ UNCHANGED repoCmd
    <3>1. repoPc[c] = "age" /\ repoPc'[c] = "steal" /\ repoCmd'[c].left = repoCmd[c].left
      BY <1>0, <1>5, <2>2 DEF Repo!ReadAge
    <3>2. /\ WaitLeft("age", repoCmd[c].left) = 3 * repoCmd[c].left + 1
          /\ WaitLeft("steal", repoCmd[c].left) = 3 * repoCmd[c].left
      BY <1>0 DEF WaitLeft
    <3> QED
      BY <1>0, <3>1, <3>2 DEF RepoMovesOn, Waiting
  <2> QED
    BY <1>5, <2>1, <2>2 DEF Repo!ReadAge
<1>6. CASE Repo!StealLock(c)
  BY <1>0, <1>4, <1>6 DEF Repo!StealLock, RepoMovesOn, Steals
<1> QED
  BY <1>1, <1>2, <1>3, <1>5, <1>6 DEF Repo!Work

\* Every step of a command of the cache brings it nearer to its end or to the end
\* of its bounded wait for the lock; no other command takes it back, and a kill ends
\* it.  Only the removal of a lock that was there lets it try again for free, so
\* a command can outlast its deadline only as often as others take the lock anew
\* and keep it until it is stale (adapters.py).
THEOREM RepoCommandsMoveOn ==
  Repo!Spec => [][\A c \in Commands :
                     /\ Repo!Work(c) => RepoMovesOn(c)
                     /\ /\ repoPc[c] # "idle"
                        /\ <<repoPc[c], repoCmd[c]>>' # <<repoPc[c], repoCmd[c]>>
                        => RepoMovesOn(c)]_Repo!vars
<1> DEFINE OnlyOn ==
      \A c \in Commands :
          /\ Repo!Work(c) => RepoMovesOn(c)
          /\ /\ repoPc[c] # "idle"
             /\ <<repoPc[c], repoCmd[c]>>' # <<repoPc[c], repoCmd[c]>>
             => RepoMovesOn(c)
<1>1. ASSUME RepoTypes, Repo!Next, NEW c \in Commands, repoPc[c] # "idle",
             <<repoPc[c], repoCmd[c]>>' # <<repoPc[c], repoCmd[c]>>
      PROVE  RepoMovesOn(c)
  <2>1. repoPc[c] \in Repo!Steps
    BY <1>1 DEF RepoTypes, Repo!CacheTypeOK
  <2>2. CASE repoPc'[c] = "idle"
    BY <1>1, <2>1, <2>2 DEF RepoMovesOn, RepoDistance, Repo!Steps
  <2>3. ASSUME NEW d \in Commands, Repo!Work(d) PROVE RepoMovesOn(c)
    <3>1. d = c
      BY <1>1, <2>3, RepoWorkLocal DEF RepoLocal
    <3> QED
      BY <1>1, <2>3, <3>1, RepoWorkMovesOn
  <2>4. ASSUME NEW d \in Commands, Repo!Begin(d) PROVE FALSE
    <3>1. d # c
      BY <1>1, <2>4 DEF Repo!Begin
    <3> QED
      BY <1>1, <2>4, <3>1 DEF Repo!Begin, Repo!Goto, RepoTypes, Repo!CacheTypeOK
  <2>5. ASSUME NEW d \in Commands, Repo!Kill(d) PROVE RepoMovesOn(c)
    <3>1. d = c
      BY <1>1, <2>5, RepoReturnLocal DEF Repo!Kill
    <3> QED
      BY <1>1, <2>2, <2>5, <3>1, RepoReturnLocal DEF Repo!Kill
  <2>6. CASE Repo!Push \/ Repo!Age
    BY <1>1, <2>6 DEF Repo!Push, Repo!Age
  <2> QED
    BY <1>1, <2>3, <2>4, <2>5, <2>6 DEF Repo!Next
<1>2. RepoInv /\ [Repo!Next]_Repo!vars => [OnlyOn]_Repo!vars
  BY <1>1, RepoWorkMovesOn DEF RepoInv
<1> HIDE DEF OnlyOn
<1>3. Repo!Spec => [][OnlyOn]_Repo!vars
  BY <1>2, RepoInvariant, PTL DEF Repo!Spec
<1> QED
  BY <1>3 DEF OnlyOn

-----------------------------------------------------------------------------
(* The bootstrap: what is on the host by the time the script is at a step. *)

HostRun == [ref : Nat, since : [Boot!Repos -> Nat], cloned : BOOLEAN,
            synced : 0..4, found : BOOLEAN]

HostTypes ==
    /\ Boot!HostTypeOK
    /\ run \in HostRun
    /\ host.main <= hostOrigin["gateway"]
    /\ \A r \in Boot!Repos : run.since[r] <= hostOrigin[r]
    /\ run.ref \in 1..hostOrigin["gateway"] \/ run.ref = Boot!Main

\* The gateway's checkout is at the commit asked for.
AtCommit ==
    IF run.ref # Boot!Main THEN host.head["gateway"] = run.ref
    ELSE run.cloned => host.head["gateway"] >= run.since["gateway"]

Current(r) == host.head[r] >= run.since[r]

\* What the steps the script has been through have left.
Arrived ==
    /\ bootPc \in {"detect", "probe", "prepare"} => run.synced = 0
    /\ bootPc \in {"sync", "inspect", "deploy", "health", "wrapper", "ok"} => host.roots
    /\ bootPc = "sync" =>
          /\ run.synced > 0 => AtCommit
          /\ \A n \in 1..3 : n < run.synced => Current(Boot!Order[n])
    /\ bootPc \in {"inspect", "deploy", "health", "wrapper", "ok"} =>
          AtCommit /\ \A n \in 1..3 : Current(Boot!Order[n])
    /\ bootPc \in {"health", "wrapper", "ok"} => host.gateway = "up" /\ host.cache = "git"
    /\ bootPc = "ok" => host.wrapper

BootInv == HostTypes /\ Arrived

LEMMA ReposListed ==
  /\ Boot!Repos = {"gateway"} \cup {Boot!Order[n] : n \in 1..3}
  /\ \A n \in 1..3 : Boot!Order[n] \in Boot!Repos \ {"gateway"}
  /\ \A m, n \in 1..3 : Boot!Order[m] = Boot!Order[n] => m = n
<1>1. Boot!Order[1] = "services" /\ Boot!Order[2] = "runtime" /\ Boot!Order[3] = "skills"
  BY DEF Boot!Order
<1>2. 1..3 = {1, 2, 3}
  OBVIOUS
<1> QED
  BY <1>1, <1>2 DEF Boot!Repos

\* A state of the host the program can have brought about.
Fits(h) ==
    /\ h \in Boot!Host
    /\ \A r \in Boot!Repos : h.head[r] <= hostOrigin[r]
    /\ (h.main = Boot!None) <=> (h.head["gateway"] = Boot!None)
    /\ h.main <= hostOrigin["gateway"]

LEMMA OriginType ==
  ASSUME HostTypes
  PROVE  /\ Fits(host) /\ "gateway" \in Boot!Repos
         /\ \A r \in Boot!Repos : hostOrigin[r] \in Boot!Commits /\ hostOrigin[r] \in Nat \ {0}
         /\ 1..hostOrigin["gateway"] \subseteq Boot!Commits
BY GatewayAssumption
   DEF HostTypes, Boot!HostTypeOK, Fits, Boot!Repos, Boot!Commits

LEMMA SmallFits ==
  ASSUME HostTypes, NEW gateway \in {"none", "down", "up"}, NEW kept \in {"none", "git", "invalid"}
  PROVE  /\ Fits([host EXCEPT !.roots = TRUE]) /\ Fits([host EXCEPT !.wrapper = TRUE])
         /\ Fits([host EXCEPT !.cache = kept])
         /\ Fits([host EXCEPT !.cache = kept, !.gateway = gateway])
BY OriginType DEF Fits, Boot!Host

LEMMA UpdatedFits ==
  ASSUME HostTypes, NEW r \in Boot!Repos \ {"gateway"}
  PROVE  /\ Fits(Boot!Updated(r)) /\ Boot!Updated(r).roots = host.roots
         /\ Boot!Updated(r).head = [host.head EXCEPT ![r] = hostOrigin[r]]
<1>1. [host.head EXCEPT ![r] = hostOrigin[r]] \in [Boot!Repos -> Boot!Commits \cup {Boot!None}]
  BY OriginType DEF Fits, Boot!Host
<1>2. Boot!Updated(r) = [host EXCEPT !.head = [host.head EXCEPT ![r] = hostOrigin[r]]]
  BY OriginType DEF Fits, Boot!Host, Boot!Updated
<1>3. Boot!Updated(r) \in Boot!Host /\ Boot!Updated(r).roots = host.roots
      /\ Boot!Updated(r).head = [host.head EXCEPT ![r] = hostOrigin[r]]
      /\ Boot!Updated(r).main = host.main
  BY <1>1, <1>2, OriginType DEF Fits, Boot!Host
<1>4. \A q \in Boot!Repos : Boot!Updated(r).head[q] <= hostOrigin[q]
  BY <1>3, OriginType DEF Fits, Boot!Host
<1>5. Boot!Updated(r).head["gateway"] = host.head["gateway"]
  BY <1>3, OriginType DEF Fits, Boot!Host
<1> QED
  BY <1>3, <1>4, <1>5, OriginType DEF Fits

LEMMA GatewayFits ==
  ASSUME HostTypes, NEW main \in 1..hostOrigin["gateway"], NEW head \in 1..hostOrigin["gateway"]
  PROVE  LET h == [host EXCEPT !.main = main, !.head["gateway"] = head]
         IN Fits(h) /\ h.roots = host.roots /\ h.head["gateway"] = head
<1> DEFINE h == [host EXCEPT !.main = main, !.head["gateway"] = head]
           heads == [host.head EXCEPT !["gateway"] = head]
<1>1. heads \in [Boot!Repos -> Boot!Commits \cup {Boot!None}]
  BY OriginType DEF Fits, Boot!Host
<1>2. h = [host EXCEPT !.main = main, !.head = heads]
  BY OriginType DEF Fits, Boot!Host
<1>3. main \in Boot!Commits
  BY OriginType
<1> HIDE DEF heads, h
<1>4. h \in Boot!Host /\ h.roots = host.roots /\ h.head = heads /\ h.main = main
  BY <1>1, <1>2, <1>3, OriginType DEF Fits, Boot!Host
<1>5. heads["gateway"] = head /\ \A q \in Boot!Repos \ {"gateway"} : heads[q] = host.head[q]
  BY OriginType DEF Fits, Boot!Host, heads
<1>6. \A q \in Boot!Repos : heads[q] <= hostOrigin[q]
  BY <1>5, OriginType DEF Fits
<1>7. main # Boot!None /\ head # Boot!None
  BY DEF Boot!None
<1>8. main <= hostOrigin["gateway"]
  BY OriginType
<1> QED
  BY <1>4, <1>5, <1>6, <1>7, <1>8 DEF Fits, h

LEMMA AtRefFits ==
  ASSUME HostTypes
  PROVE  /\ Fits(Boot!AtRef) /\ Boot!AtRef.roots = host.roots
         /\ run.ref # Boot!Main => Boot!AtRef.head["gateway"] = run.ref
         /\ run.ref = Boot!Main /\ host.head["gateway"] = Boot!None =>
               Boot!AtRef.head["gateway"] = hostOrigin["gateway"]
         /\ Fits(Boot!OnlyCloned)
<1> DEFINE main == IF host.head["gateway"] = Boot!None THEN hostOrigin["gateway"] ELSE host.main
           head == IF run.ref = Boot!Main THEN main ELSE run.ref
<1>1. hostOrigin["gateway"] \in 1..hostOrigin["gateway"]
  BY OriginType
<1>2. main \in 1..hostOrigin["gateway"]
  <2>1. CASE host.head["gateway"] = Boot!None
    BY <1>1, <2>1
  <2>2. CASE host.head["gateway"] # Boot!None
    <3>1. host.main \in Boot!Commits
      BY <2>2, OriginType DEF Fits, Boot!Host
    <3> QED
      BY <2>2, <3>1, OriginType, GatewayAssumption DEF Fits, Boot!Commits
  <2> QED
    BY <2>1, <2>2
<1>3. head \in 1..hostOrigin["gateway"]
  BY <1>2 DEF HostTypes
<1>4. Boot!AtRef = [host EXCEPT !.main = main, !.head["gateway"] = head]
  BY DEF Boot!AtRef
<1>5. Boot!OnlyCloned = [host EXCEPT !.main = hostOrigin["gateway"],
                                    !.head["gateway"] = hostOrigin["gateway"]]
  BY DEF Boot!OnlyCloned
<1>6. Fits(Boot!OnlyCloned)
  BY <1>1, <1>5, GatewayFits
<1>7. Fits(Boot!AtRef) /\ Boot!AtRef.roots = host.roots /\ Boot!AtRef.head["gateway"] = head
  <2> HIDE DEF main, head
  <2> QED
    BY <1>2, <1>3, <1>4, GatewayFits
<1> QED
  BY <1>6, <1>7

\* The next checkout in the order, for a checkout that has been brought up to date.
LEMMA SyncedNext ==
  ASSUME HostTypes
  PROVE  run.synced \in 1..3 =>
            /\ Boot!Order[run.synced] \in Boot!Repos \ {"gateway"}
            /\ run.synced + 1 \in 0..4
BY ReposListed DEF HostTypes, HostRun

LEMMA CallFits ==
  ASSUME HostTypes, NEW done, Fits(done), NEW step \in Boot!Steps, Boot!Call(done, step)
  PROVE  Fits(host') /\ bootPc' \in Boot!Steps
BY OriginType DEF Boot!Call, Boot!Steps

LEMMA BootWorkFits ==
  ASSUME HostTypes, Boot!Work
  PROVE  /\ UNCHANGED hostOrigin /\ Fits(host') /\ bootPc' \in Boot!Steps
         /\ run' \in HostRun /\ run'.ref = run.ref /\ run'.since = run.since
<1>1. UNCHANGED hostOrigin
  BY DEF Boot!Work, Boot!Detect, Boot!Probe, Boot!Prepare, Boot!SyncGateway, Boot!Sync,
         Boot!Inspect, Boot!Deploy, Boot!Health, Boot!InstallWrapper
<1>2. run' \in HostRun /\ run'.ref = run.ref /\ run'.since = run.since
  <2>1. CASE Boot!SyncGateway
    <3>1. PICK cloned \in BOOLEAN : run' = [run EXCEPT !.synced = 1, !.cloned = cloned]
      BY <2>1 DEF Boot!SyncGateway
    <3>2. run' = [ref |-> run.ref, since |-> run.since, cloned |-> cloned,
                  synced |-> 1, found |-> run.found]
      BY <3>1 DEF HostTypes, HostRun
    <3>3. 1 \in 0..4
      OBVIOUS
    <3> QED
      BY <3>2, <3>3 DEF HostTypes, HostRun
  <2>2. CASE Boot!Sync
    BY <2>2, SyncedNext DEF HostTypes, HostRun, Boot!Sync
  <2>3. CASE Boot!Inspect
    BY <2>3 DEF HostTypes, HostRun, Boot!Inspect
  <2>4. CASE UNCHANGED run
    BY <2>4 DEF HostTypes
  <2> QED
    BY <2>1, <2>2, <2>3, <2>4
       DEF Boot!Work, Boot!Detect, Boot!Probe, Boot!Prepare, Boot!Deploy, Boot!Health,
           Boot!InstallWrapper
<1>3. Fits(host') /\ bootPc' \in Boot!Steps
  <2>1. CASE Boot!Detect \/ Boot!Probe \/ Boot!Health
    BY <2>1, OriginType, CallFits DEF Boot!Detect, Boot!Probe, Boot!Health, Boot!Steps
  <2>2. CASE Boot!Prepare
    BY <2>2, SmallFits, CallFits DEF Boot!Prepare, Boot!Steps
  <2>3. CASE Boot!SyncGateway
    BY <2>3, AtRefFits, CallFits DEF Boot!SyncGateway, Boot!Steps
  <2>4. CASE Boot!Sync
    <3>1. Fits(Boot!Updated(Boot!Order[run.synced]))
      BY <2>4, SyncedNext, UpdatedFits DEF Boot!Sync
    <3> QED
      BY <2>4, <3>1, CallFits DEF Boot!Sync, Boot!Steps
  <2>5. CASE Boot!Inspect
    BY <2>5, OriginType DEF Boot!Inspect, Boot!Steps
  <2>6. CASE Boot!Deploy
    <3> DEFINE kept == IF run.found THEN Boot!Mounted ELSE Boot!Cloned
    <3>1. kept \in {"none", "git", "invalid"}
      BY OriginType DEF Fits, Boot!Host, Boot!Mounted, Boot!Cloned
    <3>2. /\ \/ UNCHANGED host \/ host' = [host EXCEPT !.cache = kept]
             \/ \E left \in {"none", "down", "up"} :
                   host' = [host EXCEPT !.cache = kept, !.gateway = left]
          /\ bootPc' \in {"health", "idle"}
      BY <2>6 DEF Boot!Deploy
    <3> HIDE DEF kept
    <3> QED
      BY <3>1, <3>2, OriginType, SmallFits DEF Boot!Steps
  <2>7. CASE Boot!InstallWrapper
    BY <2>7, SmallFits, CallFits DEF Boot!InstallWrapper, Boot!Steps
  <2> QED
    BY <2>1, <2>2, <2>3, <2>4, <2>5, <2>6, <2>7 DEF Boot!Work
<1> QED
  BY <1>1, <1>2, <1>3

LEMMA BootTypesKept ==
  ASSUME HostTypes, [Boot!Next]_Boot!vars
  PROVE  HostTypes'
<1>1. CASE Boot!Work
  BY <1>1, BootWorkFits DEF HostTypes, Boot!HostTypeOK, Fits, HostRun
<1>2. CASE Boot!Begin
  <2>1. PICK ref \in (1..hostOrigin["gateway"]) \cup {Boot!Main} :
           run' = [Boot!NoRun EXCEPT !.ref = ref, !.since = hostOrigin]
    BY <1>2 DEF Boot!Begin
  <2>2. hostOrigin \in [Boot!Repos -> Nat] /\ ref \in Nat
    BY <2>1, OriginType DEF HostTypes, Boot!HostTypeOK, Boot!Main
  <2>3. run' = [ref |-> ref, since |-> hostOrigin, cloned |-> FALSE, synced |-> 0,
                found |-> FALSE]
    BY <2>1 DEF Boot!NoRun
  <2>4. run' \in HostRun
    BY <2>2, <2>3 DEF HostRun
  <2>5. \A r \in Boot!Repos : hostOrigin[r] <= hostOrigin[r]
    BY OriginType
  <2> QED
    <3>1. run'.since = hostOrigin /\ run'.ref = ref /\ run'.synced = 0
      BY <2>3
    <3>2. UNCHANGED <<hostOrigin, host>> /\ bootPc' \in Boot!Steps
      BY <1>2 DEF Boot!Begin, Boot!Steps
    <3> QED
      BY <2>1, <2>4, <2>5, <3>1, <3>2 DEF HostTypes, Boot!HostTypeOK
<1>3. CASE Boot!Push
  <2>1. PICK r \in Boot!Repos :
           hostOrigin[r] < MaxRevision /\ hostOrigin' = [hostOrigin EXCEPT ![r] = @ + 1]
    BY <1>3 DEF Boot!Push
  <2>2. hostOrigin' \in [Boot!Repos -> Boot!Commits]
    BY <2>1, OriginType, GatewayAssumption DEF HostTypes, Boot!HostTypeOK, Boot!Commits
  <2>3. \A q \in Boot!Repos : hostOrigin'[q] >= hostOrigin[q] /\ hostOrigin'[q] \in Nat
    BY <2>1, <2>2, OriginType DEF HostTypes, Boot!HostTypeOK
  <2>4. \A q \in Boot!Repos : host.head[q] <= hostOrigin'[q]
    BY <2>3, OriginType DEF Fits, Boot!Host, Boot!Commits, Boot!None
  <2>5. \A q \in Boot!Repos : run.since[q] <= hostOrigin'[q]
    BY <2>3, OriginType DEF HostTypes, HostRun
  <2>6. host.main <= hostOrigin'["gateway"]
    BY <2>3, OriginType DEF Fits, Boot!Host, Boot!Commits, Boot!None
  <2>7. run.ref \in 1..(hostOrigin'["gateway"]) \/ run.ref = Boot!Main
    BY <2>3, OriginType DEF HostTypes
  <2> QED
    BY <1>3, <2>2, <2>4, <2>5, <2>6, <2>7 DEF HostTypes, Boot!HostTypeOK, Boot!Push
<1>4. CASE UNCHANGED Boot!vars
  BY <1>4 DEF HostTypes, Boot!HostTypeOK, Boot!vars
<1> QED
  BY <1>1, <1>2, <1>3, <1>4 DEF Boot!Next

\* What the checkouts are like survives a step that leaves them alone.
LEMMA SameCheckouts ==
  ASSUME HostTypes, host'.head = host.head, run'.ref = run.ref, run'.since = run.since,
         run'.cloned = run.cloned
  PROVE  /\ AtCommit => AtCommit'
         /\ \A n \in 1..3 : Current(Boot!Order[n]) => Current(Boot!Order[n])'
BY DEF AtCommit, Current

\* A checkout brought up to date is current, and the others are as they were.
LEMMA SyncArrives ==
  ASSUME HostTypes, Arrived, Boot!Sync
  PROVE  Arrived'
<1>1. run.synced \in 1..3 /\ bootPc = "sync"
  BY DEF Boot!Sync
<1> DEFINE r == Boot!Order[run.synced]
           step == IF run.synced = 3 THEN "inspect" ELSE "sync"
<1>2. r \in Boot!Repos \ {"gateway"}
  BY <1>1, SyncedNext
<1>3. run' = [run EXCEPT !.synced = run.synced + 1]
  BY DEF Boot!Sync
<1>4. /\ run'.synced = run.synced + 1 /\ run'.ref = run.ref /\ run'.since = run.since
      /\ run'.cloned = run.cloned
  BY <1>3 DEF HostTypes, HostRun
<1>5. CASE bootPc' = "idle"
  BY <1>5 DEF Arrived
<1>6. CASE host' = Boot!Updated(r) /\ bootPc' = step
  <2>1. /\ host'.roots = host.roots /\ host'.head = [host.head EXCEPT ![r] = hostOrigin[r]]
    BY <1>2, <1>6, UpdatedFits
  <2>2. /\ host'.head[r] = hostOrigin[r]
        /\ \A q \in Boot!Repos \ {r} : host'.head[q] = host.head[q]
    BY <1>2, <2>1, OriginType DEF Fits, Boot!Host
  <2>3. host.roots /\ AtCommit
        /\ \A n \in 1..3 : n < run.synced => Current(Boot!Order[n])
    BY <1>1 DEF Arrived
  <2>4. AtCommit'
    <3>1. host'.head["gateway"] = host.head["gateway"]
      BY <1>2, <2>2, OriginType
    <3> QED
      BY <1>4, <2>3, <3>1 DEF AtCommit
  <2>5. \A n \in 1..3 : n < run.synced + 1 => Current(Boot!Order[n])'
    <3> SUFFICES ASSUME NEW n \in 1..3, n < run.synced + 1 PROVE Current(Boot!Order[n])'
      OBVIOUS
    <3>1. CASE n = run.synced
      BY <1>2, <1>4, <2>2, <3>1, OriginType DEF HostTypes, Current
    <3>2. CASE n # run.synced
      <4>1. n < run.synced /\ Boot!Order[n] \in Boot!Repos \ {r}
        BY <1>1, <3>2, ReposListed
      <4> QED
        BY <1>4, <2>2, <2>3, <4>1 DEF Current
    <3> QED
      BY <3>1, <3>2
  <2>6. bootPc' = "inspect" => \A n \in 1..3 : n < run.synced + 1
    BY <1>1, <1>6
  <2>7. bootPc' \in {"sync", "inspect"} /\ host'.roots
    BY <1>6, <2>1, <2>3
  <2>8. (\A n \in 1..3 : n < run'.synced => Current(Boot!Order[n])')
        /\ (bootPc' = "inspect" => \A n \in 1..3 : Current(Boot!Order[n])')
    BY <1>4, <2>5, <2>6
  <2> QED
    BY <2>4, <2>7, <2>8 DEF Arrived
<1>7. bootPc' = "idle" \/ (host' = Boot!Updated(r) /\ bootPc' = step)
  BY DEF Boot!Sync, Boot!Call
<1> QED
  BY <1>5, <1>6, <1>7

LEMMA SyncGatewayArrives ==
  ASSUME HostTypes, Arrived, Boot!SyncGateway
  PROVE  Arrived'
<1>1. PICK cloned \in BOOLEAN :
         /\ cloned = (host.head["gateway"] = Boot!None)
         /\ run' = [run EXCEPT !.synced = 1, !.cloned = cloned]
  BY DEF Boot!SyncGateway
<1>2. /\ run'.synced = 1 /\ run'.cloned = cloned /\ run'.ref = run.ref
      /\ run'.since = run.since
  BY <1>1 DEF HostTypes, HostRun
<1>3. CASE bootPc' = "idle"
  BY <1>3 DEF Arrived
<1>4. CASE bootPc' = "sync" /\ host' = Boot!AtRef
  <2>1. host'.roots
    BY <1>4, AtRefFits DEF Arrived, Boot!SyncGateway
  <2>2. AtCommit'
    <3>1. CASE run.ref # Boot!Main
      BY <1>2, <1>4, <3>1, AtRefFits DEF AtCommit
    <3>2. CASE run.ref = Boot!Main
      <4>1. cloned => host'.head["gateway"] = hostOrigin["gateway"]
        BY <1>1, <1>4, <3>2, AtRefFits
      <4>2. hostOrigin["gateway"] >= run.since["gateway"]
        BY OriginType DEF HostTypes, HostRun
      <4> QED
        BY <1>2, <3>2, <4>1, <4>2 DEF AtCommit
    <3> QED
      BY <3>1, <3>2
  <2>3. \A n \in 1..3 : ~(n < run'.synced)
    BY <1>2
  <2> QED
    BY <1>4, <2>1, <2>2, <2>3 DEF Arrived
<1>5. bootPc' = "idle" \/ (bootPc' = "sync" /\ host' = Boot!AtRef)
  BY DEF Boot!SyncGateway, Boot!Call
<1> QED
  BY <1>3, <1>4, <1>5

LEMMA DeployArrives ==
  ASSUME HostTypes, Arrived, Boot!Deploy
  PROVE  Arrived'
<1>1. CASE bootPc' = "idle"
  BY <1>1 DEF Arrived
<1>2. CASE bootPc' # "idle"
  <2> DEFINE kept == IF run.found THEN Boot!Mounted ELSE Boot!Cloned
  <2>1. kept \in {"none", "git", "invalid"} /\ kept # "none"
    BY OriginType DEF Fits, Boot!Host, Boot!Mounted, Boot!Cloned
  <2>2. /\ kept # "invalid" /\ host' = [host EXCEPT !.cache = kept, !.gateway = "up"]
        /\ bootPc = "deploy" /\ bootPc' = "health" /\ UNCHANGED run
    BY <1>2 DEF Boot!Deploy
  <2> HIDE DEF kept
  <2>3. /\ host'.cache = "git" /\ host'.gateway = "up" /\ host'.roots = host.roots
        /\ host'.head = host.head
    BY <2>1, <2>2, OriginType DEF Fits, Boot!Host
  <2> QED
    BY <2>2, <2>3, SameCheckouts DEF Arrived
<1> QED
  BY <1>1, <1>2

LEMMA ArrivedKept ==
  ASSUME HostTypes, Arrived, [Boot!Next]_Boot!vars
  PROVE  Arrived'
<1>1. CASE Boot!Detect \/ Boot!Probe
  BY <1>1 DEF Arrived, Boot!Detect, Boot!Probe, Boot!Call
<1>2. CASE Boot!Prepare
  <2>1. CASE bootPc' = "idle"
    BY <2>1 DEF Arrived
  <2>2. CASE /\ bootPc = "prepare" /\ bootPc' = "sync" /\ UNCHANGED run
             /\ host' = [host EXCEPT !.roots = TRUE]
    <3>1. host'.roots
      BY <2>2, OriginType DEF Fits, Boot!Host
    <3>2. run'.synced = 0
      BY <2>2 DEF Arrived
    <3>3. \A n \in 1..3 : ~(n < run'.synced)
      BY <3>2
    <3> QED
      BY <2>2, <3>1, <3>2, <3>3 DEF Arrived
  <2> QED
    BY <1>2, <2>1, <2>2 DEF Boot!Prepare, Boot!Call
<1>3. CASE Boot!Inspect
  <2>1. PICK found \in BOOLEAN : run' = [run EXCEPT !.found = found]
    BY <1>3 DEF Boot!Inspect
  <2>2. /\ run'.ref = run.ref /\ run'.since = run.since /\ run'.cloned = run.cloned
    BY <2>1 DEF HostTypes, HostRun
  <2> QED
    BY <1>3, <2>2, SameCheckouts DEF Arrived, Boot!Inspect
<1>4. CASE Boot!Health
  <2>1. CASE bootPc' = "idle"
    BY <2>1 DEF Arrived
  <2>2. CASE bootPc = "health" /\ bootPc' = "wrapper" /\ UNCHANGED <<host, run>>
    BY <2>2, SameCheckouts DEF Arrived
  <2> QED
    BY <1>4, <2>1, <2>2 DEF Boot!Health, Boot!Call
<1>5. CASE Boot!InstallWrapper
  <2>1. CASE bootPc' = "idle"
    BY <2>1 DEF Arrived
  <2>2. CASE /\ bootPc = "wrapper" /\ bootPc' = "ok" /\ UNCHANGED run
             /\ host' = [host EXCEPT !.wrapper = TRUE]
    <3>1. /\ host'.wrapper /\ host'.roots = host.roots /\ host'.head = host.head
          /\ host'.cache = host.cache /\ host'.gateway = host.gateway
      BY <2>2, OriginType DEF Fits, Boot!Host
    <3> QED
      BY <2>2, <3>1, SameCheckouts DEF Arrived
  <2> QED
    BY <1>5, <2>1, <2>2 DEF Boot!InstallWrapper, Boot!Call
<1>6. CASE Boot!Begin
  BY <1>6 DEF Arrived, Boot!Begin, Boot!NoRun
<1>7. CASE Boot!Push \/ UNCHANGED Boot!vars
  BY <1>7, SameCheckouts DEF Arrived, Boot!Push, Boot!vars
<1> QED
  BY <1>1, <1>2, <1>3, <1>4, <1>5, <1>6, <1>7, SyncArrives, SyncGatewayArrives, DeployArrives
     DEF Boot!Next, Boot!Work

LEMMA InitBoot == Boot!Init => BootInv
<1> SUFFICES ASSUME Boot!Init PROVE BootInv
  OBVIOUS
<1>1. PICK gateway \in {"none", "up"}, kept \in {"none", "git"} :
         host = [roots |-> FALSE, head |-> [r \in Boot!Repos |-> Boot!None],
                 main |-> Boot!None, gateway |-> gateway, cache |-> kept,
                 wrapper |-> FALSE]
  BY DEF Boot!Init
<1>2. host \in Boot!Host
  BY <1>1 DEF Boot!Host
<1>3. /\ hostOrigin = [r \in Boot!Repos |-> 1] /\ hostOrigin \in [Boot!Repos -> Boot!Commits]
      /\ "gateway" \in Boot!Repos
  BY GatewayAssumption DEF Boot!Init, Boot!Commits, Boot!Repos
<1>4. run = Boot!NoRun /\ run \in HostRun /\ bootPc = "idle"
  BY DEF Boot!Init, Boot!NoRun, HostRun
<1>5. \A r \in Boot!Repos : host.head[r] = 0 /\ hostOrigin[r] = 1 /\ run.since[r] = 1
  BY <1>1, <1>3, <1>4 DEF Boot!NoRun, Boot!None
<1>6. run.ref = 1 /\ run.synced = 0 /\ host.main = 0
  BY <1>1, <1>4 DEF Boot!NoRun, Boot!None
<1>7. run.ref \in 1..hostOrigin["gateway"]
  BY <1>3, <1>6
<1>8. HostTypes
  BY <1>2, <1>3, <1>4, <1>5, <1>6, <1>7 DEF HostTypes, Boot!HostTypeOK, Boot!None, Boot!Steps
<1> QED
  BY <1>4, <1>8 DEF BootInv, Arrived

\* What the steps of a bootstrap left is there at each later step, whatever
\* was pushed and however earlier runs ended.
THEOREM BootstrapInvariant == Boot!Spec => []BootInv
<1>1. BootInv /\ [Boot!Next]_Boot!vars => BootInv'
  BY BootTypesKept, ArrivedKept DEF BootInv
<1> QED
  BY <1>1, InitBoot, PTL DEF Boot!Spec

\* A bootstrap that answers ok has the gateway up, its command installed and the
\* checkouts it promises, after any number of runs that failed half-way
\* (bootstrap_remote_gateway.py, main).
THEOREM OkIsReady == Boot!Spec => []OkMeansReady
<1>1. BootInv => OkMeansReady
  <2> SUFFICES ASSUME BootInv, bootPc = "ok" PROVE OkMeansReady
    BY DEF OkMeansReady, Boot!OkMeansReady
  <2>1. AtCommit /\ \A r \in Boot!Repos \ {"gateway"} : Current(r)
    BY ReposListed DEF BootInv, Arrived
  <2> QED
    BY <2>1 DEF BootInv, Arrived, AtCommit, Current, OkMeansReady, Boot!OkMeansReady
<1> QED
  BY <1>1, BootstrapInvariant, PTL

-----------------------------------------------------------------------------
(* Skill deploys: one at a time, what a confirmed deploy left stays.       *)

SkillCommand == [skill : Skill!Skills \cup {"none"}, seen : Skill!Config,
                 plan : Seq({"service", "sync", "reload", "restart"})]

SkillTypes == Skill!SkillTypeOK /\ skillCmd \in [Commands -> SkillCommand]

LEMMA SkillGotoLocal ==
  ASSUME SkillTypes, NEW c \in Commands, NEW step \in Skill!Steps, Skill!Goto(c, step)
  PROVE  /\ skillPc'[c] = step /\ \A d \in Commands \ {c} : skillPc'[d] = skillPc[d]
         /\ skillPc' \in [Commands -> Skill!Steps]
BY DEF SkillTypes, Skill!SkillTypeOK, Skill!Goto

LEMMA SkillNoCommand ==
  /\ Skill!NoCommand \in SkillCommand /\ Skill!NoCommand.seen.valid
  /\ Skill!NoConfig \in Skill!Config /\ Skill!NoConfig.valid = FALSE
<1>1. Skill!NoConfig \in Skill!Config /\ Skill!NoConfig.valid = FALSE
  BY DEF Skill!NoConfig, Skill!Config
<1>2. ASSUME NEW cfg \in Skill!Config
      PROVE  [cfg EXCEPT !.valid = TRUE] \in Skill!Config /\ [cfg EXCEPT !.valid = TRUE].valid
  BY <1>2 DEF Skill!Config
<1>3. Skill!EmptyConfig \in Skill!Config /\ Skill!EmptyConfig.valid
  BY <1>1, <1>2 DEF Skill!EmptyConfig
<1>4. <<>> \in Seq({"service", "sync", "reload", "restart"})
  OBVIOUS
<1> QED
  BY <1>1, <1>3, <1>4 DEF Skill!NoCommand, SkillCommand

\* The commands after a step of one of them.
SkillLocal(c) ==
    /\ \A d \in Commands \ {c} : skillPc'[d] = skillPc[d] /\ skillCmd'[d] = skillCmd[d]
    /\ skillPc' \in [Commands -> Skill!Steps]
    /\ skillCmd' \in [Commands -> SkillCommand]
    /\ skillCmd'[c].seen.valid

LEMMA SkillReturnLocal ==
  ASSUME SkillTypes, NEW c \in Commands, Skill!Return(c)
  PROVE  SkillLocal(c) /\ skillPc'[c] = "idle"
<1>1. "idle" \in Skill!Steps
  BY DEF Skill!Steps
<1> QED
  BY <1>1, SkillGotoLocal, SkillNoCommand DEF SkillTypes, Skill!Return, SkillLocal

\* A command moves on: with the locals it has, with a configuration it has
\* read, or with a shorter plan.
LEMMA SkillMoves ==
  ASSUME SkillTypes, NEW c \in Commands, NEW step \in Skill!Steps,
         skillPc' = [skillPc EXCEPT ![c] = step]
  PROVE  /\ skillPc'[c] = step
         /\ UNCHANGED skillCmd => SkillLocal(c) /\ skillCmd'[c] = skillCmd[c]
         /\ \A cfg \in Skill!Config :
               cfg.valid /\ skillCmd' = [skillCmd EXCEPT ![c].seen = cfg]
               => /\ SkillLocal(c) /\ skillCmd'[c].seen = cfg
                  /\ skillCmd'[c].skill = skillCmd[c].skill
<1>1. /\ skillPc'[c] = step /\ \A d \in Commands \ {c} : skillPc'[d] = skillPc[d]
      /\ skillPc' \in [Commands -> Skill!Steps]
  BY DEF SkillTypes, Skill!SkillTypeOK
<1>2. UNCHANGED skillCmd => SkillLocal(c) /\ skillCmd'[c] = skillCmd[c]
  BY <1>1 DEF SkillTypes, Skill!SkillTypeOK, SkillLocal
<1>3. ASSUME NEW cfg \in Skill!Config, cfg.valid, skillCmd' = [skillCmd EXCEPT ![c].seen = cfg]
      PROVE  /\ SkillLocal(c) /\ skillCmd'[c].seen = cfg
             /\ skillCmd'[c].skill = skillCmd[c].skill
  <2>1. skillCmd'[c] = [skillCmd[c] EXCEPT !.seen = cfg] /\ skillCmd[c] \in SkillCommand
        /\ \A d \in Commands \ {c} : skillCmd'[d] = skillCmd[d]
    BY <1>3 DEF SkillTypes
  <2>2. skillCmd'[c] \in SkillCommand /\ skillCmd'[c].seen = cfg
        /\ skillCmd'[c].skill = skillCmd[c].skill
    BY <2>1 DEF SkillCommand
  <2>3. skillCmd' \in [Commands -> SkillCommand]
    BY <1>3, <2>2 DEF SkillTypes
  <2> QED
    BY <1>1, <1>3, <2>1, <2>2, <2>3 DEF SkillLocal
<1> QED
  BY <1>1, <1>2, <1>3

LEMMA PlanLocal ==
  ASSUME SkillTypes, NEW c \in Commands, UNCHANGED skillPc, skillCmd[c].plan # <<>>,
         skillCmd' = [skillCmd EXCEPT ![c].plan = Tail(@)]
  PROVE  SkillLocal(c) /\ skillCmd'[c].skill = skillCmd[c].skill
<1>1. skillCmd[c].plan \in Seq({"service", "sync", "reload", "restart"})
  BY DEF SkillTypes, SkillCommand
<1>2. Tail(skillCmd[c].plan) \in Seq({"service", "sync", "reload", "restart"})
  BY <1>1
<1>3. skillCmd'[c] = [skillCmd[c] EXCEPT !.plan = Tail(skillCmd[c].plan)]
      /\ skillCmd[c] \in SkillCommand
      /\ \A d \in Commands \ {c} : skillCmd'[d] = skillCmd[d]
  BY DEF SkillTypes
<1>4. skillCmd'[c] \in SkillCommand /\ skillCmd'[c].seen = skillCmd[c].seen
      /\ skillCmd'[c].skill = skillCmd[c].skill
  <2>1. ASSUME NEW rest \in Seq({"service", "sync", "reload", "restart"}),
               NEW new, new = [skillCmd[c] EXCEPT !.plan = rest]
        PROVE  /\ new \in SkillCommand /\ new.seen = skillCmd[c].seen
               /\ new.skill = skillCmd[c].skill
    <3>1. skillCmd[c] \in SkillCommand
      BY <1>3
    <3> QED
      BY <2>1, <3>1 DEF SkillCommand
  <2> QED
    BY <1>2, <1>3, <2>1
<1>5. skillCmd' \in [Commands -> SkillCommand]
  BY <1>4 DEF SkillTypes
<1> QED
  BY <1>3, <1>4, <1>5 DEF SkillTypes, Skill!SkillTypeOK, SkillLocal

LEMMA CleanedConfig ==
  ASSUME SkillTypes, NEW c \in Commands
  PROVE  LET s == skillCmd[c].skill  seen == skillCmd[c].seen
         IN /\ seen \in Skill!Config /\ seen.valid
            /\ Skill!Without(seen, s) \in Skill!Config /\ Skill!Without(seen, s).valid
            /\ Skill!Without(seen, s).entries = seen.entries \ {s}
            /\ \A entries \in SUBSET Plugins :
                  LET new == [seen EXCEPT !.entries = entries]
                  IN new \in Skill!Config /\ new.valid /\ new.entries = entries
<1>1. skillCmd[c].seen \in Skill!Config /\ skillCmd[c].seen.valid
  BY DEF SkillTypes, SkillCommand, Skill!SkillTypeOK
<1>2. ASSUME NEW seen \in Skill!Config, seen.valid, NEW s
      PROVE  /\ Skill!Without(seen, s) \in Skill!Config /\ Skill!Without(seen, s).valid
             /\ Skill!Without(seen, s).entries = seen.entries \ {s}
             /\ \A entries \in SUBSET Plugins :
                   LET new == [seen EXCEPT !.entries = entries]
                   IN new \in Skill!Config /\ new.valid /\ new.entries = entries
  BY <1>2 DEF Skill!Config, Skill!Without
<1> QED
  BY <1>1, <1>2

\* What a deploy writes is what it has read, merged with its package's lists.
LEMMA WrittenConfig ==
  ASSUME SkillTypes, NEW c \in Commands, Skill!Write(c), skillCmd[c].skill \in Plugins
  PROVE  \/ Skill!Return(c) /\ UNCHANGED <<config, displaced>>
         \/ /\ Skill!Goto(c, "restart") /\ UNCHANGED skillCmd
            /\ config' \in Skill!Config /\ config'.valid
            /\ skillCmd[c].skill \in config'.entries
            /\ skillCmd[c].seen.entries \subseteq config'.entries \cup displaced'
            /\ displaced \subseteq displaced' /\ displaced' \subseteq Plugins
<1> DEFINE s == skillCmd[c].skill  seen == skillCmd[c].seen
<1>1. seen \in Skill!Config /\ seen.valid /\ seen.entries \subseteq Plugins
  BY CleanedConfig DEF Skill!Config
<1>2. Skill!Overlaid(seen.entries, s) \subseteq SUBSET Plugins
  BY <1>1 DEF Skill!Overlaid
<1>3. CASE Skill!Return(c) /\ UNCHANGED <<config, displaced>>
  BY <1>3
<1>4. ASSUME NEW merged \in Skill!Overlaid(seen.entries, s),
             config' = [seen EXCEPT !.entries = merged \cup {s}],
             displaced' = displaced \cup (seen.entries \ merged)
      PROVE  /\ config' \in Skill!Config /\ config'.valid /\ s \in config'.entries
             /\ seen.entries \subseteq config'.entries \cup displaced'
             /\ displaced \subseteq displaced' /\ displaced' \subseteq Plugins
  <2>1. merged \cup {s} \in SUBSET Plugins
    BY <1>2, <1>4
  <2>2. config' \in Skill!Config /\ config'.valid /\ config'.entries = merged \cup {s}
    BY <1>4, <2>1, CleanedConfig
  <2> QED
    BY <1>1, <1>4, <2>2 DEF SkillTypes, Skill!SkillTypeOK
<1> QED
  BY <1>3, <1>4 DEF Skill!Write, Skill!Exec

\* A step of a deploy: it moves that deploy only and keeps its skill.
SkillMoved(c) ==
    /\ skillPc[c] # "idle" /\ SkillLocal(c) /\ UNCHANGED <<tornBy, skillOverlapped>>
    /\ skillPc'[c] = "idle" \/ skillCmd'[c].skill = skillCmd[c].skill

LEMMA SkillWorkMoves ==
  ASSUME SkillTypes, NEW c \in Commands, Skill!Work(c)
  PROVE  SkillMoved(c)
<1>1. skillPc[c] # "idle" /\ UNCHANGED <<tornBy, skillOverlapped>>
  BY DEF Skill!Work, Skill!ReadConfig, Skill!Sanitize, Skill!Wipe, Skill!Copy,
         Skill!Install, Skill!Backup, Skill!Write, Skill!Restart, Skill!Validate,
         Skill!RunPlan, Skill!AnswerOk, Skill!history
<1>2. CASE Skill!Return(c)
  BY <1>1, <1>2, SkillReturnLocal DEF SkillMoved
<1>3. ASSUME NEW step \in Skill!Steps, Skill!Goto(c, step), UNCHANGED skillCmd
      PROVE  SkillMoved(c)
  BY <1>1, <1>3, SkillMoves DEF SkillMoved, Skill!Goto
<1>4. ASSUME NEW step \in Skill!Steps, Skill!Goto(c, step), NEW cfg \in Skill!Config,
             cfg.valid, skillCmd' = [skillCmd EXCEPT ![c].seen = cfg]
      PROVE  SkillMoved(c)
  BY <1>1, <1>4, SkillMoves DEF SkillMoved, Skill!Goto
<1>5. CASE Skill!ReadConfig(c)
  <2>1. \/ Skill!Return(c)
        \/ config.valid /\ skillCmd' = [skillCmd EXCEPT ![c].seen = config]
           /\ Skill!Goto(c, "sanitize")
    BY <1>5 DEF Skill!ReadConfig, Skill!Exec
  <2>2. config \in Skill!Config /\ "sanitize" \in Skill!Steps
    BY DEF SkillTypes, Skill!SkillTypeOK, Skill!Steps
  <2> QED
    BY <1>2, <1>4, <2>1, <2>2
<1>6. CASE Skill!Sanitize(c)
  <2> DEFINE cleaned == Skill!Without(skillCmd[c].seen, skillCmd[c].skill)
  <2>1. \/ Skill!Return(c)
        \/ Skill!Goto(c, "wipe") /\ UNCHANGED skillCmd
        \/ Skill!Goto(c, "wipe") /\ skillCmd' = [skillCmd EXCEPT ![c].seen = cleaned]
    BY <1>6 DEF Skill!Sanitize, Skill!Exec
  <2>2. cleaned \in Skill!Config /\ cleaned.valid /\ "wipe" \in Skill!Steps
    BY CleanedConfig DEF Skill!Steps
  <2> HIDE DEF cleaned
  <2> QED
    BY <1>2, <1>3, <1>4, <2>1, <2>2
<1>7. CASE Skill!RunPlan(c)
  <2>1. CASE skillCmd' = [skillCmd EXCEPT ![c].plan = Tail(@)] /\ UNCHANGED skillPc
    BY <1>1, <1>7, <2>1, PlanLocal DEF SkillMoved, Skill!RunPlan
  <2> QED
    BY <1>2, <1>7, <2>1 DEF Skill!RunPlan
<1>8. ASSUME \/ Skill!Wipe(c) \/ Skill!Copy(c) \/ Skill!Install(c) \/ Skill!Backup(c)
             \/ Skill!Write(c) \/ Skill!Restart(c) \/ Skill!Validate(c) \/ Skill!AnswerOk(c)
      PROVE  \/ Skill!Return(c)
             \/ \E step \in Skill!Steps : Skill!Goto(c, step) /\ UNCHANGED skillCmd
  BY <1>8 DEF Skill!Wipe, Skill!Copy, Skill!Install, Skill!Backup, Skill!Write,
              Skill!Restart, Skill!Validate, Skill!AnswerOk, Skill!Exec, Skill!Steps
<1> QED
  BY <1>2, <1>3, <1>5, <1>6, <1>7, <1>8 DEF Skill!Work

\* What the container holds is of its type after a step of a deploy.
LEMMA SkillWorkTypes ==
  ASSUME SkillTypes, NEW c \in Commands, Skill!Work(c), skillCmd[c].skill \in Skill!Skills,
         skillPc[c] \in {"install", "write"} => skillCmd[c].skill \in Plugins
  PROVE  /\ config' \in Skill!Config /\ backup' \in Skill!Config
         /\ files' \in [Skill!Skills -> {"none", "part", "whole"}]
         /\ alive' \in BOOLEAN /\ loaded' \subseteq Skill!Skills
         /\ confirmed' \subseteq Skill!Skills /\ displaced' \subseteq Plugins
<1>1. config' \in Skill!Config
  <2>1. CASE Skill!Sanitize(c)
    BY <2>1, CleanedConfig DEF SkillTypes, Skill!SkillTypeOK, Skill!Sanitize, Skill!Exec
  <2>2. CASE Skill!Install(c)
    <3>1. ASSUME NEW s \in Plugins
          PROVE  [config EXCEPT !.installs = @ \cup {s}, !.paths = @ \cup {s}]
                    \in Skill!Config
      BY <3>1 DEF SkillTypes, Skill!SkillTypeOK, Skill!Config
    <3> QED
      BY <2>2, <3>1 DEF SkillTypes, Skill!SkillTypeOK, Skill!Install
  <2>3. CASE Skill!Write(c)
    BY <2>3, WrittenConfig DEF SkillTypes, Skill!SkillTypeOK, Skill!Write
  <2> QED
    BY <2>1, <2>2, <2>3
       DEF SkillTypes, Skill!SkillTypeOK, Skill!Work, Skill!ReadConfig, Skill!Wipe,
           Skill!Copy, Skill!Backup, Skill!Restart, Skill!Validate, Skill!RunPlan,
           Skill!AnswerOk, Skill!container
<1>2. backup' \in Skill!Config
  BY DEF SkillTypes, Skill!SkillTypeOK, Skill!Work, Skill!ReadConfig, Skill!Sanitize,
         Skill!Wipe, Skill!Copy, Skill!Install, Skill!Backup, Skill!Write, Skill!Exec,
         Skill!Restart, Skill!Validate, Skill!RunPlan, Skill!AnswerOk, Skill!container
<1>3. files' \in [Skill!Skills -> {"none", "part", "whole"}]
  BY DEF SkillTypes, Skill!SkillTypeOK, Skill!Work, Skill!ReadConfig, Skill!Sanitize,
         Skill!Wipe, Skill!Copy, Skill!Install, Skill!Backup, Skill!Write, Skill!Exec,
         Skill!Restart, Skill!Validate, Skill!RunPlan, Skill!AnswerOk, Skill!container
<1>4. alive' \in BOOLEAN /\ loaded' \subseteq Skill!Skills
  <2>1. config.valid \in BOOLEAN /\ Skill!Loadable \subseteq Skill!Skills
    BY DEF SkillTypes, Skill!SkillTypeOK, Skill!Config, Skill!Loadable, Skill!Skills
  <2>2. Skill!Restarted \/ UNCHANGED <<alive, loaded>>
    BY DEF Skill!Work, Skill!ReadConfig, Skill!Sanitize, Skill!Wipe, Skill!Copy,
           Skill!Install, Skill!Backup, Skill!Write, Skill!Restart, Skill!Validate,
           Skill!RunPlan, Skill!AnswerOk, Skill!container
  <2> QED
    BY <2>1, <2>2 DEF SkillTypes, Skill!SkillTypeOK, Skill!Restarted
<1>5. confirmed' \subseteq Skill!Skills
  BY DEF SkillTypes, Skill!SkillTypeOK, Skill!Work, Skill!ReadConfig, Skill!Sanitize,
         Skill!Wipe, Skill!Copy, Skill!Install, Skill!Backup, Skill!Write,
         Skill!Restart, Skill!Validate, Skill!RunPlan, Skill!AnswerOk, Skill!history
<1>6. displaced' \subseteq Plugins
  <2>1. CASE Skill!Write(c)
    BY <2>1, WrittenConfig DEF SkillTypes, Skill!SkillTypeOK, Skill!Write
  <2> QED
    BY <2>1
       DEF SkillTypes, Skill!SkillTypeOK, Skill!Work, Skill!ReadConfig, Skill!Sanitize,
           Skill!Wipe, Skill!Copy, Skill!Install, Skill!Backup, Skill!Restart,
           Skill!Validate, Skill!RunPlan, Skill!AnswerOk, Skill!history
<1> QED
  BY <1>1, <1>2, <1>3, <1>4, <1>5, <1>6

\* A deploy is of a skill, and only one of a plugin touches openclaw.json.
AtWork ==
    \A c \in Commands :
        /\ skillPc[c] # "idle" => skillCmd[c].skill \in Skill!Skills
        /\ skillPc[c] \in {"read", "sanitize", "install", "backup", "write"} =>
              skillCmd[c].skill \in Plugins

LEMMA SkillBegin ==
  ASSUME SkillTypes, NEW c \in Commands, Skill!Begin(c)
  PROVE  /\ SkillLocal(c) /\ skillPc[c] = "idle"
         /\ skillCmd'[c].skill \in Skill!Skills
         /\ skillPc'[c] \in {"read", "wipe"}
         /\ (skillPc'[c] = "read") <=> (skillCmd'[c].skill \in Plugins)
         /\ confirmed' = confirmed \ {skillCmd'[c].skill}
         /\ displaced' = displaced \ {skillCmd'[c].skill}
         /\ skillOverlapped' \in BOOLEAN
         /\ ~skillOverlapped' => ~skillOverlapped /\ Skill!Quiet
         /\ UNCHANGED <<config, backup, files, alive, loaded, tornBy>>
<1>1. PICK s \in Skill!Skills, plan \in {<<>>, <<"service", "sync", "reload">>} :
         /\ skillCmd' = [skillCmd EXCEPT ![c] = [Skill!NoCommand EXCEPT !.skill = s, !.plan = plan]]
         /\ confirmed' = confirmed \ {s} /\ displaced' = displaced \ {s}
         /\ Skill!Goto(c, IF s \in Plugins THEN "read" ELSE "wipe")
  BY DEF Skill!Begin
<1> DEFINE new == [Skill!NoCommand EXCEPT !.skill = s, !.plan = plan]
<1>2. plan \in Seq({"service", "sync", "reload", "restart"})
  <2>1. CASE plan = <<>>
    BY <2>1
  <2>2. CASE plan = <<"service", "sync", "reload">>
    BY <2>2
  <2> QED
    BY <2>1, <2>2
<1>3. new \in SkillCommand /\ new.seen.valid /\ new.skill = s
  <2>1. ASSUME NEW r \in SkillCommand, r.seen.valid
        PROVE  LET changed == [r EXCEPT !.skill = s, !.plan = plan]
               IN changed \in SkillCommand /\ changed.seen.valid /\ changed.skill = s
    BY <1>2, <2>1 DEF SkillCommand
  <2> QED
    BY <2>1, SkillNoCommand
<1>4. skillCmd' = [skillCmd EXCEPT ![c] = new]
  BY <1>1
<1> HIDE DEF new
<1>5. /\ skillCmd' \in [Commands -> SkillCommand] /\ skillCmd'[c] = new
      /\ \A d \in Commands \ {c} : skillCmd'[d] = skillCmd[d]
  BY <1>3, <1>4 DEF SkillTypes
<1>6. (IF s \in Plugins THEN "read" ELSE "wipe") \in Skill!Steps
  BY DEF Skill!Steps
<1>7. SkillLocal(c) /\ skillPc'[c] = IF s \in Plugins THEN "read" ELSE "wipe"
  BY <1>1, <1>3, <1>5, <1>6, SkillGotoLocal DEF SkillLocal
<1>8. /\ skillPc[c] = "idle" /\ UNCHANGED <<config, backup, files, alive, loaded, tornBy>>
      /\ skillOverlapped' = (skillOverlapped \/ ~Skill!Quiet)
  BY DEF Skill!Begin, Skill!container
<1> QED
  BY <1>1, <1>3, <1>5, <1>7, <1>8

LEMMA SkillKill ==
  ASSUME SkillTypes, Skill!Kill
  PROVE  /\ \A c \in Commands : skillPc'[c] = "idle" /\ skillCmd'[c] = Skill!NoCommand
         /\ skillPc' \in [Commands -> Skill!Steps]
         /\ skillCmd' \in [Commands -> SkillCommand]
         /\ UNCHANGED <<backup, alive, loaded, confirmed, displaced, skillOverlapped>>
BY SkillNoCommand DEF Skill!Kill, Skill!Steps

LEMMA AtWorkKept ==
  ASSUME SkillTypes, AtWork, [Skill!Next]_Skill!vars
  PROVE  AtWork'
<1>1. ASSUME NEW c \in Commands, Skill!Work(c) PROVE AtWork'
  <2>1. SkillMoved(c)
    BY <1>1, SkillWorkMoves
  <2>2. skillPc'[c] \in {"read", "sanitize", "install", "backup", "write"} =>
          skillCmd[c].skill \in Plugins
    <3>1. CASE Skill!Return(c)
      BY <3>1, SkillReturnLocal
    <3>2. ASSUME NEW step \in Skill!Steps, Skill!Goto(c, step),
                 step \in {"read", "sanitize", "install", "backup", "write"} =>
                    skillCmd[c].skill \in Plugins
          PROVE  skillPc'[c] \in {"read", "sanitize", "install", "backup", "write"} =>
                    skillCmd[c].skill \in Plugins
      BY <3>2, SkillGotoLocal
    <3>3. CASE UNCHANGED skillPc
      BY <3>3 DEF AtWork
    <3>4. CASE Skill!ReadConfig(c) \/ Skill!Sanitize(c) \/ Skill!Install(c) \/ Skill!Backup(c)
      BY <3>1, <3>2, <3>4
         DEF AtWork, Skill!ReadConfig, Skill!Sanitize, Skill!Install, Skill!Backup,
             Skill!Exec, Skill!Steps
    <3>5. CASE Skill!Wipe(c) \/ Skill!Copy(c) \/ Skill!Write(c) \/ Skill!Restart(c)
               \/ Skill!Validate(c) \/ Skill!RunPlan(c) \/ Skill!AnswerOk(c)
      BY <3>1, <3>2, <3>3, <3>5
         DEF Skill!Wipe, Skill!Copy, Skill!Write, Skill!Restart, Skill!Validate,
             Skill!RunPlan, Skill!AnswerOk, Skill!Exec, Skill!Steps
    <3> QED
      BY <1>1, <3>4, <3>5 DEF Skill!Work
  <2> QED
    BY <2>1, <2>2 DEF SkillMoved, SkillLocal, AtWork
<1>2. ASSUME NEW c \in Commands, Skill!Begin(c) PROVE AtWork'
  BY <1>2, SkillBegin DEF AtWork, SkillLocal
<1>3. CASE Skill!Kill
  BY <1>3, SkillKill DEF AtWork
<1>4. CASE UNCHANGED Skill!vars
  BY <1>4 DEF AtWork, Skill!vars
<1> QED
  BY <1>1, <1>2, <1>3, <1>4 DEF Skill!Next

LEMMA SkillTypesKept ==
  ASSUME SkillTypes, AtWork, [Skill!Next]_Skill!vars
  PROVE  SkillTypes'
<1>1. ASSUME NEW c \in Commands, SkillLocal(c)
      PROVE  /\ skillPc' \in [Commands -> Skill!Steps] /\ skillCmd' \in [Commands -> SkillCommand]
             /\ \A d \in Commands : /\ skillCmd'[d].skill \in Skill!Skills \cup {"none"}
                                    /\ skillCmd'[d].seen.valid
  BY <1>1 DEF SkillTypes, Skill!SkillTypeOK, SkillLocal, SkillCommand
<1>2. ASSUME NEW c \in Commands, Skill!Work(c) PROVE SkillTypes'
  <2>1. SkillLocal(c) /\ skillPc[c] # "idle"
    BY <1>2, SkillWorkMoves DEF SkillMoved
  <2>2. skillCmd[c].skill \in Skill!Skills
        /\ (skillPc[c] \in {"install", "write"} => skillCmd[c].skill \in Plugins)
    BY <2>1 DEF AtWork
  <2> QED
    BY <1>1, <1>2, <2>1, <2>2, SkillWorkTypes DEF SkillTypes, Skill!SkillTypeOK
<1>3. ASSUME NEW c \in Commands, Skill!Begin(c) PROVE SkillTypes'
  BY <1>1, <1>3, SkillBegin DEF SkillTypes, Skill!SkillTypeOK
<1>4. CASE Skill!Kill
  <2>1. config' \in Skill!Config
    BY <1>4, SkillNoCommand DEF SkillTypes, Skill!SkillTypeOK, Skill!Kill
  <2>2. files' \in [Skill!Skills -> {"none", "part", "whole"}]
    BY <1>4 DEF SkillTypes, Skill!SkillTypeOK, Skill!Kill
  <2>3. \A d \in Commands : /\ skillCmd'[d].skill \in Skill!Skills \cup {"none"}
                            /\ skillCmd'[d].seen.valid
    BY <1>4, SkillKill, SkillNoCommand DEF SkillCommand
  <2> QED
    BY <1>4, <2>1, <2>2, <2>3, SkillKill DEF SkillTypes, Skill!SkillTypeOK
<1>5. CASE UNCHANGED Skill!vars
  BY <1>5 DEF SkillTypes, Skill!SkillTypeOK, Skill!vars, Skill!container, Skill!history
<1> QED
  BY <1>2, <1>3, <1>4, <1>5 DEF Skill!Next

SkillAlone ==
    ~skillOverlapped => \A c, d \in Commands : skillPc[c] # "idle" /\ skillPc[d] # "idle" => c = d

\* What a deploy works on by the time it is at a step.
Deploying(c) ==
    LET s == skillCmd[c].skill  seen == skillCmd[c].seen
    IN /\ skillPc[c] # "idle" => s \notin confirmed
       /\ skillPc[c] \in {"sanitize", "wipe", "copy", "install", "backup", "write"}
             /\ s \in Plugins =>
             config.valid /\ confirmed \cap Plugins \subseteq seen.entries \cup displaced
       /\ skillPc[c] \in {"install", "backup", "write", "restart", "validate", "plan"} =>
             files[s] = "whole"
       /\ skillPc[c] = "write" =>
             backup.valid /\ confirmed \cap Plugins \subseteq backup.entries \cup displaced
       /\ skillPc[c] \in {"restart", "validate", "plan"} /\ s \in Plugins =>
             s \in config.entries
       /\ skillPc[c] = "validate" => (alive => config.valid)
       /\ skillPc[c] = "plan" => config.valid /\ (alive => s \in loaded)

\* What the confirmed deploys have left is there, or in the backup.
Held ==
    /\ config.valid => confirmed \cap Plugins \subseteq config.entries \cup displaced
    /\ \A s \in confirmed : files[s] = "whole"
    /\ alive => confirmed \subseteq loaded \cup displaced
    /\ tornBy = "write" /\ ~config.valid =>
          backup.valid /\ confirmed \cap Plugins \subseteq backup.entries \cup displaced

SkillSafe == ~skillOverlapped => Held /\ \A c \in Commands : Deploying(c)

SkillInv == SkillTypes /\ AtWork /\ SkillAlone /\ SkillSafe

LEMMA SkillAloneKept ==
  ASSUME SkillTypes, SkillAlone, [Skill!Next]_Skill!vars
  PROVE  SkillAlone'
<1>1. ASSUME NEW c \in Commands, Skill!Work(c) PROVE SkillAlone'
  BY <1>1, SkillWorkMoves DEF SkillMoved, SkillLocal, SkillAlone
<1>2. ASSUME NEW c \in Commands, Skill!Begin(c) PROVE SkillAlone'
  BY <1>2, SkillBegin DEF SkillLocal, SkillAlone, Skill!Quiet
<1>3. CASE Skill!Kill
  BY <1>3, SkillKill DEF SkillAlone
<1>4. CASE UNCHANGED Skill!vars
  BY <1>4 DEF SkillAlone, Skill!vars, Skill!history
<1> QED
  BY <1>1, <1>2, <1>3, <1>4 DEF Skill!Next

\* The step of the only deploy at work.
LEMMA OnlyDeploy ==
  ASSUME SkillInv, ~skillOverlapped, NEW c \in Commands, SkillMoved(c), Held',
         skillPc'[c] = "idle" \/ Deploying(c)'
  PROVE  SkillSafe'
<1>1. ASSUME NEW d \in Commands, skillPc'[d] = "idle" PROVE Deploying(d)'
  BY <1>1 DEF Deploying
<1>2. \A d \in Commands \ {c} : skillPc'[d] = "idle"
  BY DEF SkillInv, SkillAlone, SkillMoved, SkillLocal
<1> QED
  BY <1>1, <1>2 DEF SkillSafe

LEMMA HeldSame ==
  ASSUME Held,
         UNCHANGED <<config, backup, files, alive, loaded, confirmed, displaced, tornBy>>
  PROVE  Held'
BY DEF Held

\* Whatever is confirmed is loaded when the container starts.
LEMMA LoadableHeld ==
  ASSUME SkillTypes, Held, config.valid
  PROVE  /\ confirmed \subseteq Skill!Loadable \cup displaced
         /\ \A s \in Skill!Skills : files[s] = "whole" /\ (s \in Plugins => s \in config.entries)
                                    => s \in Skill!Loadable
BY DEF SkillTypes, Skill!SkillTypeOK, Held, Skill!Loadable, Skill!Skills

LEMMA ConfigSafe ==
  ASSUME SkillInv, ~skillOverlapped, NEW c \in Commands,
         Skill!ReadConfig(c) \/ Skill!Sanitize(c) \/ Skill!Wipe(c)
  PROVE  SkillSafe'
<1> DEFINE s == skillCmd[c].skill
<1>1. SkillMoved(c) /\ Held /\ Deploying(c)
  BY SkillWorkMoves DEF SkillInv, SkillSafe, Skill!Work
<1>2. s \in Skill!Skills /\ s \notin confirmed
  BY <1>1 DEF SkillInv, AtWork, SkillMoved, Deploying
<1>3. CASE Skill!ReadConfig(c)
  <2>1. Held'
    BY <1>1, <1>3, HeldSame DEF Skill!ReadConfig, Skill!container, Skill!history
  <2>2. CASE Skill!Return(c)
    BY <1>1, <2>1, <2>2, SkillReturnLocal, OnlyDeploy DEF SkillInv
  <2>3. CASE /\ config.valid /\ skillCmd' = [skillCmd EXCEPT ![c].seen = config]
             /\ Skill!Goto(c, "sanitize")
    <3>1. /\ skillPc'[c] = "sanitize" /\ skillCmd'[c].seen = config /\ skillCmd'[c].skill = s
      BY <2>3, SkillMoves DEF SkillInv, SkillTypes, Skill!SkillTypeOK, Skill!Goto, Skill!Steps
    <3>2. /\ UNCHANGED <<config, confirmed, displaced>>
           /\ confirmed \cap Plugins \subseteq config.entries \cup displaced
      BY <1>1, <1>3, <2>3 DEF Held, Skill!ReadConfig, Skill!container, Skill!history
    <3>3. Deploying(c)'
      BY <1>2, <2>3, <3>1, <3>2 DEF Deploying
    <3> QED
      BY <1>1, <2>1, <3>3, OnlyDeploy
  <2> QED
    BY <1>3, <2>2, <2>3 DEF Skill!ReadConfig, Skill!Exec
<1>4. CASE Skill!Sanitize(c)
  <2> DEFINE cleaned == Skill!Without(skillCmd[c].seen, s)
  <2>1. /\ cleaned \in Skill!Config /\ cleaned.valid
        /\ cleaned.entries = skillCmd[c].seen.entries \ {s} /\ s \in Plugins
    BY <1>4, CleanedConfig DEF SkillInv, AtWork, Skill!Sanitize
  <2>2. config.valid
        /\ confirmed \cap Plugins \subseteq skillCmd[c].seen.entries \cup displaced
    BY <1>1, <1>4, <2>1 DEF Deploying, Skill!Sanitize
  <2>3. UNCHANGED <<backup, files, alive, loaded, confirmed, displaced, tornBy>>
    BY <1>4 DEF Skill!Sanitize, Skill!history
  <2>4. \/ Skill!Return(c) /\ UNCHANGED config
        \/ Skill!Goto(c, "wipe") /\ UNCHANGED <<config, skillCmd>>
        \/ /\ Skill!Goto(c, "wipe") /\ config' = cleaned
           /\ skillCmd' = [skillCmd EXCEPT ![c].seen = cleaned]
    BY <1>4 DEF Skill!Sanitize, Skill!Exec
  <2> HIDE DEF cleaned
  <2>5. CASE UNCHANGED config
    <3>1. Held'
      BY <1>1, <2>3, <2>5, HeldSame
    <3>2. CASE Skill!Return(c)
      BY <1>1, <3>1, <3>2, SkillReturnLocal, OnlyDeploy DEF SkillInv
    <3>3. CASE Skill!Goto(c, "wipe") /\ skillCmd'[c].seen.entries \in
                 {skillCmd[c].seen.entries, cleaned.entries} /\ skillCmd'[c].skill = s
      <4>1. skillPc'[c] = "wipe"
        BY <3>3, SkillGotoLocal DEF SkillInv, Skill!Steps
      <4>2. Deploying(c)'
        BY <1>2, <2>1, <2>2, <2>3, <2>5, <3>3, <4>1 DEF Deploying
      <4> QED
        BY <1>1, <3>1, <4>2, OnlyDeploy
    <3>4. ASSUME Skill!Goto(c, "wipe"), skillCmd' = [skillCmd EXCEPT ![c].seen = cleaned]
          PROVE  skillCmd'[c].seen = cleaned /\ skillCmd'[c].skill = s
      BY <2>1, <3>4, SkillMoves DEF SkillInv, Skill!Goto, Skill!Steps
    <3> QED
      BY <2>4, <3>2, <3>3, <3>4
  <2>6. CASE /\ Skill!Goto(c, "wipe") /\ config' = cleaned
             /\ skillCmd' = [skillCmd EXCEPT ![c].seen = cleaned]
    <3>1. /\ skillPc'[c] = "wipe" /\ skillCmd'[c].seen = cleaned /\ skillCmd'[c].skill = s
      BY <2>1, <2>6, SkillMoves DEF SkillInv, Skill!Goto, Skill!Steps
    <3>2. Held'
      BY <1>1, <1>2, <2>1, <2>2, <2>3, <2>6 DEF Held
    <3>3. Deploying(c)'
      BY <1>2, <2>1, <2>2, <2>3, <2>6, <3>1 DEF Deploying
    <3> QED
      BY <1>1, <3>2, <3>3, OnlyDeploy
  <2> QED
    BY <2>4, <2>5, <2>6
<1>5. CASE Skill!Wipe(c)
  <2>1. UNCHANGED <<config, backup, alive, loaded, confirmed, displaced, tornBy>>
    BY <1>5 DEF Skill!Wipe, Skill!history
  <2>2. CASE Skill!Return(c) /\ UNCHANGED files
    BY <1>1, <2>1, <2>2, HeldSame, SkillReturnLocal, OnlyDeploy DEF SkillInv
  <2>3. CASE /\ files' = [files EXCEPT ![s] = "none"] /\ Skill!Goto(c, "copy")
             /\ UNCHANGED skillCmd
    <3>1. skillPc'[c] = "copy"
      BY <2>3, SkillGotoLocal DEF SkillInv, Skill!Steps
    <3>2. Held'
      BY <1>1, <1>2, <2>1, <2>3 DEF SkillInv, SkillTypes, Skill!SkillTypeOK, Held
    <3>3. Deploying(c)'
      BY <1>1, <1>2, <1>5, <2>1, <2>3, <3>1 DEF Deploying, Skill!Wipe
    <3> QED
      BY <1>1, <3>2, <3>3, OnlyDeploy
  <2> QED
    BY <1>5, <2>2, <2>3 DEF Skill!Wipe, Skill!Exec
<1> QED
  BY <1>3, <1>4, <1>5

LEMMA InstallSafe ==
  ASSUME SkillInv, ~skillOverlapped, NEW c \in Commands,
         Skill!Copy(c) \/ Skill!Install(c) \/ Skill!Backup(c) \/ Skill!Write(c)
  PROVE  SkillSafe'
<1> DEFINE s == skillCmd[c].skill
<1>0. Skill!Copy(c) \/ Skill!Install(c) \/ Skill!Backup(c) => UNCHANGED displaced
  BY DEF Skill!Copy, Skill!Install, Skill!Backup, Skill!history
<1>1. SkillMoved(c) /\ Held /\ Deploying(c)
  BY SkillWorkMoves DEF SkillInv, SkillSafe, Skill!Work
<1>2. s \in Skill!Skills /\ s \notin confirmed
  BY <1>1 DEF SkillInv, AtWork, SkillMoved, Deploying
<1>3. UNCHANGED <<alive, loaded, confirmed, tornBy>>
  BY DEF Skill!Copy, Skill!Install, Skill!Backup, Skill!Write, Skill!history
<1>4. ASSUME NEW step \in Skill!Steps, Skill!Goto(c, step), UNCHANGED skillCmd
      PROVE  skillPc'[c] = step /\ skillCmd'[c] = skillCmd[c]
  BY <1>4, SkillGotoLocal DEF SkillInv
<1>5. Skill!Return(c) => skillPc'[c] = "idle"
  BY SkillReturnLocal DEF SkillInv
<1>6. CASE Skill!Copy(c)
  <2>1. PICK left \in {"none", "part", "whole"} : files' = [files EXCEPT ![s] = left]
    BY <1>6 DEF Skill!Copy
  <2>2. Held'
    BY <1>0, <1>1, <1>2, <1>3, <1>6, <2>1
       DEF SkillInv, SkillTypes, Skill!SkillTypeOK, Held, Skill!Copy
  <2>3. CASE Skill!Return(c)
    BY <1>1, <1>5, <2>2, <2>3, OnlyDeploy
  <2>4. CASE /\ files' = [files EXCEPT ![s] = "whole"]
             /\ Skill!Goto(c, IF s \in Plugins THEN "install" ELSE "restart")
             /\ UNCHANGED skillCmd
    <3>1. /\ skillPc'[c] = IF s \in Plugins THEN "install" ELSE "restart"
          /\ skillCmd'[c] = skillCmd[c]
      BY <1>4, <2>4 DEF Skill!Steps
    <3>2. files'[s] = "whole"
      BY <1>2, <2>4 DEF SkillInv, SkillTypes, Skill!SkillTypeOK
    <3>3. Deploying(c)'
      BY <1>0, <1>1, <1>2, <1>3, <1>6, <3>1, <3>2 DEF Deploying, Skill!Copy
    <3> QED
      BY <1>1, <2>2, <3>3, OnlyDeploy
  <2> QED
    BY <1>6, <2>3, <2>4 DEF Skill!Copy
<1>7. ASSUME Skill!Install(c) \/ Skill!Backup(c) \/ Skill!Write(c)
      PROVE  /\ s \in Plugins /\ config.valid /\ files[s] = "whole"
             /\ confirmed \cap Plugins \subseteq skillCmd[c].seen.entries \cup displaced
             /\ UNCHANGED files
  BY <1>1, <1>7
     DEF SkillInv, AtWork, Deploying, Skill!Install, Skill!Backup, Skill!Write
<1>8. CASE Skill!Install(c)
  <2>1. config'.valid /\ config'.entries = config.entries /\ UNCHANGED backup
    BY <1>7, <1>8 DEF SkillInv, SkillTypes, Skill!SkillTypeOK, Skill!Config, Skill!Install
  <2>2. Held'
    BY <1>0, <1>1, <1>3, <1>7, <1>8, <2>1 DEF Held
  <2>3. CASE Skill!Return(c)
    BY <1>1, <1>5, <2>2, <2>3, OnlyDeploy
  <2>4. CASE Skill!Goto(c, "backup") /\ UNCHANGED skillCmd
    <3>1. skillPc'[c] = "backup" /\ skillCmd'[c] = skillCmd[c]
      BY <1>4, <2>4 DEF Skill!Steps
    <3>2. Deploying(c)'
      BY <1>0, <1>2, <1>3, <1>7, <1>8, <2>1, <3>1 DEF Deploying
    <3> QED
      BY <1>1, <2>2, <3>2, OnlyDeploy
  <2> QED
    BY <1>8, <2>3, <2>4 DEF Skill!Install
<1>9. CASE Skill!Backup(c)
  <2>1. /\ UNCHANGED <<config, files>>
        /\ confirmed \cap Plugins \subseteq config.entries \cup displaced
    BY <1>1, <1>7, <1>9 DEF Held, Skill!Backup
  <2>2. Held'
    BY <1>0, <1>1, <1>3, <1>7, <1>9, <2>1 DEF Held
  <2>3. CASE Skill!Return(c)
    BY <1>1, <1>5, <2>2, <2>3, OnlyDeploy
  <2>4. CASE Skill!Goto(c, "write") /\ backup' = config /\ UNCHANGED skillCmd
    <3>1. skillPc'[c] = "write" /\ skillCmd'[c] = skillCmd[c]
      BY <1>4, <2>4 DEF Skill!Steps
    <3>2. Deploying(c)'
      BY <1>0, <1>2, <1>3, <1>7, <1>9, <2>1, <2>4, <3>1 DEF Deploying
    <3> QED
      BY <1>1, <2>2, <3>2, OnlyDeploy
  <2> QED
    BY <1>9, <2>3, <2>4 DEF Skill!Backup, Skill!Exec
<1>10. CASE Skill!Write(c)
  <2>1. UNCHANGED <<backup, files>>
    BY <1>10 DEF Skill!Write
  <2>2. CASE Skill!Return(c) /\ UNCHANGED <<config, displaced>>
    BY <1>1, <1>3, <1>5, <2>1, <2>2, HeldSame, OnlyDeploy
  <2>3. CASE ~(Skill!Return(c) /\ UNCHANGED <<config, displaced>>)
    <3>1. /\ config'.valid /\ s \in config'.entries
          /\ skillCmd[c].seen.entries \subseteq config'.entries \cup displaced'
          /\ displaced \subseteq displaced'
          /\ Skill!Goto(c, "restart") /\ UNCHANGED skillCmd
      BY <1>7, <1>10, <2>3, WrittenConfig DEF SkillInv
    <3>2. skillPc'[c] = "restart" /\ skillCmd'[c] = skillCmd[c]
      BY <1>4, <3>1 DEF Skill!Steps
    <3>3. Held'
      BY <1>1, <1>3, <1>7, <1>10, <2>1, <3>1 DEF Held
    <3>4. Deploying(c)'
      BY <1>2, <1>3, <1>7, <1>10, <3>1, <3>2 DEF Deploying
    <3> QED
      BY <1>1, <3>3, <3>4, OnlyDeploy
  <2> QED
    BY <2>2, <2>3
<1> QED
  BY <1>6, <1>8, <1>9, <1>10

LEMMA RestartSafe ==
  ASSUME SkillInv, ~skillOverlapped, NEW c \in Commands,
         Skill!Restart(c) \/ Skill!Validate(c) \/ Skill!RunPlan(c) \/ Skill!AnswerOk(c)
  PROVE  SkillSafe'
<1> DEFINE s == skillCmd[c].skill
<1>1. SkillMoved(c) /\ Held /\ Deploying(c)
  BY SkillWorkMoves DEF SkillInv, SkillSafe, Skill!Work
<1>2. /\ s \in Skill!Skills /\ s \notin confirmed /\ files[s] = "whole"
      /\ s \in Plugins => s \in config.entries
  BY <1>1 DEF SkillInv, AtWork, SkillMoved, Deploying, Skill!Restart, Skill!Validate,
              Skill!RunPlan, Skill!AnswerOk
<1>3. UNCHANGED <<config, backup, files, displaced, tornBy>>
  BY DEF Skill!Restart, Skill!Validate, Skill!RunPlan, Skill!AnswerOk, Skill!container,
         Skill!history
<1>4. Skill!Return(c) => skillPc'[c] = "idle"
  BY SkillReturnLocal DEF SkillInv
<1>5. ASSUME Skill!Restarted, UNCHANGED confirmed
      PROVE  Held' /\ (alive' => config.valid) /\ (config.valid => s \in loaded')
  BY <1>1, <1>2, <1>3, <1>5, LoadableHeld DEF SkillInv, Held, Skill!Restarted
<1>6. ASSUME UNCHANGED <<alive, loaded, confirmed>> PROVE Held'
  BY <1>1, <1>3, <1>6, HeldSame
<1>7. CASE Skill!Restart(c)
  <2>1. UNCHANGED confirmed
    BY <1>7 DEF Skill!Restart, Skill!history
  <2>2. CASE Skill!Return(c) /\ UNCHANGED <<alive, loaded>>
    BY <1>1, <1>4, <1>6, <2>1, <2>2, OnlyDeploy
  <2>3. CASE Skill!Restarted /\ Skill!Goto(c, "validate") /\ UNCHANGED skillCmd
    <3>1. skillPc'[c] = "validate" /\ skillCmd'[c] = skillCmd[c]
      BY <2>3, SkillGotoLocal DEF SkillInv, Skill!Steps
    <3>2. Deploying(c)'
      BY <1>2, <1>3, <1>5, <2>1, <2>3, <3>1 DEF Deploying
    <3> QED
      BY <1>1, <1>5, <2>1, <2>3, <3>2, OnlyDeploy
  <2> QED
    BY <1>7, <2>2, <2>3 DEF Skill!Restart
<1>8. CASE Skill!Validate(c)
  <2>1. UNCHANGED <<alive, loaded, confirmed>>
    BY <1>8 DEF Skill!Validate, Skill!container, Skill!history
  <2>2. CASE Skill!Return(c)
    BY <1>1, <1>4, <1>6, <2>1, <2>2, OnlyDeploy
  <2>3. CASE alive /\ s \in loaded /\ Skill!Goto(c, "plan") /\ UNCHANGED skillCmd
    <3>1. skillPc'[c] = "plan" /\ skillCmd'[c] = skillCmd[c]
      BY <2>3, SkillGotoLocal DEF SkillInv, Skill!Steps
    <3>2. config.valid
      BY <1>1, <1>8, <2>3 DEF Deploying, Skill!Validate
    <3>3. Deploying(c)'
      BY <1>2, <1>3, <2>1, <2>3, <3>1, <3>2 DEF Deploying
    <3> QED
      BY <1>1, <1>6, <2>1, <3>3, OnlyDeploy
  <2> QED
    BY <1>8, <2>2, <2>3 DEF Skill!Validate, Skill!Exec
<1>9. CASE Skill!RunPlan(c)
  <2>1. UNCHANGED confirmed /\ config.valid /\ (alive => s \in loaded)
    BY <1>1, <1>9 DEF Deploying, Skill!RunPlan, Skill!history
  <2>2. Skill!Restarted \/ UNCHANGED <<alive, loaded>>
    BY <1>9 DEF Skill!RunPlan
  <2>3. Held' /\ (alive' => s \in loaded')
    BY <1>5, <1>6, <2>1, <2>2
  <2>4. CASE skillPc'[c] = "idle"
    BY <1>1, <2>3, <2>4, OnlyDeploy
  <2>5. CASE skillPc'[c] # "idle"
    <3>1. skillPc'[c] = "plan" /\ skillCmd'[c].skill = s
      BY <1>1, <1>4, <1>9, <2>5 DEF SkillMoved, Skill!RunPlan
    <3>2. Deploying(c)'
      BY <1>2, <1>3, <2>1, <2>3, <3>1 DEF Deploying
    <3> QED
      BY <1>1, <2>3, <3>2, OnlyDeploy
  <2> QED
    BY <2>4, <2>5
<1>10. CASE Skill!AnswerOk(c)
  <2>1. /\ confirmed' = confirmed \cup {s} /\ UNCHANGED <<alive, loaded>>
        /\ config.valid /\ (alive => s \in loaded) /\ skillPc'[c] = "idle"
    BY <1>1, <1>4, <1>10 DEF Deploying, Skill!AnswerOk, Skill!container
  <2>2. Held'
    BY <1>1, <1>2, <1>3, <2>1 DEF Held
  <2> QED
    BY <1>1, <2>1, <2>2, OnlyDeploy
<1> QED
  BY <1>7, <1>8, <1>9, <1>10

LEMMA SkillSafeKept ==
  ASSUME SkillInv, [Skill!Next]_Skill!vars
  PROVE  SkillSafe'
<1>1. CASE skillOverlapped'
  BY <1>1 DEF SkillSafe
<1>2. ASSUME NEW c \in Commands, Skill!Work(c), ~skillOverlapped' PROVE SkillSafe'
  <2>1. ~skillOverlapped
    BY <1>2, SkillWorkMoves DEF SkillInv, SkillMoved
  <2> QED
    BY <1>2, <2>1, ConfigSafe, InstallSafe, RestartSafe DEF Skill!Work
<1>3. ASSUME NEW c \in Commands, Skill!Begin(c), ~skillOverlapped' PROVE SkillSafe'
  <2>1. Held /\ Skill!Quiet /\ SkillLocal(c)
    BY <1>3, SkillBegin DEF SkillInv, SkillSafe
  <2>2. Held'
    BY <1>3, <2>1, SkillBegin DEF SkillInv, Held
  <2>3. \A d \in Commands \ {c} : skillPc'[d] = "idle"
    BY <2>1 DEF SkillLocal, Skill!Quiet
  <2>4. ASSUME NEW d \in Commands, skillPc'[d] = "idle" PROVE Deploying(d)'
    BY <2>4 DEF Deploying
  <2>5. /\ skillCmd'[c].skill \notin confirmed'
        /\ skillPc'[c] = "read" \/ (skillPc'[c] = "wipe" /\ skillCmd'[c].skill \notin Plugins)
    BY <1>3, SkillBegin DEF SkillInv
  <2>6. Deploying(c)'
    BY <2>5 DEF Deploying
  <2> QED
    BY <2>2, <2>3, <2>4, <2>6 DEF SkillSafe
<1>4. CASE Skill!Kill /\ ~skillOverlapped'
  <2>1. /\ Held /\ \A c \in Commands : Deploying(c)
        /\ \A c \in Commands : skillPc'[c] = "idle"
        /\ UNCHANGED <<backup, alive, loaded, confirmed, displaced>>
    BY <1>4, SkillKill DEF SkillInv, SkillSafe
  <2>2. Held'
    <3>1. CASE UNCHANGED <<config, files, tornBy>>
      BY <2>1, <3>1, HeldSame
    <3>2. ASSUME NEW c \in Commands, skillPc[c] \in {"sanitize", "write"},
                 config' = Skill!NoConfig, tornBy' = skillPc[c], UNCHANGED files
          PROVE  Held'
      <4>1. ~config'.valid
        BY <3>2, SkillNoCommand
      <4>2. tornBy' = "write" =>
              /\ backup.valid
              /\ confirmed \cap Plugins \subseteq backup.entries \cup displaced
        BY <2>1, <3>2 DEF Deploying
      <4> QED
        BY <2>1, <3>2, <4>1, <4>2 DEF Held
    <3>3. ASSUME NEW c \in Commands, skillPc[c] = "copy", UNCHANGED <<config, tornBy>>,
                 files' = [files EXCEPT ![skillCmd[c].skill] = "part"]
          PROVE  Held'
      <4>1. skillCmd[c].skill \notin confirmed
        BY <2>1, <3>3 DEF Deploying
      <4> QED
        BY <2>1, <3>3, <4>1 DEF SkillInv, SkillTypes, Skill!SkillTypeOK, Held
    <3> QED
      BY <1>4, <3>1, <3>2, <3>3 DEF Skill!Kill
  <2> QED
    BY <2>1, <2>2 DEF SkillSafe, Deploying
<1>5. CASE UNCHANGED Skill!vars
  BY <1>5 DEF SkillInv, SkillSafe, Held, Deploying, Skill!vars, Skill!container, Skill!history
<1> QED
  BY <1>1, <1>2, <1>3, <1>4, <1>5 DEF Skill!Next

LEMMA InitSkill == Skill!Init => SkillInv
<1> SUFFICES ASSUME Skill!Init PROVE SkillInv
  OBVIOUS
<1>1. Skill!EmptyConfig \in Skill!Config
  <2>1. ASSUME NEW cfg \in Skill!Config PROVE [cfg EXCEPT !.valid = TRUE] \in Skill!Config
    BY <2>1 DEF Skill!Config
  <2> QED
    BY <2>1, SkillNoCommand DEF Skill!EmptyConfig
<1>2. /\ skillPc \in [Commands -> Skill!Steps] /\ skillCmd \in [Commands -> SkillCommand]
      /\ \A c \in Commands : skillPc[c] = "idle" /\ skillCmd[c] = Skill!NoCommand
  BY SkillNoCommand DEF Skill!Init, Skill!Steps
<1>3. \A c \in Commands : skillCmd[c].skill \in Skill!Skills \cup {"none"} /\ skillCmd[c].seen.valid
  BY <1>2, SkillNoCommand DEF SkillCommand
<1>4. SkillTypes
  BY <1>1, <1>2, <1>3, SkillNoCommand DEF Skill!Init, SkillTypes, Skill!SkillTypeOK
<1>5. AtWork /\ SkillAlone /\ \A c \in Commands : Deploying(c)
  BY <1>2 DEF AtWork, SkillAlone, Deploying
<1>6. Held
  BY DEF Skill!Init, Held
<1> QED
  BY <1>4, <1>5, <1>6 DEF SkillInv, SkillSafe

\* Deploys one at a time agree with the container at every step they are at.
THEOREM SkillInvariant == Skill!Spec => []SkillInv
<1>1. SkillInv /\ [Skill!Next]_Skill!vars => SkillInv'
  BY SkillTypesKept, AtWorkKept, SkillAloneKept, SkillSafeKept DEF SkillInv
<1> QED
  BY <1>1, InitSkill, PTL DEF Skill!Spec

\* Without overlap, a skill whose deploy answered ok stays enabled, in place and
\* loaded, however later deploys of others fail or are killed, unless the package of
\* one of them lists the allowed plugins without it (skills.py).
THEOREM ConfirmedSkillsStay == Skill!Spec => []ConfirmedStays
<1>1. SkillInv => ConfirmedStays
  BY DEF SkillInv, SkillSafe, Held, ConfirmedStays, Skill!ConfirmedStays
<1> QED
  BY <1>1, SkillInvariant, PTL

\* Without overlap, the backup is whole and enables every confirmed plugin that no
\* other package's list took out, when the last write of openclaw.json was cut short
\* (skills.py).
THEOREM BackupIsWhole == Skill!Spec => []BackupCoversTornWrite
<1>1. SkillInv => BackupCoversTornWrite
  BY DEF SkillInv, SkillSafe, Held, BackupCoversTornWrite, Skill!BackupCoversTornWrite
<1> QED
  BY <1>1, SkillInvariant, PTL

-----------------------------------------------------------------------------
(* The four parts side by side, as they are run.                           *)

\* A step of the composition is a step of one part, and none of the others.
LEMMA GatewayStep ==
  [GatewayNext]_allVars =>
      /\ [Next]_vars /\ [Repo!Next]_Repo!vars /\ [Skill!Next]_Skill!vars
      /\ [Boot!Next]_Boot!vars
<1>1. UNCHANGED repoVars => UNCHANGED Repo!vars
  BY DEF repoVars, Repo!vars
<1>2. UNCHANGED skillVars => UNCHANGED Skill!vars
  BY DEF skillVars, Skill!vars, Skill!container, Skill!history
<1>3. UNCHANGED bootVars => UNCHANGED Boot!vars
  BY DEF bootVars, Boot!vars
<1> QED
  BY <1>1, <1>2, <1>3 DEF GatewayNext, allVars

\* Whatever is proved of the specification of a part holds of the part in the
\* composition, whose behaviours follow one part (its subject).
THEOREM GatewayFollowsParts ==
  GatewaySpec => Spec /\ Repo!Spec /\ Skill!Spec /\ Boot!Spec
<1>1. GatewayInit => Init /\ Repo!Init /\ Skill!Init /\ Boot!Init
  BY DEF GatewayInit
<1> QED
  BY <1>1, GatewayStep, PTL DEF GatewaySpec, Spec, Repo!Spec, Skill!Spec, Boot!Spec

\* What the parts promise, of the composition: what a service keeps was validated
\* and its records name it, failed deploys end on the last success, a success runs
\* (pipeline.py); the lock excludes and what is read is fresh (adapters.py); confirmed
\* skills stay until another package's list takes them out, and the backup holds them
\* (skills.py); an ok bootstrap is complete
\* (bootstrap_remote_gateway.py).
THEOREM GatewayKeepsPromises ==
  GatewaySpec =>
      /\ [](KeptIsValidated /\ RecordsMatchRenders)
      /\ FailedDeployRestoresLast /\ SuccessIsWhatRuns
      /\ [](LockExcludes /\ FreshRead) /\ RefreshBringsCacheUp
      /\ [](ConfirmedStays /\ BackupCoversTornWrite)
      /\ []OkMeansReady
  BY GatewayFollowsParts, KeptRendersValidated, RecordsNameRenders,
     FailedDeploysRestoreLast, RecordedSuccessRuns, LockExcludesOthers, ReadsAreFresh,
     RefreshesReachTheCache, ConfirmedSkillsStay, BackupIsWhole, OkIsReady, PTL

\* Each part keeps its types: polls validate containers that are there, checkouts hold
\* pushed commits, a deploy works on a configuration it could parse.
THEOREM GatewayTypeCorrect == GatewaySpec => []GatewayTypeOK
<1>1. PipelineInv /\ RepoInv /\ SkillInv /\ BootInv => GatewayTypeOK
  BY DEF PipelineInv, RepoInv, RepoTypes, SkillInv, SkillTypes, BootInv, HostTypes,
         GatewayTypeOK
<1> QED
  BY <1>1, GatewayFollowsParts, PipelineInvariant, RepoInvariant, SkillInvariant,
     BootstrapInvariant, PTL
=============================================================================
