---------------------------- MODULE SkillDeploy ----------------------------
(***************************************************************************)
(* Skill deploys of the archived Python gateway into one OpenClaw          *)
(* container (runtime/src/moltbox_runtime/skills.py and                    *)
(* commands/src/moltbox_commands/skill.py).                                *)
(*                                                                         *)
(* A plugin-backed skill is deployed by reading openclaw.json, taking the  *)
(* plugin out of it, replacing the plugin's files, installing them and     *)
(* writing back the configuration it read, merged with the package's own   *)
(* example-config.json, with the plugin put in.  What OpenClaw itself does *)
(* is modelled from how the gateway uses it.                               *)
(***************************************************************************)
EXTENDS Sequences, Integers

CONSTANTS
    Commands,      \* threads that serve /run
    Plugins,       \* plugin-backed skills
    Pure,          \* skills that are only files
    Listing,       \* plugins whose example-config.json lists other plugins
    Short,         \* plugins whose id is part of every plugin's load path
    Plans,         \* the operations of a recipe, in the order of the plan
    MaxCommands,   \* bound: deploys started
    MaxOverlap,    \* bound: deploys started before one that may overlap;
                   \* nothing starts, fails or is killed afterwards
    MaxFailures,   \* bound: calls that fail
    MaxKills       \* bound: kills of the gateway

VARIABLES
    config,        \* openclaw.json
    backup,        \* openclaw.json.moltbox.bak
    files,         \* the directory of each skill in the container
    alive, loaded, \* whether the container runs, and the skills it has loaded
    pc, cmd,       \* the step each command is about to take, and its locals
    used,          \* how much of each bound is used up
    confirmed,     \* history: skills whose last deploy answered ok
    displaced,     \* history: plugins that lists of others' packages took out
                   \* since their own deploy started
    tornBy,        \* history: the write that was cut short and left config invalid
    overlapped     \* history: two commands have run at a time

container == <<config, backup, files, alive, loaded>>
history == <<confirmed, displaced, tornBy, overlapped>>
vars == <<container, pc, cmd, used, history>>

Skills == Plugins \cup Pure

\* entries: plugins allowed and enabled; installs and paths: the install records
\* and load paths OpenClaw left when it installed them.
Config == [valid : BOOLEAN, entries : SUBSET Plugins, installs : SUBSET Plugins,
           paths : SUBSET Plugins]

NoConfig == [valid |-> FALSE, entries |-> {}, installs |-> {}, paths |-> {}]
EmptyConfig == [NoConfig EXCEPT !.valid = TRUE]

\* seen: the configuration the command works on.
NoCommand == [skill |-> "none", seen |-> EmptyConfig, plan |-> <<>>]

Steps == {"idle", "read", "sanitize", "wipe", "copy", "install", "backup",
          "write", "restart", "validate", "plan"}

-----------------------------------------------------------------------------

Goto(c, step) == pc' = [pc EXCEPT ![c] = step]

Return(c) == Goto(c, "idle") /\ cmd' = [cmd EXCEPT ![c] = NoCommand]

Fault ==
    /\ used.failures < MaxFailures /\ ~overlapped
    /\ used' = [used EXCEPT !.failures = @ + 1]

NoFault == UNCHANGED used

\* A call into the container: it goes on by action, or raises because the call
\* fails or the container is down.
Exec(c, action, unchanged) ==
    \/ alive /\ action /\ NoFault
    \/ /\ IF alive THEN Fault ELSE NoFault
       /\ Return(c) /\ UNCHANGED unchanged

Quiet == \A c \in Commands : pc[c] = "idle"

Begin(c) ==
    /\ pc[c] = "idle" /\ used.commands < MaxCommands
    /\ IF Quiet THEN ~overlapped ELSE used.commands <= MaxOverlap
    /\ used' = [used EXCEPT !.commands = @ + 1]
    /\ overlapped' = (overlapped \/ ~Quiet)
    /\ \E s \in Skills, plan \in Plans :
          /\ cmd' = [cmd EXCEPT ![c] = [NoCommand EXCEPT !.skill = s, !.plan = plan]]
          /\ confirmed' = confirmed \ {s} /\ displaced' = displaced \ {s}
          /\ Goto(c, IF s \in Plugins THEN "read" ELSE "wipe")
    /\ UNCHANGED <<container, tornBy>>

\* A configuration that is not valid JSON is refused.
ReadConfig(c) ==
    /\ pc[c] = "read"
    /\ Exec(c, \/ /\ config.valid
                  /\ cmd' = [cmd EXCEPT ![c].seen = config]
                  /\ Goto(c, "sanitize")
               \/ ~config.valid /\ Return(c), <<>>)
    /\ UNCHANGED <<container, history>>

\* Mutant: the other plugins are taken out as well.
WithoutAny(cfg, p) == [cfg EXCEPT !.entries = {}, !.installs = {}, !.paths = {}]

\* The plugin is taken out by its id, load paths if the id occurs in them.
Without(cfg, p) ==
    [cfg EXCEPT !.entries = @ \ {p}, !.installs = @ \ {p},
                !.paths = IF p \in Short THEN {} ELSE @ \ {p}]

\* The configuration without the plugin is written back if that changes it.
Sanitize(c) ==
    LET cleaned == Without(cmd[c].seen, cmd[c].skill)
    IN /\ pc[c] = "sanitize"
       /\ \/ /\ cleaned = cmd[c].seen
             /\ Goto(c, "wipe") /\ NoFault /\ UNCHANGED <<config, cmd>>
          \/ /\ cleaned # cmd[c].seen
             /\ Exec(c, /\ config' = cleaned
                        /\ cmd' = [cmd EXCEPT ![c].seen = cleaned]
                        /\ Goto(c, "wipe"), config)
       /\ UNCHANGED <<backup, files, alive, loaded, history>>

Wipe(c) ==
    /\ pc[c] = "wipe"
    /\ Exec(c, /\ files' = [files EXCEPT ![cmd[c].skill] = "none"]
               /\ Goto(c, "copy") /\ UNCHANGED cmd, files)
    /\ UNCHANGED <<config, backup, alive, loaded, history>>

\* The package is copied and given to the container's user; docker cp works on
\* a stopped container too.  A copy that fails may have copied a part.
Copy(c) ==
    /\ pc[c] = "copy"
    /\ \/ /\ files' = [files EXCEPT ![cmd[c].skill] = "whole"]
          /\ Goto(c, IF cmd[c].skill \in Plugins THEN "install" ELSE "restart")
          /\ NoFault /\ UNCHANGED cmd
       \/ /\ \E left \in {"none", "part", "whole"} :
                files' = [files EXCEPT ![cmd[c].skill] = left]
          /\ Fault /\ Return(c)
    /\ UNCHANGED <<config, backup, alive, loaded, history>>

\* OpenClaw records the install in openclaw.json.  A failed install is let
\* pass when OpenClaw knows the plugin all the same.
Install(c) ==
    /\ pc[c] = "install"
    /\ \/ /\ alive /\ config.valid /\ files[cmd[c].skill] = "whole"
          /\ config' = [config EXCEPT !.installs = @ \cup {cmd[c].skill},
                                       !.paths = @ \cup {cmd[c].skill}]
          /\ Goto(c, "backup") /\ NoFault /\ UNCHANGED cmd
       \/ /\ alive /\ files[cmd[c].skill] = "whole"
          /\ Fault /\ Goto(c, "backup") /\ UNCHANGED <<config, cmd>>
       \/ /\ ~alive \/ ~config.valid \/ files[cmd[c].skill] # "whole"
          /\ NoFault /\ Return(c) /\ UNCHANGED config
       \/ Fault /\ Return(c) /\ UNCHANGED config
    /\ UNCHANGED <<backup, files, alive, loaded, history>>

\* Mutant: the backup is left to the first deploy that finds none.
BackupOnce(c) ==
    /\ pc[c] = "backup"
    /\ Goto(c, "write")
    /\ backup' = IF backup.valid THEN backup ELSE config
    /\ UNCHANGED <<cmd, used, config, files, alive, loaded, history>>

Backup(c) ==
    /\ pc[c] = "backup"
    /\ Exec(c, backup' = config /\ Goto(c, "write") /\ UNCHANGED cmd, backup)
    /\ UNCHANGED <<config, files, alive, loaded, history>>

\* What a package's example-config.json makes of the plugins allowed and
\* enabled: a list it contains (plugins.allow) replaces the whole list.
Overlaid(entries, p) == IF p \in Listing THEN SUBSET Plugins ELSE {entries}

\* What is written is the configuration read at the start, merged with the
\* package's own and with the plugin enabled: what the install has recorded
\* since is written over.
Write(c) ==
    /\ pc[c] = "write"
    /\ Exec(c, /\ \E merged \in Overlaid(cmd[c].seen.entries, cmd[c].skill) :
                     /\ config' = [cmd[c].seen EXCEPT !.entries = merged \cup {cmd[c].skill}]
                     /\ displaced' = displaced \cup (cmd[c].seen.entries \ merged)
               /\ Goto(c, "restart") /\ UNCHANGED cmd, <<config, displaced>>)
    /\ UNCHANGED <<backup, files, alive, loaded, confirmed, tornBy, overlapped>>

\* What OpenClaw loads when it starts; it does not start without a valid
\* configuration.
Loadable ==
    IF config.valid THEN {s \in Pure \cup config.entries : files[s] = "whole"} ELSE {}

Restarted == alive' = config.valid /\ loaded' = Loadable

Restart(c) ==
    /\ pc[c] = "restart"
    /\ \/ Restarted /\ Goto(c, "validate") /\ NoFault /\ UNCHANGED cmd
       \/ /\ Fault /\ Return(c)
          /\ UNCHANGED <<alive, loaded>>
    /\ UNCHANGED <<config, backup, files, history>>

\* plugins info and skills info are asked; the doctor's answer is not used.
Validate(c) ==
    /\ pc[c] = "validate"
    /\ Exec(c, \/ /\ cmd[c].skill \in loaded
                  /\ Goto(c, "plan") /\ UNCHANGED cmd
               \/ cmd[c].skill \notin loaded /\ Return(c), <<>>)
    /\ UNCHANGED <<container, history>>

\* The recipe's operations.  A service deploy and a restart that fail say so in
\* a result nobody reads; a config sync renders into a staging directory the
\* container does not see; only an exception ends the plan.
RunPlan(c) ==
    /\ pc[c] = "plan" /\ cmd[c].plan # <<>>
    /\ \/ /\ cmd' = [cmd EXCEPT ![c].plan = Tail(@)]
          /\ \/ /\ Head(cmd[c].plan) \in {"reload", "restart"}
                /\ Restarted /\ NoFault
             \/ /\ Head(cmd[c].plan) \in {"reload", "restart"}
                /\ Fault /\ UNCHANGED <<alive, loaded>>
             \/ /\ Head(cmd[c].plan) \in {"service", "sync"}
                /\ NoFault /\ UNCHANGED <<alive, loaded>>
          /\ UNCHANGED pc
       \/ /\ Head(cmd[c].plan) \in {"service", "sync"}
          /\ Fault /\ Return(c) /\ UNCHANGED <<alive, loaded>>
    /\ UNCHANGED <<config, backup, files, history>>

AnswerOk(c) ==
    /\ pc[c] = "plan" /\ cmd[c].plan = <<>>
    /\ confirmed' = confirmed \cup {cmd[c].skill}
    /\ Return(c)
    /\ UNCHANGED <<container, used, displaced, tornBy, overlapped>>

\* A kill while openclaw.json or a package is being written may leave a part.
Kill ==
    /\ used.kills < MaxKills /\ ~Quiet /\ ~overlapped
    /\ used' = [used EXCEPT !.kills = @ + 1]
    /\ pc' = [c \in Commands |-> "idle"]
    /\ cmd' = [c \in Commands |-> NoCommand]
    /\ \/ UNCHANGED <<config, files, tornBy>>
       \/ \E c \in Commands :
             \/ /\ pc[c] \in {"sanitize", "write"}
                /\ config' = NoConfig /\ tornBy' = pc[c]
                /\ UNCHANGED files
             \/ /\ pc[c] = "copy"
                /\ files' = [files EXCEPT ![cmd[c].skill] = "part"]
                /\ UNCHANGED <<config, tornBy>>
    /\ UNCHANGED <<backup, alive, loaded, confirmed, displaced, overlapped>>

Init ==
    /\ config = EmptyConfig /\ backup = NoConfig
    /\ files = [s \in Skills |-> "none"]
    /\ alive = TRUE /\ loaded = {}
    /\ pc = [c \in Commands |-> "idle"]
    /\ cmd = [c \in Commands |-> NoCommand]
    /\ used = [commands |-> 0, failures |-> 0, kills |-> 0]
    /\ confirmed = {} /\ displaced = {} /\ tornBy = "none" /\ overlapped = FALSE

Work(c) ==
    \/ ReadConfig(c) \/ Sanitize(c) \/ Wipe(c) \/ Copy(c) \/ Install(c)
    \/ Backup(c) \/ Write(c) \/ Restart(c) \/ Validate(c)
    \/ RunPlan(c) \/ AnswerOk(c)

Next == Kill \/ \E c \in Commands : Begin(c) \/ Work(c)

Spec == Init /\ [][Next]_vars

-----------------------------------------------------------------------------

\* The types of the variables; a deploy works on a configuration it could parse.
SkillTypeOK ==
    /\ config \in Config /\ backup \in Config
    /\ files \in [Skills -> {"none", "part", "whole"}]
    /\ alive \in BOOLEAN /\ loaded \subseteq Skills
    /\ pc \in [Commands -> Steps]
    /\ confirmed \subseteq Skills /\ displaced \subseteq Plugins
    /\ \A c \in Commands : cmd[c].skill \in Skills \cup {"none"} /\ cmd[c].seen.valid

\* Without overlap, a skill whose deploy answered ok stays enabled, in place
\* and loaded, whatever becomes of later deploys of other skills, unless the
\* package of one of them lists the allowed plugins without it: as long as the
\* configuration is readable and the container up.
ConfirmedStays ==
    (~overlapped /\ config.valid) =>
        /\ confirmed \cap Plugins \subseteq config.entries \cup displaced
        /\ \A s \in confirmed : files[s] = "whole"
        /\ alive => confirmed \subseteq loaded \cup displaced

\* Without overlap, if the last write of openclaw.json is cut short the backup
\* beside it is whole and enables every plugin that was confirmed, but for those
\* an earlier package's lists took out.
BackupCoversTornWrite ==
    (~overlapped /\ tornBy = "write" /\ ~config.valid) =>
        /\ backup.valid
        /\ confirmed \cap Plugins \subseteq backup.entries \cup displaced

=============================================================================
