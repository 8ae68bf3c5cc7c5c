---------------------------- MODULE ReplayState ----------------------------
(***************************************************************************)
(* The vocabulary of a runtime's deploy state: what the gateway keeps on    *)
(* disk about one runtime service and what that state promises.             *)
(*                                                                         *)
(* A runtime (openclaw-dev, openclaw-test, openclaw-prod) is rebuilt from   *)
(* a checkpoint and a replay log.  The checkpoint is a metadata file that   *)
(* lists the skills and plugins with their digests and names a snapshot     *)
(* directory; the replay log is the sequence of managed changes made since. *)
(* Skills and plugins are both "items" here: the code keeps them in         *)
(* separate lists with the same last-event-wins rule.  A digest is a        *)
(* member of Versions, and None says that the item is not there.            *)
(*                                                                         *)
(* Names are compared case-insensitively in some functions of the code and  *)
(* exactly in others; the model's items are already canonical names.        *)
(***************************************************************************)
EXTENDS Integers, Sequences, SequencesExt

CONSTANTS
    Skills,     \* names of pure skills (skills/<name>/SKILL.md)
    Plugins,    \* names of runtime plugins (openclaw.plugin.json)
    Versions,   \* digests a skill or a plugin can have
    None        \* the empty digest: the item is absent

ASSUME ItemsAssumption == Skills \cap Plugins = {}
ASSUME NoneAssumption == None \notin Versions

Items == Skills \cup Plugins

(***************************************************************************)
(* What a directory or a metadata list says about every item.              *)
(***************************************************************************)
Content == [Items -> Versions \cup {None}]

Empty == [i \in Items |-> None]

(***************************************************************************)
(* Replay events.  "version" is the digest of the item once installed; for  *)
(* a plugin_remove tombstone it is None.  "source" tells how a plugin was   *)
(* resolved: a package of the skills repository or a local directory.      *)
(***************************************************************************)
EventTypes == {"skill_install", "plugin_install", "plugin_remove"}
Sources == {"git", "local"}

SkillInstall == [id : Nat, type : {"skill_install"}, item : Skills,
                 version : Versions, source : Sources]
PluginInstall == [id : Nat, type : {"plugin_install"}, item : Plugins,
                  version : Versions, source : Sources]
PluginRemove == [id : Nat, type : {"plugin_remove"}, item : Plugins,
                 version : {None}, source : Sources]

Event == SkillInstall \cup PluginInstall \cup PluginRemove

Log == Seq(Event)

Checkpoint == [present : BOOLEAN, meta : Content, snapshot : Content]

NoCheckpoint == [present |-> FALSE, meta |-> Empty, snapshot |-> Empty]

(***************************************************************************)
(* The effective state: the loops of effectivePluginStateMap and           *)
(* ReplaySkillState run over the log in order and overwrite or delete the   *)
(* entry of each event's item, so the last event of an item decides, and an *)
(* item without events keeps what the checkpoint's metadata says.           *)
(***************************************************************************)
IsLast(log, i, k) ==
    /\ k \in DOMAIN log
    /\ log[k].item = i
    /\ \A j \in DOMAIN log : j > k => log[j].item # i

Effective(base, log) ==
    [i \in Items |->
        IF \E k \in DOMAIN log : IsLast(log, i, k)
        THEN log[CHOOSE k \in DOMAIN log : IsLast(log, i, k)].version
        ELSE base[i]]

(***************************************************************************)
(* latestReplaySkillEvent and latestReplayPluginEvent: the last install     *)
(* event of an item.  Tombstones of the item are skipped.                   *)
(***************************************************************************)
IsLatestInstall(log, i, k) ==
    /\ k \in DOMAIN log
    /\ log[k].item = i
    /\ log[k].type # "plugin_remove"
    /\ \A j \in DOMAIN log :
          j > k => ~(log[j].item = i /\ log[j].type # "plugin_remove")

HasInstall(log, i) == \E k \in DOMAIN log : IsLatestInstall(log, i, k)

LatestInstall(log, i) == CHOOSE k \in DOMAIN log : IsLatestInstall(log, i, k)

DropLatestInstall(log, i) == RemoveAt(log, LatestInstall(log, i))

(***************************************************************************)
(* orderedRuntimeReplayEvents: plugin events first, in log order, then the  *)
(* skill events, in log order.                                              *)
(***************************************************************************)
IsPluginEvent(e) == e.type # "skill_install"

Before(log, j, k) ==
    \/ IsPluginEvent(log[j]) /\ ~IsPluginEvent(log[k])
    \/ (IsPluginEvent(log[j]) <=> IsPluginEvent(log[k])) /\ j < k

\* Mutant: the events are replayed from the newest to the oldest.
LastToReplay(log, todo, k) ==
    k \in todo /\ \A j \in todo \ {k} : Before(log, j, k)

\* The event the replay loop takes next.
NextToReplay(log, todo, k) ==
    k \in todo /\ \A j \in todo \ {k} : Before(log, k, j)

(***************************************************************************)
(* copyTree onto a directory that may already hold something: the files of  *)
(* the source overwrite those of the destination and the others stay.       *)
(***************************************************************************)
Overlay(dir, source, copied) ==
    [i \in Items |-> IF i \in copied /\ source[i] # None THEN source[i] ELSE dir[i]]

=============================================================================
