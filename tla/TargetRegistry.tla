--------------------------- MODULE TargetRegistry ---------------------------
(***************************************************************************)
(* The target records of the first MoltBox CLI (registry_bootstrap.py,     *)
(* registry_store.py).  Every command first migrates records of an older   *)
(* name, reconciles the record with what the code says it should be and    *)
(* loads it.  Records are written in place and nothing is locked.  One     *)
(* target is modelled, with the names it had before.                       *)
(***************************************************************************)
EXTENDS Integers

CONSTANTS
    Commands,      \* processes of the CLI
    Legacy,        \* names the target had before
    MaxCommands,   \* bound: commands started
    MaxKills       \* bound: commands killed

VARIABLES
    file,          \* the record of the target
    legacy,        \* the record under each older name
    pc, cmd,       \* the step each command is about to take, and its locals
    used,          \* how much of each bound is used up
    overlapped,    \* history: two commands have run at a time
    corrupted,     \* history: a command has answered "target registry corrupted"
    dated          \* history: at the start a record said when it was created

vars == <<file, legacy, pc, cmd, used, overlapped, corrupted, dated>>

\* When a record says it was created: by an older version, or since.
Dates == {"old", "new"}

\* current: the record is as the code has it now.
Whole == [is : {"whole"}, created : Dates, current : BOOLEAN]
Missing == [is |-> "missing", created |-> "new", current |-> FALSE]
Torn == [Missing EXCEPT !.is = "torn"]
File == Whole \cup {Missing, Torn}

\* payload: what a command has read and is about to write.
NoCommand == [payload |-> Missing]

Steps == {"idle", "look", "migrate", "migrate_write", "unlink", "reconcile",
          "reconcile_write", "load"}

-----------------------------------------------------------------------------

Goto(c, step) == pc' = [pc EXCEPT ![c] = step]

Return(c) == Goto(c, "idle") /\ cmd' = [cmd EXCEPT ![c] = NoCommand]

Quiet == \A c \in Commands : pc[c] = "idle"

Begin(c) ==
    /\ pc[c] = "idle" /\ used.commands < MaxCommands
    /\ used' = [used EXCEPT !.commands = @ + 1]
    /\ overlapped' = (overlapped \/ ~Quiet)
    /\ Goto(c, "look")
    /\ UNCHANGED <<file, legacy, cmd, corrupted, dated>>

\* A record under an older name is read if there is none under the new one; one
\* that cannot be parsed is passed over.
Look(c) ==
    /\ pc[c] = "look"
    /\ \/ /\ file = Missing
          /\ \E name \in Legacy :
                /\ legacy[name].is = "whole"
                /\ cmd' = [cmd EXCEPT ![c].payload = legacy[name]]
          /\ Goto(c, "migrate")
       \/ /\ file # Missing \/ \A name \in Legacy : legacy[name].is # "whole"
          /\ Goto(c, "unlink") /\ UNCHANGED cmd
    /\ UNCHANGED <<file, legacy, used, overlapped, corrupted, dated>>

\* A write truncates the file first.
OpenMigrated(c) ==
    /\ pc[c] = "migrate"
    /\ file' = Torn
    /\ Goto(c, "migrate_write")
    /\ UNCHANGED <<legacy, cmd, used, overlapped, corrupted, dated>>

WriteMigrated(c) ==
    /\ pc[c] = "migrate_write"
    /\ file' = cmd[c].payload
    /\ Goto(c, "unlink")
    /\ UNCHANGED <<legacy, cmd, used, overlapped, corrupted, dated>>

\* The records under older names go, whether or not one was migrated.
Unlink(c) ==
    /\ pc[c] = "unlink"
    /\ legacy' = [name \in Legacy |-> Missing]
    /\ Goto(c, "reconcile")
    /\ UNCHANGED <<file, cmd, used, overlapped, corrupted, dated>>

\* Mutant: the creation date is that of the code's own record.
ReconciledAnew(existing) == [is |-> "whole", current |-> TRUE, created |-> "new"]

\* What the record should be: a new one, or one that keeps its creation date.
Reconciled(existing) ==
    [is |-> "whole", current |-> TRUE,
     created |-> IF existing.is = "whole" THEN existing.created ELSE "new"]

\* Mutant: a record that is there is only rewritten when it can be parsed.
ReconcileParsed(c) ==
    /\ pc[c] = "reconcile"
    /\ \/ /\ file.is # "torn" /\ file # Reconciled(file)
          /\ cmd' = [cmd EXCEPT ![c].payload = Reconciled(file)]
          /\ file' = Torn
          /\ Goto(c, "reconcile_write")
       \/ /\ file.is = "torn" \/ file = Reconciled(file)
          /\ Goto(c, "load") /\ UNCHANGED <<file, cmd>>
    /\ UNCHANGED <<legacy, used, overlapped, corrupted, dated>>

\* A record that cannot be parsed counts as none.
Reconcile(c) ==
    /\ pc[c] = "reconcile"
    /\ \/ /\ file # Reconciled(file)
          /\ cmd' = [cmd EXCEPT ![c].payload = Reconciled(file)]
          /\ file' = Torn
          /\ Goto(c, "reconcile_write")
       \/ /\ file = Reconciled(file)
          /\ Goto(c, "load") /\ UNCHANGED <<file, cmd>>
    /\ UNCHANGED <<legacy, used, overlapped, corrupted, dated>>

WriteReconciled(c) ==
    /\ pc[c] = "reconcile_write"
    /\ file' = cmd[c].payload
    /\ Goto(c, "load")
    /\ UNCHANGED <<legacy, cmd, used, overlapped, corrupted, dated>>

\* The record is loaded; one that cannot be parsed ends the command.
Load(c) ==
    /\ pc[c] = "load"
    /\ corrupted' = (corrupted \/ file.is # "whole")
    /\ Return(c)
    /\ UNCHANGED <<file, legacy, used, overlapped, dated>>

Kill(c) ==
    /\ pc[c] # "idle" /\ used.kills < MaxKills
    /\ used' = [used EXCEPT !.kills = @ + 1]
    /\ Return(c)
    /\ UNCHANGED <<file, legacy, overlapped, corrupted, dated>>

\* Any of the records an older version may have left, or none.
Old == [is |-> "whole", created |-> "old", current |-> FALSE]

Init ==
    /\ file \in {Missing, Old}
    /\ legacy \in [Legacy -> {Missing, Torn, Old}]
    /\ dated = (file = Old \/ \E name \in Legacy : legacy[name] = Old)
    /\ pc = [c \in Commands |-> "idle"]
    /\ cmd = [c \in Commands |-> NoCommand]
    /\ used = [commands |-> 0, kills |-> 0]
    /\ overlapped = FALSE /\ corrupted = FALSE

Work(c) ==
    \/ Look(c) \/ OpenMigrated(c) \/ WriteMigrated(c) \/ Unlink(c)
    \/ Reconcile(c) \/ WriteReconciled(c) \/ Load(c)

Next == \E c \in Commands : Begin(c) \/ Work(c) \/ Kill(c)

Spec == Init /\ [][Next]_vars

-----------------------------------------------------------------------------

\* The types of the variables; a record without a date is only one to be.
RegistryTypeOK ==
    /\ file \in File /\ legacy \in [Legacy -> File]
    /\ pc \in [Commands -> Steps]
    /\ \A c \in Commands :
          pc[c] \in {"migrate", "migrate_write", "reconcile_write"}
          => cmd[c].payload \in Whole
    /\ {overlapped, corrupted, dated} \subseteq BOOLEAN

\* The date an older version recorded, under whatever name, is that of the
\* target's record for good, as long as commands neither overlap nor are killed.
CreationDateKept ==
    (dated /\ Quiet /\ used.commands > 0 /\ ~overlapped /\ used.kills = 0) =>
        file.is = "whole" /\ file.created = "old" /\ file.current

\* A command that runs alone always finds a record it can load, whatever
\* commands that were killed have left behind.
CorruptedOnlyByOverlap == corrupted => overlapped

=============================================================================
