----------------------------- MODULE RepoCache -----------------------------
(***************************************************************************)
(* The cached checkout of one repository in the archived Python gateway    *)
(* (repos/src/moltbox_repos/adapters.py) and its upstream mirror.          *)
(*                                                                         *)
(* Every command that needs the repository brings the cache up to date     *)
(* under a lock file and reads HEAD and the files after it has released    *)
(* the lock.  A lock file is stolen when it is old, whoever made it, and   *)
(* removed by whoever leaves, whoever made it.  Refresh and seed pull into *)
(* the same checkout without the lock.                                     *)
(***************************************************************************)
EXTENDS Integers

CONSTANTS
    Commands,      \* commands, each a thread or a process of its own
    MaxRevision,   \* bound: commits pushed upstream
    MaxCommands,   \* bound: commands started
    MaxFailures,   \* bound: git calls that fail
    MaxKills,      \* bound: commands killed
    MaxSleeps,     \* sleeps before the wait for the lock times out
    Stale          \* age at which a lock is stolen

VARIABLES
    local,         \* whether the configured source is a path: then it is the mirror
    origin,        \* the newest commit upstream
    mirror,        \* the upstream mirror
    cache,         \* the cached checkout
    index,         \* the command whose git process works in the cache, Dead or Free
    lock,          \* the lock file, by who made it and how old it is
    pc, cmd,       \* the step each command is about to take, and its locals
    used,          \* how much of each bound is used up
    stolen         \* history: a command has removed a lock it took for stale

vars == <<local, origin, mirror, cache, index, lock, pc, cmd, used, stolen>>

Commits == 1..MaxRevision

\* No directory; a directory git cannot work in.
None == 0
Broken == -1

Checkout == Commits \cup {None, Broken}

Free == "free"
Dead == "dead"   \* a killed git leaves its own index.lock behind

NoLock == [by |-> Free, age |-> 0]
LockFile == [by : Commands \cup {Dead}, age : 0..Stale] \cup {NoLock}

\* since: the source when the command started; seen: the head it reported;
\* left: sleeps until it gives up.
Command == [op : {"none", "checkout", "refresh", "seed"}, since : Checkout,
            seen : Checkout, left : 0..MaxSleeps]

NoCommand == [op |-> "none", since |-> None, seen |-> None, left |-> MaxSleeps]

Steps == {"idle", "lock", "age", "steal", "inside", "clone", "pulling",
          "release", "head", "read", "mirror", "cache", "refresh_pull"}

-----------------------------------------------------------------------------

\* Where the cache is cloned and pulled from.
Source == IF local THEN mirror ELSE origin

\* What a fast-forward pull of content theirs makes of ours.
Pulled(ours, theirs) == IF theirs > ours THEN theirs ELSE ours

Goto(c, step) == pc' = [pc EXCEPT ![c] = step]

Return(c) == Goto(c, "idle") /\ cmd' = [cmd EXCEPT ![c] = NoCommand]

\* The command leaves the lock's block by an exception.
Raise(c) == Goto(c, "release") /\ cmd' = [cmd EXCEPT ![c].op = "none"]

Fault == used.failures < MaxFailures /\ used' = [used EXCEPT !.failures = @ + 1]

NoFault == UNCHANGED used

Begin(c) ==
    /\ pc[c] = "idle" /\ used.commands < MaxCommands
    /\ used' = [used EXCEPT !.commands = @ + 1]
    /\ \E op \in {"checkout", "refresh", "seed"} :
          /\ cmd' = [cmd EXCEPT ![c].op = op, ![c].since = Source]
          /\ Goto(c, IF op = "checkout" THEN "lock" ELSE "mirror")
    /\ UNCHANGED <<local, origin, mirror, cache, index, lock, stolen>>

Push ==
    /\ origin < MaxRevision
    /\ origin' = origin + 1
    /\ UNCHANGED <<local, mirror, cache, index, lock, pc, cmd, used, stolen>>

-----------------------------------------------------------------------------
(* The lock file.                                                          *)

\* The lock file is created if it does not exist.
TakeLock(c) ==
    /\ pc[c] = "lock"
    /\ \/ /\ lock = NoLock
          /\ lock' = [by |-> c, age |-> 0]
          /\ Goto(c, "inside")
       \/ /\ lock # NoLock
          /\ Goto(c, "age") /\ UNCHANGED lock
    /\ UNCHANGED <<local, origin, mirror, cache, index, cmd, used, stolen>>

\* Wait for the lock, or give up at the deadline.
Wait(c) ==
    \/ /\ cmd[c].left > 0
       /\ cmd' = [cmd EXCEPT ![c].left = @ - 1]
       /\ Goto(c, "lock")
    \/ /\ cmd[c].left = 0
       /\ Return(c)

\* Mutant: a lock is removed as soon as it is found held.
ReadAgeImpatient(c) ==
    /\ pc[c] = "age"
    /\ \/ /\ lock # NoLock
          /\ lock' = NoLock
          /\ Goto(c, "lock") /\ UNCHANGED cmd
       \/ /\ lock = NoLock
          /\ Wait(c) /\ UNCHANGED lock
    /\ UNCHANGED <<local, origin, mirror, cache, index, used, stolen>>

\* Its age is looked up; a lock that has vanished by then counts as new.
ReadAge(c) ==
    /\ pc[c] = "age"
    /\ \/ /\ lock # NoLock /\ lock.age >= Stale
          /\ Goto(c, "steal") /\ UNCHANGED cmd
       \/ /\ lock = NoLock \/ lock.age < Stale
          /\ Wait(c)
    /\ UNCHANGED <<local, origin, mirror, cache, index, lock, used, stolen>>

\* The lock file of that name is removed, which need not be the one whose age
\* was read.
StealLock(c) ==
    /\ pc[c] = "steal"
    /\ \/ /\ lock # NoLock
          /\ lock' = NoLock /\ stolen' = TRUE
          /\ Goto(c, "lock") /\ UNCHANGED cmd
       \/ /\ lock = NoLock
          /\ Wait(c) /\ UNCHANGED <<lock, stolen>>
    /\ UNCHANGED <<local, origin, mirror, cache, index, used>>

\* The lock file of that name is removed, whoever made it.
Release(c) ==
    /\ pc[c] = "release"
    /\ lock' = NoLock
    /\ IF cmd[c].op = "none" THEN Return(c) ELSE Goto(c, "head") /\ UNCHANGED cmd
    /\ UNCHANGED <<local, origin, mirror, cache, index, used, stolen>>

-----------------------------------------------------------------------------
(* Bringing the cache up to date.                                          *)

\* git starts to pull into the cache; its index.lock makes another pull fail.
StartPull(c, next, failed) ==
    \/ /\ cache \in Commits /\ index = Free
       /\ index' = c
       /\ Goto(c, next) /\ NoFault /\ UNCHANGED cmd
    \/ /\ cache \in Commits /\ index # Free
       /\ failed /\ NoFault /\ UNCHANGED index
    \/ /\ cache \in Commits
       /\ failed /\ Fault /\ UNCHANGED index
    \/ /\ cache = Broken
       /\ failed /\ NoFault /\ UNCHANGED index

\* Mutant: the cache is not updated when it exists.
InsideNoPull(c) ==
    /\ pc[c] = "inside"
    /\ Goto(c, IF cache = None THEN "clone" ELSE "release")
    /\ UNCHANGED <<local, origin, mirror, cache, index, lock, cmd, used, stolen>>

\* A missing cache is cloned, an invalid one refused, any other pulled.
Inside(c) ==
    /\ pc[c] = "inside"
    /\ \/ /\ cache = None
          /\ Goto(c, "clone") /\ UNCHANGED <<index, cmd, used>>
       \/ StartPull(c, "pulling", Raise(c))
    /\ UNCHANGED <<local, origin, mirror, cache, lock, stolen>>

\* The clone is made beside the cache and moved in its place, where nothing
\* may be by then.
Clone(c) ==
    /\ pc[c] = "clone"
    /\ \/ /\ Source \in Commits /\ cache = None
          /\ cache' = Source
          /\ Goto(c, "release") /\ NoFault /\ UNCHANGED cmd
       \/ /\ Source \notin Commits \/ cache # None
          /\ Raise(c) /\ NoFault /\ UNCHANGED cache
       \/ Raise(c) /\ Fault /\ UNCHANGED cache
    /\ UNCHANGED <<local, origin, mirror, index, lock, stolen>>

\* The pull ends with what the source holds now.
EndPull(c, next, failed) ==
    \/ /\ Source \in Commits
       /\ cache' = Pulled(cache, Source)
       /\ Goto(c, next) /\ NoFault /\ UNCHANGED cmd
    \/ /\ Source \notin Commits
       /\ failed /\ NoFault /\ UNCHANGED cache

Pull(c) ==
    /\ pc[c] = "pulling"
    /\ index' = Free
    /\ EndPull(c, "release", Raise(c))
    /\ UNCHANGED <<local, origin, mirror, lock, stolen>>

\* HEAD is read when the lock is already released, ...
ReadHead(c) ==
    /\ pc[c] = "head"
    /\ cmd' = [cmd EXCEPT ![c].seen = cache]
    /\ Goto(c, "read")
    /\ UNCHANGED <<local, origin, mirror, cache, index, lock, used, stolen>>

\* ... and the files later still.
ReadFiles(c) ==
    /\ pc[c] = "read"
    /\ Return(c)
    /\ UNCHANGED <<local, origin, mirror, cache, index, lock, used, stolen>>

-----------------------------------------------------------------------------
(* Refreshing and seeding the mirror; both then pull into the cache.       *)

\* Refresh clones or pulls the mirror of a URL; a source given as a path must
\* be a checkout, and may have no remote to pull from.
RefreshMirror(c) ==
    /\ pc[c] = "mirror" /\ cmd[c].op = "refresh"
    /\ \/ /\ mirror = None /\ ~local
          /\ mirror' = origin /\ NoFault
          /\ cmd' = [cmd EXCEPT ![c].seen = origin] /\ Goto(c, "cache")
       \/ /\ mirror \in Commits
          /\ \E theirs \in IF local THEN {mirror, origin} ELSE {origin} :
                /\ mirror' = Pulled(mirror, theirs)
                /\ cmd' = [cmd EXCEPT ![c].seen = Pulled(mirror, theirs)]
          /\ Goto(c, "cache") /\ NoFault
       \/ /\ mirror = Broken \/ (mirror = None /\ local)
          /\ Return(c) /\ NoFault /\ UNCHANGED mirror
       \/ Return(c) /\ Fault /\ UNCHANGED mirror
    /\ UNCHANGED <<local, origin, cache, index, lock, stolen>>

\* Seed clones or pulls the mirror from a bundle, which holds any commit up to
\* the newest.
SeedMirror(c) ==
    /\ pc[c] = "mirror" /\ cmd[c].op = "seed"
    /\ \/ /\ mirror # Broken
          /\ \E bundle \in 1..origin :
                /\ mirror' = Pulled(mirror, bundle)
                /\ cmd' = [cmd EXCEPT ![c].seen = Pulled(mirror, bundle)]
          /\ Goto(c, "cache") /\ NoFault
       \/ /\ mirror = Broken
          /\ Return(c) /\ NoFault /\ UNCHANGED mirror
       \/ Return(c) /\ Fault /\ UNCHANGED mirror
    /\ UNCHANGED <<local, origin, cache, index, lock, stolen>>

\* A cache that does not exist is left to the next checkout.
RefreshCache(c) ==
    /\ pc[c] = "cache"
    /\ \/ /\ cache = None
          /\ Return(c) /\ UNCHANGED <<index, used>>
       \/ StartPull(c, "refresh_pull", Return(c))
    /\ UNCHANGED <<local, origin, mirror, cache, lock, stolen>>

\* Mutant: the cache is only looked up, as when it does not exist.
RefreshPullNothing(c) ==
    /\ pc[c] = "refresh_pull"
    /\ index' = Free
    /\ Return(c)
    /\ UNCHANGED <<local, origin, mirror, cache, lock, used, stolen>>

RefreshPull(c) ==
    /\ pc[c] = "refresh_pull"
    /\ index' = Free
    /\ cache' = Pulled(cache, Source)
    /\ Return(c)
    /\ UNCHANGED <<local, origin, mirror, lock, used, stolen>>

-----------------------------------------------------------------------------
(* Time and kills.                                                         *)

Age ==
    /\ lock # NoLock /\ lock.age < Stale
    /\ lock' = [lock EXCEPT !.age = @ + 1]
    /\ UNCHANGED <<local, origin, mirror, cache, index, pc, cmd, used, stolen>>

\* A killed command leaves its lock file and git's; killed while it clones the
\* mirror in place, it leaves a directory git cannot use.
Kill(c) ==
    /\ pc[c] # "idle" /\ used.kills < MaxKills
    /\ used' = [used EXCEPT !.kills = @ + 1]
    /\ Return(c)
    /\ lock' = IF lock.by = c THEN [lock EXCEPT !.by = Dead] ELSE lock
    /\ index' = IF index = c THEN Dead ELSE index
    /\ \/ UNCHANGED mirror
       \/ /\ pc[c] = "mirror" /\ mirror = None
          /\ cmd[c].op = "seed" \/ ~local
          /\ mirror' = Broken
    /\ UNCHANGED <<local, origin, cache, stolen>>

Init ==
    /\ local \in BOOLEAN
    /\ origin = 1
    /\ mirror \in {None, 1}
    /\ cache \in {None, Broken, 1}
    /\ index = Free /\ lock = NoLock
    /\ pc = [c \in Commands |-> "idle"]
    /\ cmd = [c \in Commands |-> NoCommand]
    /\ used = [commands |-> 0, failures |-> 0, kills |-> 0]
    /\ stolen = FALSE

Work(c) ==
    \/ TakeLock(c) \/ ReadAge(c) \/ StealLock(c) \/ Release(c)
    \/ Inside(c) \/ Clone(c) \/ Pull(c) \/ ReadHead(c) \/ ReadFiles(c)
    \/ RefreshMirror(c) \/ SeedMirror(c) \/ RefreshCache(c) \/ RefreshPull(c)

Next ==
    \/ \E c \in Commands : Begin(c) \/ Work(c) \/ Kill(c)
    \/ Push \/ Age

Spec == Init /\ [][Next]_vars

\* The processes are scheduled and every git call returns; nothing is assumed
\* of upstream or of kills.
FairSpec == Spec /\ \A c \in Commands : WF_vars(Work(c))

-----------------------------------------------------------------------------

\* The types of the variables: git's lock in the cache is held by a live
\* command or one that was killed, and the checkouts hold pushed commits.
CacheTypeOK ==
    /\ local \in BOOLEAN /\ stolen \in BOOLEAN
    /\ origin \in Commits
    /\ {mirror, cache} \subseteq (1..origin) \cup {None, Broken}
    /\ index \in Commands \cup {Free, Dead}
    /\ lock \in LockFile
    /\ pc \in [Commands -> Steps]
    /\ cmd \in [Commands -> Command]

\* Unless a lock was taken for stale, no two commands are in the block it
\* guards, whatever locks killed commands left behind.
LockExcludes ==
    ~stolen => \A c, d \in Commands :
        (/\ pc[c] \in {"inside", "clone", "pulling", "release"}
         /\ pc[d] \in {"inside", "clone", "pulling", "release"}) => c = d

\* The files a command goes on to use are at least as new as its source was
\* when it started, whatever is stolen, killed or refreshed meanwhile.
FreshRead ==
    \A c \in Commands : pc[c] \in {"head", "read"} => cache >= cmd[c].since

\* A refresh or a seed that answers has brought the cache at least to the head
\* it reports of the mirror, from a URL as from a path.
RefreshBringsCacheUp ==
    [][\A c \in Commands :
          (pc[c] = "refresh_pull" /\ pc'[c] = "idle" /\ used'.kills = used.kills)
          => cache' >= cmd[c].seen]_vars

\* Every command ends, behind a dead command's lock by its deadline.
CacheCommandsEnd == \A c \in Commands : (pc[c] # "idle") ~> (pc[c] = "idle")

=============================================================================
