---------------------------- MODULE DeployStore ----------------------------
(***************************************************************************)
(* AppendDeployment of the deploy state store: the deployment history is    *)
(* one file, rewritten as a whole by every append under a lock file.        *)
(*                                                                         *)
(* withFileLock creates <path>.lock exclusively, retries every 10 ms for    *)
(* five seconds while it exists, and removes it when the write returns.     *)
(* writeFileAtomically writes and syncs a temporary file and renames it     *)
(* over the history, so readers and crashes see the old or the new content. *)
(* The lock is a file: it survives the process that created it.             *)
(*                                                                         *)
(* SaveReplayLog and SaveCheckpoint take the same lock on their own files   *)
(* and write a value computed earlier; RuntimeDeploy has them as one step.  *)
(***************************************************************************)
EXTENDS Integers, Sequences

CONSTANTS
    Writers,       \* request goroutines that append a record
    MaxAppends,    \* bound: appends started
    MaxFailures,   \* bound: file operations that fail
    MaxCrashes     \* bound: gateway processes killed

ASSUME StoreBoundsAssumption ==
    MaxAppends \in Nat /\ MaxFailures \in Nat /\ MaxCrashes \in Nat

VARIABLES
    file,          \* the records in deploy/history.jsonl
    locked,        \* whether the lock file exists
    pc,            \* the step each writer is about to take
    record,        \* the record each writer appends
    seen,          \* the content each writer has read
    confirmed,     \* records whose append returned without an error
    started,       \* appends started; the number names the record
    failures,      \* file operations that failed
    crashes        \* gateway crashes

vars == <<file, locked, pc, record, seen, confirmed, started, failures, crashes>>

Records == 1..MaxAppends

Steps == {"idle", "lock", "read", "write", "rename", "done", "failed"}

Goto(w, step) == pc' = [pc EXCEPT ![w] = step]

NoFault == failures' = failures

Fault == failures < MaxFailures /\ failures' = failures + 1

Submit(w) ==
    /\ pc[w] = "idle"
    /\ started < MaxAppends
    /\ started' = started + 1
    /\ record' = [record EXCEPT ![w] = started + 1]
    /\ Goto(w, "lock")
    /\ UNCHANGED <<file, locked, seen, confirmed, failures, crashes>>

\* Mutant: the lock file is opened without O_EXCL.
TakeLockShared(w) ==
    /\ pc[w] = "lock"
    /\ NoFault
    /\ locked' = TRUE
    /\ Goto(w, "read")
    /\ UNCHANGED <<file, record, seen, confirmed, started, crashes>>

TakeLock(w) ==
    /\ pc[w] = "lock"
    /\ ~locked
    /\ NoFault
    /\ locked' = TRUE
    /\ Goto(w, "read")
    /\ UNCHANGED <<file, record, seen, confirmed, started, crashes>>

\* The deadline passes while the lock file exists, or it cannot be created.
GiveUp(w) ==
    /\ pc[w] = "lock"
    /\ \/ locked /\ NoFault
       \/ ~locked /\ Fault
    /\ Goto(w, "idle")
    /\ UNCHANGED <<file, locked, record, seen, confirmed, started, crashes>>

ReadFile(w) ==
    /\ pc[w] = "read"
    /\ \/ /\ NoFault
          /\ seen' = [seen EXCEPT ![w] = file]
          /\ Goto(w, "write")
       \/ /\ Fault
          /\ Goto(w, "failed")
          /\ UNCHANGED seen
    /\ UNCHANGED <<file, locked, record, confirmed, started, crashes>>

\* Mutant: an error returns before the lock file is removed.
WriteTempForgetsLock(w) ==
    /\ pc[w] = "write"
    /\ \/ NoFault /\ Goto(w, "rename")
       \/ Fault /\ Goto(w, "idle")
    /\ UNCHANGED <<file, locked, record, seen, confirmed, started, crashes>>

\* Create, write, sync and close the temporary file; it is removed on error.
WriteTemp(w) ==
    /\ pc[w] = "write"
    /\ \/ NoFault /\ Goto(w, "rename")
       \/ Fault /\ Goto(w, "failed")
    /\ UNCHANGED <<file, locked, record, seen, confirmed, started, crashes>>

\* writeFileAtomically's last step; the content is what was read plus the record.
Rename(w) ==
    /\ pc[w] = "rename"
    /\ \/ /\ NoFault
          /\ file' = Append(seen[w], record[w])
          /\ Goto(w, "done")
       \/ /\ Fault
          /\ Goto(w, "failed")
          /\ UNCHANGED file
    /\ UNCHANGED <<locked, record, seen, confirmed, started, crashes>>

\* The deferred removal of the lock file, and the return to the caller.
Unlock(w) ==
    /\ pc[w] \in {"done", "failed"}
    /\ locked' = FALSE
    /\ confirmed' = IF pc[w] = "done" THEN confirmed \cup {record[w]} ELSE confirmed
    /\ Goto(w, "idle")
    /\ UNCHANGED <<file, record, seen, started, failures, crashes>>

\* The process is killed; the lock file stays as it is.
Crash ==
    /\ crashes < MaxCrashes
    /\ \E w \in Writers : pc[w] # "idle"
    /\ crashes' = crashes + 1
    /\ pc' = [w \in Writers |-> "idle"]
    /\ UNCHANGED <<file, locked, record, seen, confirmed, started, failures>>

Init ==
    /\ file = <<>>
    /\ locked = FALSE
    /\ pc = [w \in Writers |-> "idle"]
    /\ record = [w \in Writers |-> 0]
    /\ seen = [w \in Writers |-> <<>>]
    /\ confirmed = {}
    /\ started = 0 /\ failures = 0 /\ crashes = 0

Work(w) ==
    \/ TakeLock(w) \/ GiveUp(w) \/ ReadFile(w)
    \/ WriteTemp(w) \/ Rename(w) \/ Unlock(w)

Next ==
    \/ \E w \in Writers : Submit(w) \/ Work(w)
    \/ Crash

Spec == Init /\ [][Next]_vars

\* A goroutine keeps running; file operations return and the deadline of the
\* lock passes.
FairSpec == Spec /\ \A w \in Writers : WF_vars(Work(w))

-----------------------------------------------------------------------------
(* Properties *)

\* The steps a writer takes while it holds the lock.
Holding(w) == pc[w] \in {"read", "write", "rename", "done", "failed"}

TypeOK ==
    /\ file \in Seq(Records)
    /\ locked \in BOOLEAN
    /\ pc \in [Writers -> Steps]
    /\ record \in [Writers -> Records \cup {0}]
    /\ seen \in [Writers -> Seq(Records)]
    /\ confirmed \in SUBSET Records
    /\ started \in 0..MaxAppends
    /\ failures \in 0..MaxFailures
    /\ crashes \in 0..MaxCrashes

\* A writer about to rename rewrites the content the history has now, also
\* after crashes that left a lock file behind: no append is lost.
RewritesCurrentContent ==
    \A w \in Writers : pc[w] \in {"write", "rename"} => seen[w] = file

\* A lock that is taken is released again unless the gateway is killed: every
\* error path of a write removes the lock file.
LockReleased == locked ~> (~locked \/ crashes > 0)

History == INSTANCE AppendLog
    WITH entries <- file,
         pending <- {record[w] : w \in {v \in Writers : pc[v] # "idle"}}

\* The store keeps the promise of AppendLog, with any number of concurrent
\* appends, failing file operations and crashes.
ImplementsAppendLog == History!Spec
=============================================================================
