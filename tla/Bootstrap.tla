----------------------------- MODULE Bootstrap -----------------------------
(***************************************************************************)
(* Bringing up the archived Python gateway on a remote host                *)
(* (scripts/bootstrap_remote_gateway.py): probe, prepare the storage       *)
(* roots, bring four checkouts up to date, deploy the gateway, probe its   *)
(* health, install the host's command.                                     *)
(*                                                                         *)
(* Every step is a call over ssh, which may fail or be cut short before or *)
(* after it did its work.  A failed bootstrap is repaired by running it    *)
(* again.  What docker does is modelled from how the script uses it.       *)
(***************************************************************************)
EXTENDS Integers

CONSTANTS
    MaxRevision,   \* bound: commits of each repository
    MaxPushes,     \* bound: pushes to any of them
    MaxRuns,       \* bound: runs of the script
    MaxFailures    \* bound: calls that fail, kills of the script included

VARIABLES
    origin,        \* the newest commit of each repository
    host,          \* what is on the host
    pc, run,       \* the step the script is about to take, and its locals
    bounds,        \* how much of each bound is used up
    fresh          \* history: the host had no gateway without a runtime cache

vars == <<origin, host, pc, run, bounds, fresh>>

Repos == {"gateway", "services", "runtime", "skills"}
Order == [n \in 0..3 |-> CASE n = 0 -> "gateway" [] n = 1 -> "services"
                           [] n = 2 -> "runtime" [] OTHER -> "skills"]

None == 0
Commits == 1..MaxRevision

\* --gateway-ref names a branch, not a commit.
Main == 0

\* head: the commit each upstream checkout is at; main: the gateway checkout's
\* local branch; gateway: the container; cache: the gateway's own checkout of
\* the runtime repository, "invalid" when it is a directory without .git.
Host == [roots : BOOLEAN, head : [Repos -> Commits \cup {None}],
         main : Commits \cup {None}, gateway : {"none", "down", "up"},
         cache : {"none", "git", "invalid"}, wrapper : BOOLEAN]

\* ref: --gateway-ref, the branch or a commit; since: origin at the start;
\* cloned: the gateway's checkout was cloned by this run; synced: how many
\* checkouts it has brought up to date; found: it found a gateway container.
NoRun == [ref |-> 1, since |-> [r \in Repos |-> 1],
          cloned |-> FALSE, synced |-> 0, found |-> FALSE]

Steps == {"idle", "detect", "probe", "prepare", "sync", "inspect", "deploy",
          "health", "wrapper", "ok"}

-----------------------------------------------------------------------------

Fault == bounds.failures < MaxFailures
         /\ bounds' = [bounds EXCEPT !.failures = @ + 1]

\* A call that turns the host into done: it goes on to step, or the script
\* ends with an error, whether or not the call has done its work.
Call(done, step) ==
    \/ host' = done /\ pc' = step /\ UNCHANGED bounds
    \/ host' \in {host, done} /\ pc' = "idle" /\ Fault

Begin ==
    /\ pc \in {"idle", "ok"} /\ bounds.runs < MaxRuns
    /\ bounds' = [bounds EXCEPT !.runs = @ + 1]
    /\ \E ref \in (1..origin["gateway"]) \cup {Main} :
          run' = [NoRun EXCEPT !.ref = ref, !.since = origin]
    /\ pc' = "detect"
    /\ UNCHANGED <<origin, host, fresh>>

Push ==
    /\ bounds.pushes < MaxPushes
    /\ bounds' = [bounds EXCEPT !.pushes = @ + 1]
    /\ \E r \in Repos : origin[r] < MaxRevision
                        /\ origin' = [origin EXCEPT ![r] = @ + 1]
    /\ UNCHANGED <<host, pc, run, fresh>>

\* The host must be Linux.
Detect ==
    /\ pc = "detect"
    /\ Call(host, "probe")
    /\ UNCHANGED <<origin, run, fresh>>

\* All five probes are made; any blocker ends the script.
Probe ==
    /\ pc = "probe"
    /\ Call(host, "prepare")
    /\ UNCHANGED <<origin, run, fresh>>

Prepare ==
    /\ pc = "prepare"
    /\ Call([host EXCEPT !.roots = TRUE], "sync")
    /\ UNCHANGED <<origin, run, fresh>>

-----------------------------------------------------------------------------
(* The checkouts under upstream/.                                          *)

\* The gateway's checkout: cloned, or fetched, and then put at the ref; the
\* local branch stays where the clone put it.
AtRef ==
    LET main == IF host.head["gateway"] = None THEN origin["gateway"] ELSE host.main
    IN [host EXCEPT !.main = main,
                    !.head["gateway"] = IF run.ref = Main THEN main ELSE run.ref]

\* A clone whose ref could not be checked out.
OnlyCloned == [host EXCEPT !.main = origin["gateway"],
                           !.head["gateway"] = origin["gateway"]]

SyncGateway ==
    /\ pc = "sync" /\ run.synced = 0
    /\ \/ Call(AtRef, "sync")
       \/ /\ host.head["gateway"] = None
          /\ host' = OnlyCloned /\ pc' = "idle" /\ Fault
    /\ run' = [run EXCEPT !.synced = 1, !.cloned = (host.head["gateway"] = None)]
    /\ UNCHANGED <<origin, fresh>>

\* Mutant: a checkout that exists is left as it is.
UpdatedIfMissing(r) ==
    IF host.head[r] = None THEN [host EXCEPT !.head[r] = origin[r]] ELSE host

\* The others: cloned, or pulled.
Updated(r) == [host EXCEPT !.head[r] = origin[r]]

\* Mutant: a checkout is always cloned, which fails where there is one.
SyncByClone ==
    /\ pc = "sync" /\ run.synced \in 1..3
    /\ LET r == Order[run.synced]
       IN IF host.head[r] = None
          THEN Call(Updated(r), IF run.synced = 3 THEN "inspect" ELSE "sync")
          ELSE pc' = "idle" /\ UNCHANGED <<host, bounds>>
    /\ run' = [run EXCEPT !.synced = @ + 1]
    /\ UNCHANGED <<origin, fresh>>

Sync ==
    /\ pc = "sync" /\ run.synced \in 1..3
    /\ Call(Updated(Order[run.synced]), IF run.synced = 3 THEN "inspect" ELSE "sync")
    /\ run' = [run EXCEPT !.synced = @ + 1]
    /\ UNCHANGED <<origin, fresh>>

-----------------------------------------------------------------------------
(* Deploying the gateway.                                                  *)

\* docker inspect: an error and a container that does not exist look alike.
Inspect ==
    /\ pc = "inspect" /\ pc' = "deploy"
    /\ \/ /\ run' = [run EXCEPT !.found = (host.gateway # "none")]
          /\ UNCHANGED bounds
       \/ /\ run' = [run EXCEPT !.found = FALSE] /\ Fault
    /\ UNCHANGED <<origin, host, fresh>>

\* Starting the helper container mounts the configuration file of the runtime
\* cache; docker makes a directory of a path that does not exist.
Mounted == IF host.cache = "none" THEN "invalid" ELSE host.cache

\* The deploy command itself first clones or pulls the runtime cache, and
\* refuses one that is not a checkout.
Cloned == IF host.cache = "none" THEN "git" ELSE host.cache

\* The cache the deploy command finds, by the image of the gateway found or
\* directly from the checkout.
Deploy ==
    LET cache == IF run.found THEN Mounted ELSE Cloned
    IN /\ pc = "deploy"
       /\ \/ /\ cache # "invalid"
             /\ host' = [host EXCEPT !.cache = cache, !.gateway = "up"]
             /\ pc' = "health" /\ UNCHANGED bounds
          \/ /\ cache # "invalid"
             /\ \/ host' = [host EXCEPT !.cache = cache]
                \/ \E left \in {"none", "down", "up"} :
                      host' = [host EXCEPT !.cache = cache, !.gateway = left]
                \/ UNCHANGED host
             /\ pc' = "idle" /\ Fault
          \/ /\ cache = "invalid"
             /\ host' = [host EXCEPT !.cache = cache]
             /\ pc' = "idle" /\ UNCHANGED bounds
       /\ UNCHANGED <<origin, run, fresh>>

Health ==
    /\ pc = "health"
    /\ Call(host, "wrapper")
    /\ UNCHANGED <<origin, run, fresh>>

InstallWrapper ==
    /\ pc = "wrapper"
    /\ Call([host EXCEPT !.wrapper = TRUE], "ok")
    /\ UNCHANGED <<origin, run, fresh>>

\* A host with nothing on it, or one an earlier installation has left its
\* gateway on.
Init ==
    /\ origin = [r \in Repos |-> 1]
    /\ \E gateway \in {"none", "up"}, cache \in {"none", "git"} :
          /\ host = [roots |-> FALSE, head |-> [r \in Repos |-> None],
                     main |-> None, gateway |-> gateway, cache |-> cache,
                     wrapper |-> FALSE]
          /\ fresh = (gateway = "none" \/ cache = "git")
    /\ pc = "idle" /\ run = NoRun
    /\ bounds = [runs |-> 0, failures |-> 0, pushes |-> 0]

Work ==
    \/ Detect \/ Probe \/ Prepare \/ SyncGateway \/ Sync
    \/ Inspect \/ Deploy \/ Health \/ InstallWrapper

Next == Begin \/ Work \/ Push

Spec == Init /\ [][Next]_vars

\* The script is run again until its runs are used up, and every call returns.
FairSpec == Spec /\ WF_vars(Begin) /\ WF_vars(Work)

-----------------------------------------------------------------------------

\* The types of the variables: no checkout is ahead of its origin, and the
\* gateway's is never somewhere without a local branch.
HostTypeOK ==
    /\ origin \in [Repos -> Commits]
    /\ host \in Host
    /\ \A r \in Repos : host.head[r] <= origin[r]
    /\ (host.main = None) <=> (host.head["gateway"] = None)
    /\ pc \in Steps /\ run.synced \in 0..4

\* A bootstrap that answers ok, after however many that failed half-way, has
\* the gateway up and its command installed, and the checkouts are no older
\* than their origins were when it started.  The gateway's checkout is at the
\* commit asked for; when a branch is asked for this only holds of a checkout
\* made by the same run.
OkMeansReady ==
    pc = "ok" =>
        /\ host.roots /\ host.wrapper
        /\ host.gateway = "up" /\ host.cache = "git"
        /\ \A r \in Repos \ {"gateway"} : host.head[r] >= run.since[r]
        /\ IF run.ref # Main THEN host.head["gateway"] = run.ref
           ELSE run.cloned => host.head["gateway"] >= run.since["gateway"]

\* Running the script again repairs what failed: with more runs than failures
\* one answers ok, unless the host had a gateway and no runtime cache.
RerunsRepair == fresh => <>(pc = "ok")

=============================================================================
