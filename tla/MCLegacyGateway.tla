-------------------------- MODULE MCLegacyGateway --------------------------
(***************************************************************************)
(* One run for the four parts of the archived Python gateway: the service  *)
(* pipeline, the repository cache, skill deploys and the bootstrap of the  *)
(* remote host.  They share no state in these models, so each behaviour    *)
(* follows one of them, its subject, and the others stay where they start. *)
(***************************************************************************)
EXTENDS ServicePipeline, Sequences

CONSTANTS MaxRevision, MaxSleeps, Stale, Plugins, Pure, Listing, Short, MaxPushes, MaxRuns

VARIABLES
    subject,
    local, origin, mirror, cache, index, lock, repoPc, repoCmd, repoUsed,
    stolen,
    config, backup, files, alive, loaded, skillPc, skillCmd, skillUsed,
    confirmed, displaced, tornBy, skillOverlapped,
    hostOrigin, host, bootPc, run, bounds, fresh

repoVars == <<local, origin, mirror, cache, index, lock, repoPc, repoCmd,
              repoUsed, stolen>>
skillVars == <<config, backup, files, alive, loaded, skillPc, skillCmd,
               skillUsed, confirmed, displaced, tornBy, skillOverlapped>>
bootVars == <<hostOrigin, host, bootPc, run, bounds, fresh>>
allVars == <<subject, vars, repoVars, skillVars, bootVars>>

Repo == INSTANCE RepoCache WITH
    pc <- repoPc, cmd <- repoCmd, used <- repoUsed,
    MaxCommands <- MaxCommands - 1

\* A recipe without operations, and one with each kind.
Skill == INSTANCE SkillDeploy WITH
    pc <- skillPc, cmd <- skillCmd, used <- skillUsed,
    overlapped <- skillOverlapped,
    Plans <- {<<>>, <<"service", "sync", "reload">>}

Boot == INSTANCE Bootstrap WITH
    origin <- hostOrigin, pc <- bootPc, MaxFailures <- MaxFailures + 1

\* Commands are not named as the lock's states are.
ASSUME GatewayAssumption ==
    /\ Commands \cap {Repo!Free, Repo!Dead} = {}
    /\ MaxRevision \in Nat \ {0} /\ {MaxSleeps, Stale} \subseteq Nat

GatewayInit ==
    /\ subject \in {"pipeline", "repo", "skill", "boot"}
    /\ Init /\ Repo!Init /\ Skill!Init /\ Boot!Init
    /\ subject # "pipeline" => containers = Removed
    /\ subject # "repo" => ~local /\ mirror = 1 /\ cache = Repo!None
    /\ subject # "boot" => host.gateway = "none" /\ host.cache = "none"

GatewayNext ==
    /\ UNCHANGED subject
    /\ \/ subject = "pipeline" /\ Next /\ UNCHANGED <<repoVars, skillVars, bootVars>>
       \/ subject = "repo" /\ Repo!Next /\ UNCHANGED <<vars, skillVars, bootVars>>
       \/ subject = "skill" /\ Skill!Next /\ UNCHANGED <<vars, repoVars, bootVars>>
       \/ subject = "boot" /\ Boot!Next /\ UNCHANGED <<vars, repoVars, skillVars>>

PipelineWork(c) ==
    /\ subject = "pipeline" /\ Work(c)
    /\ UNCHANGED <<subject, repoVars, skillVars, bootVars>>

RepoWork(c) ==
    /\ subject = "repo" /\ Repo!Work(c)
    /\ UNCHANGED <<subject, vars, skillVars, bootVars>>

BootStep(step) ==
    /\ subject = "boot" /\ step
    /\ UNCHANGED <<subject, vars, repoVars, skillVars>>

\* The fairness of each part, as its own module justifies it.
GatewaySpec ==
    /\ GatewayInit /\ [][GatewayNext]_allVars
    /\ \A c \in Commands : WF_allVars(PipelineWork(c)) /\ WF_allVars(RepoWork(c))
    /\ WF_allVars(BootStep(Boot!Begin)) /\ WF_allVars(BootStep(Boot!Work))

-----------------------------------------------------------------------------

\* The types of all four parts: polls validate containers that are there,
\* checkouts hold pushed commits, a deploy works on a configuration it could parse.
GatewayTypeOK ==
    PipelineTypeOK /\ Repo!CacheTypeOK /\ Skill!SkillTypeOK /\ Boot!HostTypeOK

\* No two commands are inside the cache's lock unless one was stolen (adapters.py).
LockExcludes == Repo!LockExcludes

\* The files a command uses are as new as its source was at the start (adapters.py).
FreshRead == Repo!FreshRead

\* A refresh brings the cache to the head it reports (adapters.py).
RefreshBringsCacheUp == Repo!RefreshBringsCacheUp

\* Every command of the pipeline ends, whatever its containers do, and every
\* command of the cache, behind a dead command's lock too (engine.py, adapters.py).
EveryCommandEnds ==
    \A c \in Commands :
        (pc[c] # "idle" \/ repoPc[c] # "idle") ~> (pc[c] = "idle" /\ repoPc[c] = "idle")

\* A skill whose deploy answered ok stays deployed when others are, unless the
\* package of one of those lists the allowed plugins without it (skills.py).
ConfirmedStays == Skill!ConfirmedStays

\* The backup is whole when the last write of openclaw.json is cut short (skills.py).
BackupCoversTornWrite == Skill!BackupCoversTornWrite

\* A bootstrap that answers ok has all it promises (bootstrap_remote_gateway.py).
OkMeansReady == Boot!OkMeansReady

\* A bootstrap run again after failures answers ok (bootstrap_remote_gateway.py).
RerunsRepair == subject = "boot" => Boot!RerunsRepair

=============================================================================
