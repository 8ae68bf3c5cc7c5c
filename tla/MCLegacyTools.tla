--------------------------- MODULE MCLegacyTools ---------------------------
(***************************************************************************)
(* One run for the three parts of the first MoltBox CLI.  They share no    *)
(* state, so each behaviour follows one of them, its subject, and the      *)
(* others stay where they start.                                           *)
(***************************************************************************)
EXTENDS LegacyTarget

CONSTANTS Legacy, Pids, MaxServes

VARIABLES
    subject,
    file, legacy, registryPc, registryCmd, registryUsed, registryOverlapped,
    corrupted, dated,
    serverPc, pidfile, state, served, kills, alongside, reused

registryVars == <<file, legacy, registryPc, registryCmd, registryUsed,
                  registryOverlapped, corrupted, dated>>
serverVars == <<serverPc, pidfile, state, served, kills, alongside, reused>>
allVars == <<subject, vars, registryVars, serverVars>>

Registry == INSTANCE TargetRegistry WITH
    pc <- registryPc, cmd <- registryCmd, used <- registryUsed,
    overlapped <- registryOverlapped

Server == INSTANCE ToolsServer WITH pc <- serverPc, MaxKills <- MaxCommands - 1

\* No process has the identifier that stands for none, and the bounds are numbers.
ASSUME ToolsAssumption ==
    /\ Server!NoPid \notin Pids
    /\ MaxServes \in Nat /\ MaxCommands \in Nat \ {0}

ToolsInit ==
    /\ subject \in {"target", "registry", "server"}
    /\ Init
    /\ subject # "target" => runtime
    /\ Registry!Init
    /\ subject # "registry" => ~dated /\ \A name \in Legacy : legacy[name].is = "missing"
    /\ Server!Init

ToolsNext ==
    /\ UNCHANGED subject
    /\ \/ subject = "target" /\ Next /\ UNCHANGED <<registryVars, serverVars>>
       \/ subject = "registry" /\ Registry!Next /\ UNCHANGED <<vars, serverVars>>
       \/ subject = "server" /\ Server!Next /\ UNCHANGED <<vars, registryVars>>

TargetWork(c) ==
    /\ subject = "target" /\ Work(c)
    /\ UNCHANGED <<subject, registryVars, serverVars>>

ToolsSpec ==
    /\ ToolsInit /\ [][ToolsNext]_allVars
    /\ \A c \in Commands : WF_allVars(TargetWork(c))

-----------------------------------------------------------------------------

\* The types of all three parts: what runs was made from a compose.yml, a record is
\* only written with a date, at most one server listens.
ToolsTypeOK == TargetTypeOK /\ Registry!RegistryTypeOK /\ Server!ServerTypeOK

\* The migration of older records (registry_bootstrap.py) keeps their date.
CreationDateKept == Registry!CreationDateKept

\* Only overlapping commands meet a record that cannot be loaded.
CorruptedOnlyByOverlap == Registry!CorruptedOnlyByOverlap

\* A server that listens is reported ready, and one that is reported ready is
\* alive, whatever killed servers have left behind (health.py).
HealthTellsTruth == Server!ServingIsReported /\ Server!ReadyIsAlive

=============================================================================
