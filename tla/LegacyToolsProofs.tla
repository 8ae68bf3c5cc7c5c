-------------------------- MODULE LegacyToolsProofs --------------------------
(***************************************************************************)
(* The first command line, for any number of commands, revisions, older    *)
(* names, pids, failures and kills, one part per subject of MCLegacyTools:  *)
(*                                                                         *)
(*   tools server      what the pid file and the state file say of it      *)
(*   target registry   the record of a target and its creation date        *)
(*   target deploys    snapshots, OpenClaw's own entries, what is left     *)
(*                     running, what the record says                       *)
(*                                                                         *)
(* A deploy is proved along what its command knows at each step: what it   *)
(* has inspected, copied and read, and, counting what went wrong so far,   *)
(* whether the containers still run or can be brought back.  The last part *)
(* composes the three.                                                     *)
(***************************************************************************)
EXTENDS MCLegacyTools, TLAPS

-----------------------------------------------------------------------------
(* The tools server.                                                       *)

\* What a server has left in the two files by the time it is at a step.
Written(p) ==
    /\ serverPc[p] \in {"write_starting", "startup", "bind", "serving", "stopped",
                        "clear", "failed", "clear_failed"}
          => pidfile = p
    /\ serverPc[p] \in {"startup", "failed"} => state = "starting"
    /\ serverPc[p] \in {"bind", "serving", "stopped"} => state = "ready"
    /\ serverPc[p] = "clear" => state = "stopped"
    /\ serverPc[p] = "clear_failed" => state = "failed"
    /\ serverPc[p] \in {"check", "write_pid"} /\ ~reused => pidfile # p

\* As long as none is started beside another, one server runs, and the files are its.
OneServer ==
    ~alongside =>
        /\ \A p, q \in Server!Running : p = q
        /\ \A p \in Pids : Written(p)

ServerInv ==
    /\ Server!ServerTypeOK
    /\ alongside \in BOOLEAN /\ reused \in BOOLEAN
    /\ OneServer

LEMMA InitServer == Server!Init => ServerInv
<1> SUFFICES ASSUME Server!Init PROVE ServerInv
  OBVIOUS
<1>1. Server!ServerTypeOK
  <2>1. served \in 0..MaxServes /\ kills \in 0..(MaxCommands - 1)
    BY ToolsAssumption DEF Server!Init
  <2> QED
    BY <2>1 DEF Server!Init, Server!ServerTypeOK, Server!Steps, Server!States,
                Server!Listening
<1>2. OneServer
  BY DEF Server!Init, OneServer, Server!Running, Written
<1> QED
  BY <1>1, <1>2 DEF Server!Init, ServerInv

LEMMA ServerTypeKept ==
  ASSUME Server!ServerTypeOK, alongside \in BOOLEAN, reused \in BOOLEAN,
         [Server!Next]_(Server!vars)
  PROVE  Server!ServerTypeOK' /\ alongside' \in BOOLEAN /\ reused' \in BOOLEAN
<1> USE ToolsAssumption
    DEF Server!ServerTypeOK, Server!Goto, Server!Steps, Server!States, Server!Listening
<1>1. ASSUME NEW p \in Pids, Server!Start(p) \/ Server!Stop(p) \/ Server!Kill(p)
      PROVE  Server!ServerTypeOK' /\ alongside' \in BOOLEAN /\ reused' \in BOOLEAN
  <2>1. CASE Server!Start(p)
    <3>1. served' \in 0..MaxServes
      BY <2>1 DEF Server!Start
    <3> QED
      BY <2>1, <3>1 DEF Server!Start
  <2>2. CASE Server!Stop(p)
    BY <2>2 DEF Server!Stop
  <2>3. CASE Server!Kill(p)
    <3>1. kills' \in 0..(MaxCommands - 1)
      BY <2>3 DEF Server!Kill
    <3> QED
      BY <2>3, <3>1 DEF Server!Kill
  <2> QED
    BY <1>1, <2>1, <2>2, <2>3
<1>2. ASSUME NEW p \in Pids, Server!Work(p)
      PROVE  Server!ServerTypeOK' /\ alongside' \in BOOLEAN /\ reused' \in BOOLEAN
  <2>1. CASE Server!Check(p) \/ Server!Bind(p)
    BY <2>1 DEF Server!Check, Server!Bind
  <2>2. CASE Server!WritePid(p) \/ Server!WriteStarting(p) \/ Server!Startup(p)
    BY <2>2 DEF Server!WritePid, Server!WriteStarting, Server!Startup
  <2>3. CASE Server!WriteStopped(p) \/ Server!WriteFailed(p) \/ Server!ClearPid(p)
    BY <2>3 DEF Server!WriteStopped, Server!WriteFailed, Server!ClearPid
  <2> QED
    BY <1>2, <2>1, <2>2, <2>3 DEF Server!Work
<1>3. CASE UNCHANGED Server!vars
  BY <1>3 DEF Server!vars
<1> QED
  BY <1>1, <1>2, <1>3 DEF Server!Next

LEMMA OneServerKept ==
  ASSUME ServerInv, [Server!Next]_(Server!vars)
  PROVE  OneServer'
<1> USE DEF ServerInv, Server!ServerTypeOK, Server!Goto
<1>0. SUFFICES ASSUME ~alongside'
               PROVE  /\ \A p, q \in Server!Running' : p = q
                      /\ \A p \in Pids : Written(p)'
  BY DEF OneServer
<1>1. ASSUME NEW p \in Pids, Server!Start(p)
      PROVE  /\ \A q, r \in Server!Running' : q = r
             /\ \A q \in Pids : Written(q)'
  <2>1. ~alongside /\ Server!Running = {}
    BY <1>0, <1>1 DEF Server!Start
  <2>2. \A q \in Pids : q # p => serverPc'[q] = "gone"
    BY <1>1, <2>1 DEF Server!Start, Server!Running
  <2>3. Written(p)'
    BY <1>1 DEF Server!Start, Written
  <2> QED
    BY <2>2, <2>3 DEF Server!Running, Written
<1>2. ASSUME NEW p \in Pids, Server!Work(p) \/ Server!Stop(p) \/ Server!Kill(p)
      PROVE  /\ \A q, r \in Server!Running' : q = r
             /\ \A q \in Pids : Written(q)'
  <2> USE DEF Server!Work, Server!Check, Server!WritePid, Server!WriteStarting, Server!Startup,
          Server!Bind, Server!WriteStopped, Server!WriteFailed, Server!ClearPid, Server!Stop,
          Server!Kill
  <2>1. ~alongside /\ serverPc[p] # "gone"
    BY <1>0, <1>2
  <2>2. \A q \in Pids : q # p => serverPc[q] = "gone" /\ serverPc'[q] = "gone"
    BY <1>2, <2>1 DEF OneServer, Server!Running
  <2>3. Written(p)'
    BY <1>2, <2>1 DEF OneServer, Written
  <2> QED
    BY <2>2, <2>3 DEF Server!Running, Written
<1>3. CASE UNCHANGED Server!vars
  BY <1>0, <1>3 DEF Server!vars, OneServer, Server!Running, Written
<1> QED
  BY <1>1, <1>2, <1>3 DEF Server!Next

LEMMA ServerKept ==
  ASSUME ServerInv, [Server!Next]_(Server!vars)
  PROVE  ServerInv'
  BY ServerTypeKept, OneServerKept DEF ServerInv

LEMMA ServerTellsTruth ==
  ASSUME ServerInv
  PROVE  HealthTellsTruth
<1>1. Server!ServingIsReported
  BY DEF ServerInv, OneServer, Written, Server!ServingIsReported, Server!Listening,
         Server!Health, Server!Running
<1>2. Server!ReadyIsAlive
  <2> SUFFICES ASSUME Server!Health = "ready", ~alongside, ~reused
               PROVE  serverPc[pidfile] \in {"write_starting", "bind", "serving", "stopped"}
                      /\ pidfile \in Pids
    BY DEF Server!ReadyIsAlive
  <2>1. pidfile \in Server!Running /\ state \in {"none", "ready"}
    BY DEF Server!Health
  <2>2. pidfile \in Pids /\ serverPc[pidfile] # "gone" /\ Written(pidfile)
        /\ serverPc[pidfile] \in Server!Steps
    BY <2>1 DEF Server!Running, ServerInv, OneServer, Server!ServerTypeOK
  <2> QED
    BY <2>1, <2>2 DEF Written, Server!Steps
<1> QED
  BY <1>1, <1>2 DEF HealthTellsTruth
-----------------------------------------------------------------------------
(* The target registry.                                                    *)

RegistryTypes ==
    /\ Registry!RegistryTypeOK
    /\ registryCmd \in [Commands -> [payload : Registry!File]]
    /\ registryUsed \in [commands : Nat, kills : Nat]
    /\ registryOverlapped \in BOOLEAN /\ corrupted \in BOOLEAN

RegistryAlone ==
    ~registryOverlapped =>
        \A c, d \in Commands : registryPc[c] # "idle" /\ registryPc[d] # "idle" => c = d

\* A command that is alone has written or found what it is about to load.
Loadable ==
    ~registryOverlapped =>
        /\ ~corrupted
        /\ \A c \in Commands : registryPc[c] = "load" => file.is = "whole"

\* The record as the code has it, with the date an older version gave it.
Dated == [is |-> "whole", created |-> "old", current |-> TRUE]

\* A record of an older version is there, under the new name or an older one.
Found ==
    \/ file = Registry!Old
    \/ file = Registry!Missing /\ \E name \in Legacy : legacy[name] = Registry!Old

\* Where the date is when a command is at a step.
DateAt(c) ==
    CASE registryPc[c] = "look" -> Found \/ file = Dated
      [] registryPc[c] \in {"migrate", "migrate_write"} ->
            registryCmd[c].payload = Registry!Old
      [] registryPc[c] \in {"unlink", "reconcile"} -> file \in {Registry!Old, Dated}
      [] registryPc[c] = "reconcile_write" -> registryCmd[c].payload = Dated
      [] registryPc[c] = "load" -> file = Dated
      [] OTHER -> TRUE

DateKept ==
    (dated /\ ~registryOverlapped /\ registryUsed.kills = 0) =>
        /\ \A name \in Legacy : legacy[name].is = "whole" => legacy[name] = Registry!Old
        /\ Registry!Quiet => (registryUsed.commands = 0 /\ Found) \/ file = Dated
        /\ \A c \in Commands : DateAt(c)

RegistryInv == RegistryTypes /\ RegistryAlone /\ Loadable /\ DateKept

LEMMA InitRegistry == Registry!Init => RegistryInv
<1> SUFFICES ASSUME Registry!Init PROVE RegistryInv
  OBVIOUS
<1> USE DEF Registry!Init
<1>1. {Registry!Missing, Registry!Torn, Registry!Old} \subseteq Registry!File
  BY DEF Registry!Missing, Registry!Torn, Registry!Old, Registry!File, Registry!Whole,
         Registry!Dates
<1>2. Registry!NoCommand \in [payload : Registry!File]
  BY <1>1 DEF Registry!NoCommand
<1>3. RegistryTypes
  <2>1. dated \in BOOLEAN
    OBVIOUS
  <2> QED
    BY <1>1, <1>2, <2>1 DEF RegistryTypes, Registry!RegistryTypeOK, Registry!Steps
<1>4. RegistryAlone /\ Loadable
  BY DEF RegistryAlone, Loadable
<1>5. DateKept
  <2>1. \A name \in Legacy : legacy[name].is = "whole" => legacy[name] = Registry!Old
    BY DEF Registry!Missing, Registry!Torn
  <2>2. dated => Found
    BY DEF Found
  <2> QED
    BY <2>1, <2>2 DEF DateKept, DateAt
<1> QED
  BY <1>3, <1>4, <1>5 DEF RegistryInv

\* Reconciling gives a whole record, with the date it had.
LEMMA ReconciledWhole ==
  ASSUME NEW existing \in Registry!File
  PROVE  /\ Registry!Reconciled(existing) \in Registry!Whole
         /\ existing \in {Registry!Old, Dated} => Registry!Reconciled(existing) = Dated
<1>1. existing.is = "whole" => existing.created \in Registry!Dates
  <2>1. CASE existing \in Registry!Whole
    BY <2>1 DEF Registry!Whole
  <2>2. CASE existing \in {Registry!Missing, Registry!Torn}
    BY <2>2 DEF Registry!Missing, Registry!Torn, Registry!Dates
  <2> QED
    BY <2>1, <2>2 DEF Registry!File
<1>2. (IF existing.is = "whole" THEN existing.created ELSE "new") \in Registry!Dates
  BY <1>1 DEF Registry!Dates
<1>3. Registry!Reconciled(existing) \in Registry!Whole
  BY <1>2 DEF Registry!Reconciled, Registry!Whole
<1>4. existing \in {Registry!Old, Dated} => existing.is = "whole" /\ existing.created = "old"
  BY DEF Registry!Old, Dated
<1> QED
  BY <1>3, <1>4 DEF Registry!Reconciled, Dated

LEMMA RegistryTypesKept ==
  ASSUME RegistryTypes, [Registry!Next]_(Registry!vars)
  PROVE  RegistryTypes'
<1>0. /\ file \in Registry!File /\ legacy \in [Legacy -> Registry!File]
      /\ registryPc \in [Commands -> Registry!Steps]
      /\ registryCmd \in [Commands -> [payload : Registry!File]]
      /\ registryUsed \in [commands : Nat, kills : Nat]
      /\ {registryOverlapped, corrupted, dated} \subseteq BOOLEAN
      /\ \A c \in Commands :
            registryPc[c] \in {"migrate", "migrate_write", "reconcile_write"}
            => registryCmd[c].payload \in Registry!Whole
  BY DEF RegistryTypes, Registry!RegistryTypeOK
<1>1. /\ {Registry!Missing, Registry!Torn} \subseteq Registry!File
      /\ Registry!Whole \subseteq Registry!File
      /\ Registry!NoCommand \in [payload : Registry!File]
  BY DEF Registry!Missing, Registry!Torn, Registry!File, Registry!NoCommand
<1>2. \A f \in Registry!File : f.is = "whole" => f \in Registry!Whole
  BY DEF Registry!File, Registry!Missing, Registry!Torn
<1> USE DEF RegistryTypes, Registry!RegistryTypeOK, Registry!Goto, Registry!Return,
        Registry!Steps
<1>3. ASSUME NEW c \in Commands, Registry!Begin(c) \/ Registry!Kill(c)
      PROVE  RegistryTypes'
  <2>1. registryUsed' \in [commands : Nat, kills : Nat]
    BY <1>0, <1>3 DEF Registry!Begin, Registry!Kill
  <2>2. CASE Registry!Begin(c)
    BY <1>0, <1>1, <2>1, <2>2 DEF Registry!Begin
  <2>3. CASE Registry!Kill(c)
    BY <1>0, <1>1, <2>1, <2>3 DEF Registry!Kill
  <2> QED
    BY <1>3, <2>2, <2>3
<1>4. ASSUME NEW c \in Commands, Registry!Work(c)
      PROVE  RegistryTypes'
  <2>1. CASE Registry!Look(c)
    BY <1>0, <1>1, <1>2, <2>1 DEF Registry!Look
  <2>2. CASE Registry!OpenMigrated(c) \/ Registry!WriteMigrated(c) \/ Registry!Unlink(c)
    BY <1>0, <1>1, <2>2 DEF Registry!OpenMigrated, Registry!WriteMigrated, Registry!Unlink
  <2>3. CASE Registry!Reconcile(c)
    <3>1. Registry!Reconciled(file) \in Registry!Whole
      BY <1>0, ReconciledWhole
    <3> QED
      BY <1>0, <1>1, <2>3, <3>1 DEF Registry!Reconcile
  <2>4. CASE Registry!WriteReconciled(c) \/ Registry!Load(c)
    BY <1>0, <1>1, <2>4 DEF Registry!WriteReconciled, Registry!Load
  <2> QED
    BY <1>4, <2>1, <2>2, <2>3, <2>4 DEF Registry!Work
<1>5. CASE UNCHANGED Registry!vars
  BY <1>0, <1>5 DEF Registry!vars
<1> QED
  BY <1>3, <1>4, <1>5 DEF Registry!Next

\* A command's step changes no other command.
LEMMA RegistryOthers ==
  ASSUME RegistryTypes, NEW c \in Commands,
         Registry!Begin(c) \/ Registry!Work(c) \/ Registry!Kill(c)
  PROVE  /\ \A d \in Commands : d # c =>
              registryPc'[d] = registryPc[d] /\ registryCmd'[d] = registryCmd[d]
         /\ ~Registry!Begin(c) => registryPc[c] # "idle" /\ UNCHANGED registryOverlapped
         /\ UNCHANGED dated
  BY DEF RegistryTypes, Registry!RegistryTypeOK, Registry!Goto, Registry!Return, Registry!Begin,
         Registry!Work, Registry!Kill, Registry!Look, Registry!OpenMigrated,
         Registry!WriteMigrated, Registry!Unlink, Registry!Reconcile, Registry!WriteReconciled,
         Registry!Load

LEMMA RegistryAloneKept ==
  ASSUME RegistryTypes, RegistryAlone, [Registry!Next]_(Registry!vars)
  PROVE  RegistryAlone'
<1>1. ASSUME NEW c \in Commands, Registry!Begin(c)
      PROVE  RegistryAlone'
  <2>1. ~registryOverlapped' => \A d \in Commands : d # c => registryPc'[d] = "idle"
    BY <1>1, RegistryOthers DEF Registry!Begin, Registry!Quiet
  <2> QED
    BY <2>1 DEF RegistryAlone
<1>2. ASSUME NEW c \in Commands, Registry!Work(c) \/ Registry!Kill(c)
      PROVE  RegistryAlone'
  <2>1. ~Registry!Begin(c)
    BY <1>2 DEF Registry!Begin, Registry!Work, Registry!Kill, Registry!Look,
                Registry!OpenMigrated, Registry!WriteMigrated, Registry!Unlink,
                Registry!Reconcile, Registry!WriteReconciled, Registry!Load
  <2> QED
    BY <1>2, <2>1, RegistryOthers DEF RegistryAlone
<1>3. CASE UNCHANGED Registry!vars
  BY <1>3 DEF Registry!vars, RegistryAlone
<1> QED
  BY <1>1, <1>2, <1>3 DEF Registry!Next

\* When a step is over and nothing overlapped, no other command is at work.
LEMMA RegistryOneAtWork ==
  ASSUME RegistryTypes, RegistryAlone, NEW c \in Commands,
         Registry!Begin(c) \/ Registry!Work(c) \/ Registry!Kill(c), ~registryOverlapped'
  PROVE  /\ ~registryOverlapped
         /\ \A d \in Commands : d # c => registryPc[d] = "idle" /\ registryPc'[d] = "idle"
<1>1. CASE Registry!Begin(c)
  BY <1>1, RegistryOthers DEF Registry!Begin, Registry!Quiet
<1>2. CASE ~Registry!Begin(c)
  BY <1>2, RegistryOthers DEF RegistryAlone
<1> QED
  BY <1>1, <1>2

LEMMA LoadableKept ==
  ASSUME RegistryTypes, RegistryAlone, Loadable, [Registry!Next]_(Registry!vars)
  PROVE  Loadable'
<1>0. /\ file \in Registry!File /\ registryPc \in [Commands -> Registry!Steps]
      /\ \A c \in Commands :
            registryPc[c] \in {"migrate", "migrate_write", "reconcile_write"}
            => registryCmd[c].payload \in Registry!Whole
  BY DEF RegistryTypes, Registry!RegistryTypeOK
<1>1. SUFFICES ASSUME ~registryOverlapped'
               PROVE  /\ ~corrupted'
                      /\ \A c \in Commands : registryPc'[c] = "load" => file'.is = "whole"
  BY DEF Loadable
<1>2. ASSUME NEW c \in Commands, Registry!Begin(c) \/ Registry!Work(c) \/ Registry!Kill(c)
      PROVE  /\ ~corrupted'
             /\ \A d \in Commands : registryPc'[d] = "load" => file'.is = "whole"
  <2>1. /\ ~registryOverlapped
        /\ \A d \in Commands : d # c => registryPc'[d] = "idle"
    BY <1>1, <1>2, RegistryOneAtWork
  <2>2. ~corrupted /\ (registryPc[c] = "load" => file.is = "whole")
    BY <2>1 DEF Loadable
  <2>3. Registry!Reconciled(file) \in Registry!Whole
    BY <1>0, ReconciledWhole
  <2>4. ~corrupted' /\ (registryPc'[c] = "load" => file'.is = "whole")
    <3> USE <1>0, <2>2 DEF Registry!Goto, Registry!Return
    <3>1. CASE Registry!Begin(c) \/ Registry!Kill(c)
      BY <3>1 DEF Registry!Begin, Registry!Kill
    <3>5. CASE Registry!Load(c)
      BY <3>5 DEF Registry!Load
    <3>2. CASE \/ Registry!Look(c) \/ Registry!OpenMigrated(c)
               \/ Registry!WriteMigrated(c) \/ Registry!Unlink(c)
      BY <3>2 DEF Registry!Look, Registry!OpenMigrated, Registry!WriteMigrated, Registry!Unlink
    <3>3. CASE Registry!Reconcile(c)
      BY <2>3, <3>3 DEF Registry!Reconcile, Registry!Whole
    <3>4. CASE Registry!WriteReconciled(c)
      BY <3>4 DEF Registry!WriteReconciled, Registry!Whole
    <3> QED
      BY <1>2, <3>1, <3>2, <3>3, <3>4, <3>5 DEF Registry!Work
  <2> QED
    BY <2>1, <2>4
<1>3. CASE UNCHANGED Registry!vars
  BY <1>1, <1>3 DEF Registry!vars, Loadable
<1> QED
  BY <1>2, <1>3 DEF Registry!Next

LEMMA DateKeptKept ==
  ASSUME RegistryInv, [Registry!Next]_(Registry!vars)
  PROVE  DateKept'
<1> USE DEF RegistryInv
<1>0. /\ file \in Registry!File /\ legacy \in [Legacy -> Registry!File]
      /\ registryPc \in [Commands -> Registry!Steps]
      /\ registryCmd \in [Commands -> [payload : Registry!File]]
      /\ registryUsed \in [commands : Nat, kills : Nat]
  BY DEF RegistryTypes, Registry!RegistryTypeOK
<1>1. ASSUME NEW c \in Commands, Registry!Begin(c) \/ Registry!Work(c),
             dated', ~registryOverlapped', registryUsed'.kills = 0
      PROVE  /\ \A name \in Legacy : legacy'[name].is = "whole" => legacy'[name] = Registry!Old
             /\ Registry!Quiet' =>
                  (registryUsed'.commands = 0 /\ Found') \/ file' = Dated
             /\ \A d \in Commands : DateAt(d)'
  <2>1. /\ dated /\ ~registryOverlapped
        /\ \A d \in Commands : d # c => registryPc[d] = "idle" /\ registryPc'[d] = "idle"
    BY <1>1, RegistryOneAtWork, RegistryOthers
  <2>2. registryUsed.kills = 0
    BY <1>0, <1>1
    DEF Registry!Begin, Registry!Work, Registry!Look, Registry!OpenMigrated,
        Registry!WriteMigrated, Registry!Unlink, Registry!Reconcile,
        Registry!WriteReconciled, Registry!Load
  <2>3. /\ \A name \in Legacy : legacy[name].is = "whole" => legacy[name] = Registry!Old
        /\ Registry!Quiet => Found \/ file = Dated
        /\ DateAt(c)
    BY <2>1, <2>2 DEF DateKept
  <2>4. \A d \in Commands : d # c => DateAt(d)'
    BY <2>1 DEF DateAt
  <2>5. Registry!Quiet' <=> registryPc'[c] = "idle"
    BY <2>1 DEF Registry!Quiet
  <2> USE <1>0 DEF Registry!Goto
  <2>6. CASE Registry!Begin(c)
    <3>1. Registry!Quiet
      BY <1>1, <2>6 DEF Registry!Begin
    <3>2. registryPc'[c] = "look" /\ UNCHANGED <<file, legacy>>
      BY <2>6 DEF Registry!Begin
    <3>3. DateAt(c)'
      BY <2>3, <3>1, <3>2 DEF DateAt, Found
    <3> QED
      BY <2>3, <2>4, <2>5, <3>2, <3>3
  <2>7. CASE Registry!Look(c)
    <3>1. registryPc[c] = "look" /\ UNCHANGED <<file, legacy>>
      BY <2>7 DEF Registry!Look
    <3>2. Found \/ file = Dated
      BY <2>3, <3>1 DEF DateAt
    <3>3. CASE registryPc'[c] = "migrate"
      <4>1. registryCmd'[c].payload = Registry!Old
        BY <2>3, <2>7, <3>3 DEF Registry!Look
      <4> QED
        BY <2>3, <2>4, <2>5, <3>1, <3>3, <4>1 DEF DateAt
    <3>4. CASE registryPc'[c] = "unlink"
      <4>1. file # Registry!Missing \/ \A name \in Legacy : legacy[name].is # "whole"
        BY <2>7, <3>4 DEF Registry!Look
      <4>2. file \in {Registry!Old, Dated}
        BY <3>2, <4>1 DEF Found, Registry!Old
      <4> QED
        BY <2>3, <2>4, <2>5, <3>1, <3>4, <4>2 DEF DateAt
    <3> QED
      BY <2>7, <3>3, <3>4 DEF Registry!Look
  <2>8. CASE Registry!OpenMigrated(c)
    <3>1. registryPc[c] = "migrate" /\ registryPc'[c] = "migrate_write"
          /\ UNCHANGED <<legacy, registryCmd>>
      BY <2>8 DEF Registry!OpenMigrated
    <3> QED
      BY <2>3, <2>4, <2>5, <3>1 DEF DateAt
  <2>9. CASE Registry!WriteMigrated(c)
    <3>1. registryPc[c] = "migrate_write" /\ registryPc'[c] = "unlink"
          /\ file' = registryCmd[c].payload /\ UNCHANGED legacy
      BY <2>9 DEF Registry!WriteMigrated
    <3> QED
      BY <2>3, <2>4, <2>5, <3>1 DEF DateAt
  <2>10. CASE Registry!Unlink(c)
    <3>1. registryPc[c] = "unlink" /\ registryPc'[c] = "reconcile" /\ UNCHANGED file
      BY <2>10 DEF Registry!Unlink
    <3>2. \A name \in Legacy : legacy'[name].is # "whole"
      BY <2>10 DEF Registry!Unlink, Registry!Missing
    <3> QED
      BY <2>3, <2>4, <2>5, <3>1, <3>2 DEF DateAt
  <2>11. CASE Registry!Reconcile(c)
    <3>1. registryPc[c] = "reconcile" /\ UNCHANGED legacy
      BY <2>11 DEF Registry!Reconcile
    <3>2. Registry!Reconciled(file) = Dated
      BY <2>3, <3>1, ReconciledWhole DEF DateAt
    <3>3. \/ registryPc'[c] = "reconcile_write" /\ registryCmd'[c].payload = Dated
          \/ registryPc'[c] = "load" /\ file' = Dated
      BY <2>11, <3>2 DEF Registry!Reconcile
    <3> QED
      BY <2>3, <2>4, <2>5, <3>1, <3>3 DEF DateAt
  <2>12. CASE Registry!WriteReconciled(c)
    <3>1. registryPc[c] = "reconcile_write" /\ registryPc'[c] = "load"
          /\ file' = registryCmd[c].payload /\ UNCHANGED legacy
      BY <2>12 DEF Registry!WriteReconciled
    <3> QED
      BY <2>3, <2>4, <2>5, <3>1 DEF DateAt
  <2>13. CASE Registry!Load(c)
    <3>1. registryPc[c] = "load" /\ registryPc'[c] = "idle" /\ UNCHANGED <<file, legacy>>
      BY <2>13 DEF Registry!Load, Registry!Return
    <3> QED
      BY <2>3, <2>4, <3>1 DEF DateAt
  <2> QED
    BY <1>1, <2>6, <2>7, <2>8, <2>9, <2>10, <2>11, <2>12, <2>13 DEF Registry!Work
<1>2. ASSUME NEW c \in Commands, Registry!Kill(c)
      PROVE  registryUsed'.kills # 0
  BY <1>0, <1>2 DEF Registry!Kill
<1>3. CASE UNCHANGED Registry!vars
  BY <1>3 DEF Registry!vars, DateKept, DateAt, Found, Registry!Quiet
<1> QED
  BY <1>1, <1>2, <1>3 DEF Registry!Next, DateKept

LEMMA RegistryKept ==
  ASSUME RegistryInv, [Registry!Next]_(Registry!vars)
  PROVE  RegistryInv'
  BY RegistryTypesKept, RegistryAloneKept, LoadableKept, DateKeptKept DEF RegistryInv

LEMMA RegistryKeepsRecords ==
  ASSUME RegistryInv
  PROVE  /\ Registry!RegistryTypeOK
         /\ CreationDateKept
         /\ CorruptedOnlyByOverlap
<1>1. Registry!CreationDateKept
  <2>1. Dated.is = "whole" /\ Dated.created = "old" /\ Dated.current
    BY DEF Dated
  <2> QED
    BY <2>1 DEF RegistryInv, RegistryTypes, DateKept, Registry!CreationDateKept
<1> QED
  BY <1>1 DEF RegistryInv, RegistryTypes, Loadable, Registry!CorruptedOnlyByOverlap,
              CreationDateKept, CorruptedOnlyByOverlap

-----------------------------------------------------------------------------
(* The target: what holds of a command whatever the others do.             *)

Locals == [plan : Plans \cup {<<"config", "restart">>, <<>>}, dir : Revisions \cup {None},
           seen : Root, snap : Nat, ok : BOOLEAN, verdict : Verdicts, left : Nat,
           restored : BOOLEAN]

TargetTypes ==
    /\ TargetTypeOK
    /\ snaps \in Seq(Snapshot)
    /\ cmd \in [Commands -> Locals]
    /\ used \in [commands : Nat, failures : Nat, kills : Nat]
    /\ runtime \in BOOLEAN /\ written \in BOOLEAN /\ raced \in BOOLEAN
    /\ restaged \in BOOLEAN /\ overlapped \in BOOLEAN
    /\ \A c \in Commands : (pc[c] = "idle" => cmd[c] = NoCommand)
                           /\ (pc[c] # "idle" => cmd[c].plan # <<>>)

SnapSteps == {"snap_copy", "snap_meta", "snap_done"}
DeploySteps == SnapSteps \cup {"inspect", "seed", "sync", "synced", "remove", "up"}
RenderSteps == {"wipe", "render", "fill"}
StageSteps == {"unstage", "stage", "stage_open", "stage_write"}
MakingSteps == DeploySteps \cup RenderSteps \cup StageSteps \cup {"begin", "compose"}
RecordSteps == {"record", "write_record"}

\* The command undoes a deploy, or carries out a rollback.
Restoring(c) ==
    pc[c] \in {"restore", "restore_up"} \/ (pc[c] = "validate" /\ cmd[c].restored)

\* What a command knows at each of its steps.
Knows(c) ==
    /\ pc[c] \in SnapSteps \cup {"inspect", "remove", "up"} => Op(c) = "deploy"
    /\ pc[c] \in RecordSteps \cup {"validate", "restore", "restore_up"}
          => Op(c) \in {"deploy", "rollback"}
    /\ pc[c] \in MakingSteps =>
          cmd[c].ok /\ ~cmd[c].restored /\ cmd[c].verdict = "null"
    /\ pc[c] \in StageSteps => Op(c) = "config"
    /\ pc[c] \in RenderSteps => Op(c) # "config"
    /\ pc[c] \in RenderSteps \cup {"begin", "inspect"} => cmd[c].snap = 0
    /\ pc[c] \in SnapSteps \/ Restoring(c) => cmd[c].snap # 0
    /\ pc[c] \in {"restore", "restore_up"} => ~cmd[c].restored
    /\ Restoring(c) /\ Op(c) = "deploy" => ~cmd[c].ok
    /\ Restoring(c) /\ Op(c) = "rollback" => cmd[c].verdict = "null"
    /\ pc[c] = "validate" /\ ~cmd[c].restored => cmd[c].verdict = "null"
    /\ pc[c] \in DeploySteps /\ Op(c) = "deploy" => cmd[c].dir \in Revisions

CommandsKnow == \A c \in Commands : Knows(c)

TargetAlone ==
    ~overlapped =>
        \A c, d \in Commands : pc[c] # "idle" /\ pc[d] # "idle" => c = d

\* A render that is no runtime's is that of the command, if nothing overlaps.
OwnRender ==
    (~runtime /\ ~overlapped) =>
        \A c \in Commands :
            /\ pc[c] \in DeploySteps /\ Op(c) = "deploy" => rendered = cmd[c].dir
            /\ pc[c] = "fill" => rendered \in {Torn, Part}

\* A snapshot has the whole of a render before it has any metadata.
CopyFirst ==
    (runtime \/ ~overlapped) =>
        /\ \A n \in 1..Len(snaps) : snaps[n].meta # "none" => snaps[n].copy \in Revisions
        /\ \A c \in Commands :
              (/\ pc[c] \in DeploySteps \cup {"validate", "restore", "restore_up"}
               /\ pc[c] # "snap_copy" /\ Op(c) = "deploy" /\ cmd[c].snap # 0)
              => snaps[cmd[c].snap].copy \in Revisions

\* The command stages a configuration, or has read what it is about to write.
AtStaging(c) == pc[c] \in Staging /\ Op(c) = "config"
Writing == {"stage_open", "stage_write", "sync", "synced"}

FindsStaged(c) ==
    /\ pc[c] \in {"seed", "stage_open"} /\ Op(c) = "config" => staged = "plain"
    /\ pc[c] = "sync" /\ Op(c) = "config"
          => staged = IF cmd[c].seen.own THEN "own" ELSE "plain"
    /\ pc[c] \in Writing => cmd[c].seen.valid

\* One command stages at a time, and finds there what it has staged, as long as
\* none is staged over another; that takes two commands at a time.
StagedAlone ==
    /\ restaged => overlapped
    /\ ~restaged =>
         /\ \A c, d \in Commands : AtStaging(c) /\ AtStaging(d) => c = d
         /\ \A c \in Commands : FindsStaged(c)

\* What OpenClaw wrote is in the file, or in what a command is about to write.
OwnIsKept ==
    (written /\ ~raced /\ ~restaged) =>
        /\ root.valid => root.own
        /\ \A c \in Commands : pc[c] \in Writing => cmd[c].seen.own

WentWrong == used.failures + used.kills

\* Only a command that was killed leaves a file that cannot be parsed.
RootIsWhole ==
    (~restaged /\ ~root.valid) =>
        used.kills > 0 \/ \E c \in Commands : pc[c] = "synced"

\* Where the containers are at each step of a deploy that has taken a snapshot.
Undoable(c) ==
    (pc[c] # "idle" /\ Op(c) = "deploy" /\ cmd[c].snap # 0) =>
        /\ pc[c] \in DeploySteps \ {"up"} => containers.up
        /\ pc[c] = "validate" /\ ~cmd[c].restored =>
              WentWrong > 0 \/ (containers.up /\ cmd[c].ok)
        /\ pc[c] \in {"restore", "restore_up"} => WentWrong > 0
        /\ pc[c] = "validate" /\ cmd[c].restored => containers.up
        /\ pc[c] \in RecordSteps /\ WentWrong <= 1 => containers.up

\* What a deploy found right is right.
Truthful(c) ==
    /\ (pc[c] \in RecordSteps \cup {"validate"} /\ Op(c) = "deploy" /\ cmd[c].ok)
          => containers = [rev |-> cmd[c].dir, up |-> TRUE]
    /\ (pc[c] \in RecordSteps /\ cmd[c].verdict = "pass" /\ WentWrong <= 1)
          => containers.up

DeploysHold == ~overlapped => \A c \in Commands : Undoable(c) /\ Truthful(c)

TargetInv ==
    /\ TargetTypes /\ CommandsKnow /\ TargetAlone /\ OwnRender /\ CopyFirst
    /\ StagedAlone /\ OwnIsKept /\ RootIsWhole /\ DeploysHold

-----------------------------------------------------------------------------
(* The target: types.                                                      *)

Rests == {<<"config", "restart">>, <<"restart">>}

LEMMA PlanGoesOn ==
  ASSUME NEW plan \in Plans \cup {<<"config", "restart">>}
  PROVE  /\ plan # <<>>
         /\ Len(plan) # 1 => Tail(plan) \in Rests
<1>1. CASE plan = <<"deploy", "config", "restart">>
  BY <1>1 DEF Rests
<1>2. CASE plan = <<"config", "restart">>
  BY <1>2 DEF Rests
<1>3. ASSUME NEW op, plan = <<op>>
      PROVE  plan # <<>> /\ Len(plan) = 1
  BY <1>3
<1> QED
  BY <1>1, <1>2, <1>3 DEF Plans

\* A command that is over goes idle or on with the rest of its plan.
LEMMA GoesOn ==
  ASSUME TargetTypes, NEW c \in Commands, pc[c] # "idle", Done(c) \/ Return(c)
  PROVE  \/ pc' = [pc EXCEPT ![c] = "idle"] /\ cmd' = [cmd EXCEPT ![c] = NoCommand]
         \/ \E plan \in Rests :
               /\ pc' = [pc EXCEPT ![c] = "begin"]
               /\ cmd' = [cmd EXCEPT ![c] = [NoCommand EXCEPT !.plan = plan]]
<1>1. cmd[c].plan \in Plans \cup {<<"config", "restart">>}
  BY DEF TargetTypes, Locals
<1> QED
  BY <1>1, PlanGoesOn DEF Done, Return, Goto

LEMMA NoCommandTyped ==
  /\ NoCommand \in Locals
  /\ \A plan \in Rests \cup Plans :
        /\ [NoCommand EXCEPT !.plan = plan] \in Locals
        /\ [NoCommand EXCEPT !.plan = plan].plan = plan
        /\ [NoCommand EXCEPT !.plan = plan].snap = 0
        /\ plan # <<>>
<1>1. NoCommand \in Locals
  BY TargetAssumption DEF NoCommand, Locals, Verdicts, Root
<1>2. \A plan \in Rests : plan # <<>> /\ plan \in Plans \cup {<<"config", "restart">>}
  BY DEF Rests, Plans
<1>3. \A plan \in Plans : plan # <<>>
  BY PlanGoesOn
<1>4. ASSUME NEW plan \in Rests \cup Plans
      PROVE  [NoCommand EXCEPT !.plan = plan] \in Locals
  <2>1. plan \in Plans \cup {<<"config", "restart">>, <<>>}
    BY <1>2
  <2> QED
    BY <1>1, <2>1 DEF Locals
<1>5. \A plan : [NoCommand EXCEPT !.plan = plan].plan = plan
                /\ [NoCommand EXCEPT !.plan = plan].snap = 0
  BY DEF NoCommand
<1> QED
  BY <1>1, <1>2, <1>3, <1>4, <1>5

\* What one command does is no change of another's step or locals.
LEMMA OthersStay ==
  ASSUME TargetTypes, NEW c \in Commands,
         Begin(c) \/ HostLifecycle(c) \/ Work(c) \/ Kill(c)
  PROVE  /\ \A d \in Commands : d # c => pc'[d] = pc[d] /\ cmd'[d] = cmd[d]
         /\ pc' = [pc EXCEPT ![c] = pc'[c]] /\ cmd' = [cmd EXCEPT ![c] = cmd'[c]]
         /\ runtime' = runtime
<1> USE DEF TargetTypes, TargetTypeOK, Goto, Return
<1>1. ASSUME Done(c), pc[c] # "idle"
      PROVE  /\ \A d \in Commands : d # c => pc'[d] = pc[d] /\ cmd'[d] = cmd[d]
             /\ pc' = [pc EXCEPT ![c] = pc'[c]] /\ cmd' = [cmd EXCEPT ![c] = cmd'[c]]
  BY <1>1, GoesOn
<1>2. CASE Begin(c) \/ HostLifecycle(c) \/ Kill(c)
  BY <1>2 DEF Begin, HostLifecycle, Kill
<1>3. CASE First(c) \/ Wipe(c) \/ Render(c) \/ Fill(c) \/ Inspect(c)
  BY <1>3 DEF First, Wipe, Render, Fill, Inspect, RenderFailed
<1>4. CASE CopySnapshot(c) \/ OpenMetadata(c) \/ WriteMetadata(c)
  BY <1>4 DEF CopySnapshot, OpenMetadata, WriteMetadata
<1>5. CASE Seed(c) \/ Remove(c) \/ Up(c)
  BY <1>5 DEF Seed, Remove, Up, Failed
<1>9. CASE Unstage(c) \/ Stage(c) \/ OpenStaged(c) \/ WriteStaged(c)
  BY <1>9 DEF Unstage, Stage, OpenStaged, WriteStaged
<1>6. CASE Validate(c) \/ Restore(c) \/ RestoreUp(c) \/ OpenRecord(c)
  BY <1>6 DEF Validate, Conclude, Restore, RestoreUp, RestoreFailed, OpenRecord
<1>7. CASE OpenRoot(c) \/ WriteRoot(c) \/ Compose(c) \/ WriteRecord(c)
  BY <1>1, <1>7 DEF OpenRoot, WriteRoot, Compose, WriteRecord
<1>8. runtime' = runtime
  BY DEF Begin, HostLifecycle, Work, Kill, First, Wipe, Render, Fill, Inspect, CopySnapshot,
         OpenMetadata, WriteMetadata, Unstage, Stage, Seed, OpenStaged, WriteStaged, OpenRoot,
         WriteRoot, Remove, Up, Compose, Validate, Restore, RestoreUp, OpenRecord, WriteRecord
<1> QED
  BY <1>2, <1>3, <1>4, <1>5, <1>6, <1>7, <1>8, <1>9 DEF Work


\* What the steps of docker and of a failure do to the containers and the bounds.
LEMMA ContainersTyped ==
  ASSUME containers \in Containers
  PROVE  /\ Removed \in Containers
         /\ \A dir \in Startable : [rev |-> dir, up |-> TRUE] \in Containers
         /\ \A up \in BOOLEAN :
               containers.rev # None => [containers EXCEPT !.up = up] \in Containers
  BY DEF Containers, Removed

\* Each disjunct of a step either fails or leaves the bounds alone.
UsedTyped == used' \in [commands : Nat, failures : Nat, kills : Nat]

LEMMA BoundsTyped ==
  ASSUME TargetTypes
  PROVE  /\ Fault \/ NoFault => UsedTyped
         /\ [used EXCEPT !.commands = @ + 1] \in [commands : Nat, failures : Nat, kills : Nat]
         /\ [used EXCEPT !.kills = @ + 1] \in [commands : Nat, failures : Nat, kills : Nat]
  BY DEF TargetTypes, Fault, NoFault, UsedTyped

\* The new locals of a command, in the terms its types need.
LocalsTyped(c) ==
    /\ cmd'[c] \in Locals
    /\ pc'[c] \in Steps
    /\ pc'[c] = "idle" => cmd'[c] = NoCommand
    /\ pc'[c] # "idle" => cmd'[c].plan # <<>>
    /\ cmd'[c].snap <= Len(snaps')

LEMMA ReturnTyped ==
  ASSUME TargetTypes, NEW c \in Commands, snaps' = snaps, pc[c] # "idle",
         Done(c) \/ Return(c)
  PROVE  LocalsTyped(c)
<1> USE DEF TargetTypes, TargetTypeOK, LocalsTyped, Steps
<1>1. CASE pc' = [pc EXCEPT ![c] = "idle"] /\ cmd' = [cmd EXCEPT ![c] = NoCommand]
  BY <1>1, NoCommandTyped DEF NoCommand
<1>2. ASSUME NEW plan \in Rests,
             pc' = [pc EXCEPT ![c] = "begin"],
             cmd' = [cmd EXCEPT ![c] = [NoCommand EXCEPT !.plan = plan]]
      PROVE  LocalsTyped(c)
  <2>1. /\ cmd'[c] \in Locals /\ cmd'[c].snap = 0
        /\ cmd'[c].plan = plan /\ plan # <<>>
    BY <1>2, NoCommandTyped
  <2>2. Len(snaps') \in Nat
    BY DEF TargetTypes
  <2> QED
    BY <1>2, <2>1, <2>2
<1> QED
  BY <1>1, <1>2, GoesOn

\* A change of the locals that keeps plan and snapshot.
LEMMA SameSnapTyped ==
  ASSUME TargetTypes, NEW c \in Commands, pc[c] # "idle", snaps' = snaps,
         NEW step \in Steps \ {"idle"}, pc' = [pc EXCEPT ![c] = step],
         NEW new \in Locals, cmd' = [cmd EXCEPT ![c] = new],
         new.plan = cmd[c].plan, new.snap = cmd[c].snap
  PROVE  LocalsTyped(c)
  BY DEF TargetTypes, TargetTypeOK, LocalsTyped, Locals

LEMMA FailedTyped ==
  ASSUME TargetTypes, NEW c \in Commands, pc[c] # "idle", snaps' = snaps, Failed(c)
  PROVE  LocalsTyped(c)
<1>1. CASE Op(c) # "deploy"
  BY <1>1, ReturnTyped DEF Failed
<1>2. CASE Op(c) = "deploy"
  <2> DEFINE new == [cmd[c] EXCEPT !.ok = FALSE]
  <2>1. new \in Locals /\ new.plan = cmd[c].plan /\ new.snap = cmd[c].snap
    BY DEF TargetTypes, Locals
  <2>2. pc' = [pc EXCEPT ![c] = "validate"] /\ cmd' = [cmd EXCEPT ![c] = new]
    BY <1>2 DEF Failed, Goto
  <2>3. "validate" \in Steps \ {"idle"}
    BY DEF Steps
  <2> HIDE DEF new
  <2> QED
    BY <2>1, <2>2, <2>3, SameSnapTyped
<1> QED
  BY <1>1, <1>2


SharedTyped ==
    /\ root' \in Root /\ staged' \in File /\ rendered' \in Content
    /\ containers' \in Containers
    /\ snaps' \in Seq(Snapshot) /\ Len(snaps) <= Len(snaps')
    /\ record' \in Record
    /\ written' \in BOOLEAN /\ raced' \in BOOLEAN /\ restaged' \in BOOLEAN
    /\ overlapped' \in BOOLEAN

LEMMA SharedStays ==
  ASSUME TargetTypes, UNCHANGED <<host, snaps, record, history>>
  PROVE  SharedTyped
  BY DEF TargetTypes, TargetTypeOK, SharedTyped, host, history

LEMMA SnapshotTyped ==
  ASSUME TargetTypes, UNCHANGED <<host, record, history>>,
         \/ snaps' = Append(snaps, [copy |-> Torn, meta |-> "none"])
         \/ \E n \in 1..Len(snaps), copy \in Content : snaps' = [snaps EXCEPT ![n].copy = copy]
         \/ \E n \in 1..Len(snaps), meta \in {"torn", "whole"} :
               snaps' = [snaps EXCEPT ![n].meta = meta]
  PROVE  SharedTyped
<1>1. snaps' \in Seq(Snapshot) /\ Len(snaps) <= Len(snaps')
  <2>1. [copy |-> Torn, meta |-> "none"] \in Snapshot
    BY DEF Snapshot, Content
  <2>2. CASE snaps' = Append(snaps, [copy |-> Torn, meta |-> "none"])
    BY <2>1, <2>2 DEF TargetTypes
  <2>3. ASSUME NEW n \in 1..Len(snaps), NEW s \in Snapshot, snaps' = [snaps EXCEPT ![n] = s]
        PROVE  snaps' \in Seq(Snapshot) /\ Len(snaps) <= Len(snaps')
    BY <2>3 DEF TargetTypes
  <2>4. \A n \in 1..Len(snaps), copy \in Content, meta \in {"torn", "whole"} :
           /\ [snaps[n] EXCEPT !.copy = copy] \in Snapshot
           /\ [snaps[n] EXCEPT !.meta = meta] \in Snapshot
    <3>1. \A n \in 1..Len(snaps) : snaps[n] \in Snapshot
      BY DEF TargetTypes
    <3> QED
      BY <3>1 DEF Snapshot
  <2>5. ASSUME NEW n \in 1..Len(snaps), NEW copy \in Content,
               snaps' = [snaps EXCEPT ![n].copy = copy]
        PROVE  snaps' \in Seq(Snapshot) /\ Len(snaps) <= Len(snaps')
    <3>1. snaps' = [snaps EXCEPT ![n] = [snaps[n] EXCEPT !.copy = copy]]
      BY <2>5
    <3> QED
      BY <2>3, <2>4, <3>1
  <2>6. ASSUME NEW n \in 1..Len(snaps), NEW meta \in {"torn", "whole"},
               snaps' = [snaps EXCEPT ![n].meta = meta]
        PROVE  snaps' \in Seq(Snapshot) /\ Len(snaps) <= Len(snaps')
    <3>1. None \in Content
      BY DEF Content
    <3>2. [snaps[n] EXCEPT !.meta = meta] \in Snapshot
      BY <2>4, <3>1
    <3>3. snaps' = [snaps EXCEPT ![n] = [snaps[n] EXCEPT !.meta = meta]]
      BY <2>6
    <3> QED
      BY <2>3, <3>2, <3>3
  <2> QED
    BY <2>2, <2>5, <2>6
<1> QED
  BY <1>1 DEF TargetTypes, TargetTypeOK, SharedTyped, host, history

LEMMA BeginTyped ==
  ASSUME TargetTypes, NEW c \in Commands, Begin(c) \/ HostLifecycle(c) \/ Kill(c)
  PROVE  LocalsTyped(c) /\ SharedTyped /\ UsedTyped
<1>1. CASE Begin(c)
  <2>1. PICK plan \in Plans : cmd' = [cmd EXCEPT ![c].plan = plan]
    BY <1>1 DEF Begin
  <2>2. cmd[c] = NoCommand /\ pc[c] = "idle" /\ pc' = [pc EXCEPT ![c] = "begin"]
    BY <1>1 DEF Begin, Accept, Goto, TargetTypes
  <2>3. LocalsTyped(c)
    BY <1>1, <2>1, <2>2, NoCommandTyped
    DEF LocalsTyped, TargetTypes, TargetTypeOK, Steps, Begin
  <2>4. SharedTyped /\ UsedTyped
    BY <1>1, BoundsTyped DEF Begin, TargetTypes, TargetTypeOK, SharedTyped, UsedTyped, host
  <2> QED
    BY <2>3, <2>4
<1>2. CASE HostLifecycle(c)
  <2>1. containers' \in Containers
    BY <1>2, ContainersTyped DEF HostLifecycle, TargetTypes, TargetTypeOK
  <2>2. /\ UNCHANGED <<root, staged, rendered, snaps, record, written, raced, restaged>>
        /\ overlapped' = (overlapped \/ ~Quiet)
        /\ used' = [used EXCEPT !.commands = @ + 1]
    BY <1>2 DEF HostLifecycle
  <2>4. SharedTyped /\ UsedTyped
    BY <2>1, <2>2, BoundsTyped DEF TargetTypes, TargetTypeOK, SharedTyped, UsedTyped
  <2>3. LocalsTyped(c)
    BY <1>2 DEF HostLifecycle, Accept, TargetTypes, TargetTypeOK, LocalsTyped
  <2> QED
    BY <2>3, <2>4
<1>3. CASE Kill(c)
  <2>1. LocalsTyped(c)
    BY <1>3, ReturnTyped DEF Kill
  <2> QED
    BY <1>3, <2>1, SharedStays, BoundsTyped DEF Kill, UsedTyped
<1> QED
  BY <1>1, <1>2, <1>3

LEMMA RenderFailedTyped ==
  ASSUME TargetTypes, NEW c \in Commands, pc[c] # "idle", snaps' = snaps, RenderFailed(c)
  PROVE  LocalsTyped(c)
<1>1. CASE Op(c) # "deploy"
  BY <1>1, ReturnTyped DEF RenderFailed
<1>2. CASE Op(c) = "deploy"
  <2> DEFINE new == [cmd[c] EXCEPT !.ok = FALSE]
  <2>1. new \in Locals /\ new.plan = cmd[c].plan /\ new.snap = cmd[c].snap
    BY DEF TargetTypes, Locals
  <2>2. pc' = [pc EXCEPT ![c] = "record"] /\ cmd' = [cmd EXCEPT ![c] = new]
    BY <1>2 DEF RenderFailed, Goto
  <2>3. "record" \in Steps \ {"idle"}
    BY DEF Steps
  <2> HIDE DEF new
  <2> QED
    BY <2>1, <2>2, <2>3, SameSnapTyped
<1> QED
  BY <1>1, <1>2

\* What a wipe leaves of a render.
LEMMA RemainsTyped == \A dir \in Content : Remains(dir) \subseteq Content
  BY DEF Remains, Content, Startable

LEMMA RenderTyped ==
  ASSUME TargetTypes, CommandsKnow, NEW c \in Commands,
         First(c) \/ Wipe(c) \/ Render(c) \/ Fill(c) \/ Inspect(c) \/ CopySnapshot(c)
         \/ OpenMetadata(c) \/ WriteMetadata(c)
  PROVE  LocalsTyped(c) /\ SharedTyped /\ UsedTyped
<1>0. /\ cmd[c] \in Locals /\ [cmd[c] EXCEPT !.ok = FALSE] \in Locals
      /\ \A n \in Nat : [cmd[c] EXCEPT !.snap = n] \in Locals
      /\ \A dir \in Revisions : [cmd[c] EXCEPT !.dir = dir] \in Locals
      /\ \A n \in DOMAIN snaps : n \in Nat /\ n <= Len(snaps)
      /\ cmd[c].snap <= Len(snaps) /\ Len(snaps) \in Nat
  <2>1. cmd[c] \in Locals /\ cmd[c].snap \in 0..Len(snaps) /\ snaps \in Seq(Snapshot)
    BY DEF TargetTypes, TargetTypeOK
  <2>2. Len(snaps) \in Nat /\ DOMAIN snaps = 1..Len(snaps)
    BY <2>1
  <2>3. /\ [cmd[c] EXCEPT !.ok = FALSE] \in Locals
        /\ \A n \in Nat : [cmd[c] EXCEPT !.snap = n] \in Locals
        /\ \A dir \in Revisions : [cmd[c] EXCEPT !.dir = dir] \in Locals
    BY <2>1 DEF Locals
  <2> QED
    BY <2>1, <2>2, <2>3
<1>1. cmd[c].snap # 0 => cmd[c].snap \in 1..Len(snaps)
  BY <1>0 DEF Locals
<1>2. UsedTyped
  BY BoundsTyped
  DEF First, Wipe, Render, Fill, Inspect, CopySnapshot, OpenMetadata, WriteMetadata, NoFault
<1>3. CASE First(c)
  <2>1. LocalsTyped(c)
    <3>1. CASE Return(c)
      BY <1>3, <3>1, ReturnTyped DEF First
    <3>2. CASE cmd' = cmd /\ pc'[c] \in {"unstage", "fill", "wipe"}
      BY <1>3, <3>2, <1>0 DEF First, LocalsTyped, Steps, TargetTypes
    <3>3. CASE cmd' = [cmd EXCEPT ![c].ok = FALSE] /\ pc' = [pc EXCEPT ![c] = "record"]
      BY <1>3, <3>3, <1>0 DEF First, LocalsTyped, Steps, TargetTypes, TargetTypeOK, Locals
    <3>4. ASSUME NEW n \in DOMAIN snaps, cmd' = [cmd EXCEPT ![c].snap = n],
                 pc' = [pc EXCEPT ![c] = "restore"]
          PROVE  LocalsTyped(c)
      BY <1>3, <3>4, <1>0 DEF First, LocalsTyped, Steps, TargetTypes, TargetTypeOK, Locals
    <3> QED
      BY <1>3, <3>1, <3>2, <3>3, <3>4 DEF First, Goto, Latest, TargetTypes, TargetTypeOK
  <2> QED
    BY <1>2, <1>3, <2>1, SharedStays DEF First
<1>4. CASE Wipe(c) \/ Render(c)
  <2>0. /\ pc[c] # "idle"
        /\ UNCHANGED <<runtime, root, staged, containers, snaps, record, history>>
    BY <1>4 DEF Wipe, Render
  <2>1. LocalsTyped(c)
    <3>1. CASE RenderFailed(c)
      BY <2>0, <3>1, RenderFailedTyped
    <3>2. CASE cmd' = cmd /\ pc' = [pc EXCEPT ![c] = "render"]
      BY <1>0, <2>0, <3>2 DEF LocalsTyped, Steps, TargetTypes, TargetTypeOK
    <3>3. CASE cmd' = cmd /\ pc' = [pc EXCEPT ![c] = "fill"]
      BY <1>0, <2>0, <3>3 DEF LocalsTyped, Steps, TargetTypes, TargetTypeOK
    <3> QED
      BY <1>4, <3>1, <3>2, <3>3 DEF Wipe, Render, Goto
  <2>2. rendered' \in Content
    <3>1. rendered \in Content /\ Torn \in Content /\ Part \in Content
      BY DEF TargetTypes, TargetTypeOK, Content, Startable
    <3> QED
      BY <1>4, <3>1, RemainsTyped DEF Wipe, Render
  <2> QED
    BY <1>2, <2>0, <2>1, <2>2 DEF TargetTypes, TargetTypeOK, SharedTyped, history
<1>5. CASE Fill(c)
  <2>0. /\ pc[c] # "idle"
        /\ UNCHANGED <<runtime, root, staged, containers, snaps, record, history>>
    BY <1>5 DEF Fill
  <2>1. LocalsTyped(c)
    <3>1. CASE RenderFailed(c)
      BY <2>0, <3>1, RenderFailedTyped
    <3>3. ASSUME NEW r \in Revisions, cmd' = [cmd EXCEPT ![c].dir = r],
                 pc'[c] \in {"inspect", "compose", "seed"}
          PROVE  LocalsTyped(c)
      BY <2>0, <3>3, <1>0 DEF LocalsTyped, Steps, TargetTypes, TargetTypeOK, Locals
    <3> QED
      BY <1>5, <3>1, <3>3 DEF Fill, Goto, TargetTypes, TargetTypeOK
  <2>2. rendered' \in Content
    <3>1. rendered \in Content /\ {Torn, Part} \subseteq Content /\ Revisions \subseteq Content
      BY DEF TargetTypes, TargetTypeOK, Content, Startable
    <3>2. \A rev \in Revisions : Filled(c, rev) \subseteq Content
      BY <3>1 DEF Filled
    <3> QED
      BY <1>5, <3>1, <3>2 DEF Fill
  <2> QED
    BY <1>2, <2>0, <2>1, <2>2 DEF TargetTypes, TargetTypeOK, SharedTyped, history
<1>6. CASE Inspect(c)
  <2>1. CASE snaps' = snaps /\ cmd' = cmd /\ pc' = [pc EXCEPT ![c] = "seed"]
    BY <1>0, <1>2, <1>6, <2>1, SharedStays
    DEF Inspect, LocalsTyped, Steps, TargetTypes, TargetTypeOK
  <2>2. CASE /\ snaps' = Append(snaps, [copy |-> Torn, meta |-> "none"])
             /\ cmd' = [cmd EXCEPT ![c].snap = Len(snaps) + 1]
             /\ pc' = [pc EXCEPT ![c] = "snap_copy"]
    <3>1. SharedTyped
      BY <1>6, <2>2, SnapshotTyped DEF Inspect
    <3>2. Len(snaps') = Len(snaps) + 1
      BY <2>2 DEF TargetTypes
    <3>4. /\ cmd'[c] \in Locals /\ cmd'[c].plan = cmd[c].plan
          /\ cmd'[c].snap = Len(snaps) + 1
      <4>1. cmd'[c] = [cmd[c] EXCEPT !.snap = Len(snaps) + 1]
        BY <2>2 DEF TargetTypes
      <4>2. [cmd[c] EXCEPT !.snap = Len(snaps) + 1] \in Locals
        <5>1. cmd[c] \in Locals /\ Len(snaps) + 1 \in Nat
          BY <1>0
        <5> QED
          BY <5>1 DEF Locals
      <4> QED
        BY <1>0, <4>1, <4>2 DEF Locals
    <3>3. LocalsTyped(c)
      BY <1>0, <1>6, <2>2, <3>2, <3>4
      DEF Inspect, LocalsTyped, Steps, TargetTypes, TargetTypeOK
    <3> QED
      BY <1>2, <3>1, <3>3
  <2> QED
    BY <1>6, <2>1, <2>2 DEF Inspect, Goto
<1>7. CASE CopySnapshot(c)
  <2>1. cmd[c].snap \in 1..Len(snaps)
    BY <1>1, <1>7 DEF CopySnapshot, CommandsKnow, Knows, SnapSteps
  <2>2. SharedTyped
    <3>1. CASE snaps' = snaps
      BY <1>7, <3>1, SharedStays DEF CopySnapshot
    <3>2. ASSUME NEW copy \in Content, snaps' = [snaps EXCEPT ![cmd[c].snap].copy = copy]
          PROVE  SharedTyped
      BY <1>7, <2>1, <3>2, SnapshotTyped DEF CopySnapshot
    <3>3. Dir(c) \in Content /\ {Torn, Part} \subseteq Content
      BY <1>0 DEF Dir, TargetTypes, TargetTypeOK, Locals, Content, Startable
    <3> QED
      BY <1>7, <3>1, <3>2, <3>3 DEF CopySnapshot
  <2>3. LocalsTyped(c)
    <3>1. Len(snaps') \in Nat /\ Len(snaps) <= Len(snaps')
      BY <1>0, <2>2 DEF SharedTyped
    <3> QED
      <4>1. /\ cmd'[c] \in Locals /\ cmd'[c].plan = cmd[c].plan
            /\ cmd'[c].snap = cmd[c].snap
        <5>1. cmd'[c] = cmd[c] \/ cmd'[c] = [cmd[c] EXCEPT !.ok = FALSE]
          BY <1>7 DEF CopySnapshot, TargetTypes
        <5> QED
          BY <1>0, <5>1 DEF Locals
      <4>2. /\ pc[c] # "idle" /\ pc'[c] \in {"snap_meta", "record"}
            /\ cmd[c].snap \in Nat
        BY <1>0, <1>7 DEF CopySnapshot, Goto, TargetTypes, TargetTypeOK, Locals
      <4> QED
        BY <1>0, <3>1, <4>1, <4>2 DEF LocalsTyped, Steps, TargetTypes
  <2> QED
    BY <1>2, <2>2, <2>3
<1>8. CASE OpenMetadata(c) \/ WriteMetadata(c)
  <2>1. cmd[c].snap \in 1..Len(snaps)
    BY <1>1, <1>8 DEF OpenMetadata, WriteMetadata, CommandsKnow, Knows, SnapSteps
  <2>2. SharedTyped
    BY <1>8, <2>1, SnapshotTyped DEF OpenMetadata, WriteMetadata
  <2>3. LocalsTyped(c)
    <3>1. Len(snaps') \in Nat /\ Len(snaps) <= Len(snaps')
      BY <1>0, <2>2 DEF SharedTyped
    <3> QED
      BY <1>0, <1>8, <3>1
      DEF OpenMetadata, WriteMetadata, Goto, LocalsTyped, Steps, TargetTypes, TargetTypeOK,
          Locals
  <2> QED
    BY <1>2, <2>2, <2>3
<1> QED
  BY <1>3, <1>4, <1>5, <1>6, <1>7, <1>8


\* What a command has read of openclaw.json is the only local a sync changes.
LEMMA SeenTyped ==
  ASSUME TargetTypes, NEW c \in Commands, pc[c] # "idle", snaps' = snaps,
         NEW step \in Steps \ {"idle"}, pc' = [pc EXCEPT ![c] = step],
         NEW seen \in Root, cmd' = [cmd EXCEPT ![c].seen = seen]
  PROVE  LocalsTyped(c)
<1> DEFINE new == [cmd[c] EXCEPT !.seen = seen]
<1>1. new \in Locals /\ new.plan = cmd[c].plan /\ new.snap = cmd[c].snap
  BY DEF TargetTypes, Locals
<1>2. cmd' = [cmd EXCEPT ![c] = new]
  OBVIOUS
<1> HIDE DEF new
<1> QED
  BY <1>1, <1>2, SameSnapTyped

\* A step that changes no local.
LEMMA SameLocalsTyped ==
  ASSUME TargetTypes, NEW c \in Commands, pc[c] # "idle", snaps' = snaps, cmd' = cmd,
         NEW step \in Steps \ {"idle"}, pc' = [pc EXCEPT ![c] = step]
  PROVE  LocalsTyped(c)
  BY DEF TargetTypes, TargetTypeOK, LocalsTyped

LEMMA StageTyped ==
  ASSUME TargetTypes, NEW c \in Commands,
         Unstage(c) \/ Stage(c) \/ OpenStaged(c) \/ WriteStaged(c)
  PROVE  LocalsTyped(c) /\ SharedTyped /\ UsedTyped
<1>1. UsedTyped
  BY BoundsTyped DEF Unstage, Stage, OpenStaged, WriteStaged, NoFault
<1>2. /\ pc[c] # "idle"
      /\ UNCHANGED <<root, rendered, containers, snaps, record, written, raced, overlapped>>
  BY DEF Unstage, Stage, OpenStaged, WriteStaged, history
<1>3. staged' \in File /\ restaged' \in BOOLEAN
  <2>1. staged \in File /\ restaged \in BOOLEAN /\ {"missing", "torn", "plain", "own"} = File
    BY DEF TargetTypes, TargetTypeOK, File
  <2>2. StagedBeside(c) \in BOOLEAN
    BY DEF StagedBeside
  <2>3. CASE Unstage(c)
    BY <2>1, <2>2, <2>3 DEF Unstage
  <2>4. CASE Stage(c) \/ OpenStaged(c) \/ WriteStaged(c)
    BY <2>1, <2>4 DEF Stage, OpenStaged, WriteStaged, history
  <2> QED
    BY <2>3, <2>4
<1>4. LocalsTyped(c)
  <2>1. CASE Return(c)
    BY <1>2, <2>1, ReturnTyped
  <2>2. ASSUME NEW step \in {"stage", "seed", "stage_write", "sync"},
               cmd' = cmd, pc' = [pc EXCEPT ![c] = step]
        PROVE  LocalsTyped(c)
    <3>1. step \in Steps \ {"idle"}
      BY DEF Steps
    <3> QED
      BY <1>2, <2>2, <3>1, SameLocalsTyped
  <2> QED
    BY <2>1, <2>2 DEF Unstage, Stage, OpenStaged, WriteStaged, Goto
<1> QED
  BY <1>1, <1>2, <1>3, <1>4 DEF SharedTyped, TargetTypes, TargetTypeOK

LEMMA SyncTyped ==
  ASSUME TargetTypes, NEW c \in Commands, Seed(c) \/ OpenRoot(c) \/ WriteRoot(c)
  PROVE  LocalsTyped(c) /\ SharedTyped /\ UsedTyped
<1>0. /\ cmd[c] \in Locals /\ cmd[c].seen \in Root
      /\ root \in Root /\ root.own \in BOOLEAN
  <2>1. cmd[c] \in Locals /\ root \in Root
    BY DEF TargetTypes, TargetTypeOK
  <2> QED
    BY <2>1 DEF Locals, Root
<1>1. UsedTyped
  BY BoundsTyped DEF Seed, OpenRoot, WriteRoot, NoFault
<1>2. AfterSync(c) \in {"remove", "compose"}
  BY DEF AfterSync
<1>3. {"sync", "synced", "stage_open", "remove", "compose"} \subseteq Steps \ {"idle"}
  BY DEF Steps
<1>4. CASE Seed(c)
  <2>0. pc[c] # "idle" /\ UNCHANGED <<host, snaps, record, history>>
    BY <1>4 DEF Seed
  <2>4. LocalsTyped(c)
    <3>1. CASE Failed(c)
      BY <2>0, <3>1, FailedTyped
    <3>2. CASE cmd' = cmd /\ (Goto(c, AfterSync(c)) \/ Goto(c, "sync"))
      BY <1>2, <1>3, <2>0, <3>2, SameLocalsTyped DEF Goto
    <3>3. CASE /\ cmd' = [cmd EXCEPT ![c].seen = [valid |-> TRUE, own |-> Merge(root)]]
               /\ Goto(c, "stage_open") \/ Goto(c, "sync")
      <4>1. [valid |-> TRUE, own |-> Merge(root)] \in Root
        BY <1>0 DEF Root, Merge
      <4> QED
        BY <1>3, <2>0, <3>3, <4>1, SeenTyped DEF Goto
    <3> QED
      BY <1>4, <3>1, <3>2, <3>3 DEF Seed
  <2> QED
    BY <1>1, <2>0, <2>4, SharedStays
<1>5. CASE OpenRoot(c)
  <2>0. /\ pc[c] # "idle"
        /\ UNCHANGED <<staged, rendered, containers, snaps, record, history>>
    BY <1>5 DEF OpenRoot
  <2>1. LocalsTyped(c)
    <3>1. CASE Done(c)
      BY <2>0, <3>1, ReturnTyped
    <3>2. CASE Goto(c, "synced")
      <4>1. PICK seen \in Root : cmd' = [cmd EXCEPT ![c].seen = seen]
        <5> DEFINE seen == IF Op(c) = "config"
                           THEN [valid |-> staged # "torn", own |-> staged = "own"]
                           ELSE cmd[c].seen
        <5>1. [valid |-> staged # "torn", own |-> staged = "own"] \in Root
          BY DEF Root
        <5>2. seen \in Root
          BY <1>0, <5>1
        <5>3. CASE cmd' = [cmd EXCEPT ![c].seen = seen]
          BY <5>2, <5>3
        <5>4. CASE Done(c)
          <6>1. pc'[c] = "synced" /\ pc'[c] \in {"idle", "begin"}
            BY <2>0, <3>2, <5>4, GoesOn DEF Goto, TargetTypes, TargetTypeOK
          <6> QED
            BY <6>1
        <5> QED
          BY <1>5, <5>3, <5>4 DEF OpenRoot
      <4> QED
        BY <1>3, <2>0, <3>2, <4>1, SeenTyped DEF Goto
    <3> QED
      BY <1>5, <3>1, <3>2 DEF OpenRoot
  <2>2. root' \in Root
    <3>1. [valid |-> FALSE, own |-> FALSE] \in Root
      BY DEF Root
    <3> QED
      BY <1>0, <1>5, <3>1 DEF OpenRoot
  <2> QED
    BY <1>1, <2>0, <2>1, <2>2 DEF TargetTypes, TargetTypeOK, SharedTyped, history
<1>6. CASE WriteRoot(c)
  <2>0. /\ pc[c] # "idle" /\ root' = cmd[c].seen
        /\ UNCHANGED <<staged, rendered, containers, snaps, record, history>>
    BY <1>6 DEF WriteRoot
  <2>1. LocalsTyped(c)
    <3>1. CASE Done(c)
      BY <2>0, <3>1, ReturnTyped
    <3>2. CASE cmd' = cmd /\ Goto(c, AfterSync(c))
      BY <1>2, <1>3, <2>0, <3>2, SameLocalsTyped DEF Goto
    <3> QED
      BY <1>6, <3>1, <3>2 DEF WriteRoot
  <2> QED
    BY <1>0, <1>1, <2>0, <2>1 DEF TargetTypes, TargetTypeOK, SharedTyped, history
<1> QED
  BY <1>4, <1>5, <1>6

\* compose up gives whole containers or none it had not.
LEMMA ComposeUpTyped ==
  ASSUME TargetTypes, NEW dir, ComposeUp(dir)
  PROVE  containers' \in Containers /\ UsedTyped
  BY ContainersTyped, BoundsTyped DEF ComposeUp, TargetTypes, TargetTypeOK

LEMMA MakeTyped ==
  ASSUME TargetTypes, NEW c \in Commands,
         Remove(c) \/ Up(c) \/ Compose(c) \/ Restore(c) \/ RestoreUp(c)
  PROVE  LocalsTyped(c) /\ SharedTyped /\ UsedTyped
<1>0. /\ cmd[c] \in Locals
      /\ \A ok \in BOOLEAN : [cmd[c] EXCEPT !.ok = ok] \in Locals
      /\ [cmd[c] EXCEPT !.restored = TRUE] \in Locals
      /\ cmd[c].ok \in BOOLEAN
  <2>1. cmd[c] \in Locals
    BY DEF TargetTypes
  <2> QED
    BY <2>1 DEF Locals
<1>1. containers' \in Containers /\ UsedTyped
  <2>1. CASE Remove(c) \/ Restore(c)
    BY <2>1, ContainersTyped, BoundsTyped DEF Remove, Restore, TargetTypes, TargetTypeOK
  <2>2. CASE Up(c) \/ RestoreUp(c)
    BY <2>2, ComposeUpTyped DEF Up, RestoreUp
  <2>3. CASE Compose(c)
    <3>1. (Op(c) # "stop") \in BOOLEAN
      OBVIOUS
    <3> QED
      BY <2>3, <3>1, ContainersTyped, BoundsTyped DEF Compose, TargetTypes, TargetTypeOK
  <2> QED
    BY <2>1, <2>2, <2>3
<1>2. SharedTyped
  <2>1. UNCHANGED <<root, staged, rendered, snaps, record, history>>
    BY DEF Remove, Restore, Up, RestoreUp, Compose, history
  <2> QED
    BY <1>1, <2>1 DEF SharedTyped, TargetTypes, TargetTypeOK, history
<1>3. LocalsTyped(c)
  <2>0. pc[c] # "idle" /\ snaps' = snaps
    BY DEF Remove, Restore, Up, RestoreUp, Compose
  <2>1. CASE Failed(c) \/ Done(c) \/ Return(c)
    BY <2>0, <2>1, FailedTyped, ReturnTyped
  <2>2. ASSUME NEW step \in Steps \ {"idle"}, pc' = [pc EXCEPT ![c] = step],
               \/ cmd' = cmd
               \/ \E ok \in BOOLEAN : cmd' = [cmd EXCEPT ![c].ok = ok]
               \/ cmd' = [cmd EXCEPT ![c].restored = TRUE]
        PROVE  LocalsTyped(c)
    <3>1. /\ cmd'[c] \in Locals /\ cmd'[c].plan = cmd[c].plan
          /\ cmd'[c].snap = cmd[c].snap
      <4>1. \/ cmd'[c] = cmd[c]
            \/ \E ok \in BOOLEAN : cmd'[c] = [cmd[c] EXCEPT !.ok = ok]
            \/ cmd'[c] = [cmd[c] EXCEPT !.restored = TRUE]
        BY <2>2 DEF TargetTypes
      <4> QED
        BY <1>0, <4>1 DEF Locals
    <3> QED
      BY <2>0, <2>2, <3>1 DEF LocalsTyped, TargetTypes, TargetTypeOK
  <2>3. {"up", "validate", "restore_up", "record"} \subseteq Steps \ {"idle"}
    BY DEF Steps
  <2>4. CASE Remove(c) \/ Restore(c) \/ RestoreUp(c)
    BY <2>1, <2>2, <2>3, <2>4 DEF Remove, Restore, RestoreUp, RestoreFailed, Goto
  <2>5. CASE Up(c)
    <3>1. (cmd[c].ok /\ Dir(c) \in Startable /\ used'.failures = used.failures) \in BOOLEAN
      BY <1>0
    <3> QED
      BY <2>2, <2>3, <2>5, <3>1 DEF Up, Goto
  <2> QED
    BY <2>1, <2>4, <2>5 DEF Compose
<1> QED
  BY <1>1, <1>2, <1>3

LEMMA RecordTyped ==
  ASSUME TargetTypes, NEW c \in Commands,
         Validate(c) \/ OpenRecord(c) \/ WriteRecord(c)
  PROVE  LocalsTyped(c) /\ SharedTyped /\ UsedTyped
<1>0. cmd[c] \in Locals
  BY DEF TargetTypes
<1>1. UsedTyped
  BY BoundsTyped DEF Validate, OpenRecord, WriteRecord, NoFault
<1>2. CASE Validate(c)
  <2>0. pc[c] = "validate" /\ UNCHANGED <<host, snaps, record, history>>
    BY <1>2 DEF Validate
  <2>1. ASSUME NEW verdict \in Verdicts, Conclude(c, verdict)
        PROVE  LocalsTyped(c)
    <3>1. /\ cmd'[c] \in Locals /\ cmd'[c].plan = cmd[c].plan
          /\ cmd'[c].snap = cmd[c].snap
      <4>1. cmd'[c] = [cmd[c] EXCEPT
                         !.verdict = IF cmd[c].restored /\ verdict = "null" THEN @ ELSE verdict,
                         !.left = MaxPolls, !.ok = @ /\ verdict = "pass"]
        BY <2>1 DEF Conclude, TargetTypes
      <4> QED
        BY <1>0, <4>1, TargetAssumption DEF Locals
    <3>2. pc'[c] \in {"restore", "record"}
      BY <2>1 DEF Conclude, Goto, TargetTypes, TargetTypeOK
    <3> QED
      BY <2>0, <3>1, <3>2 DEF LocalsTyped, Steps, TargetTypes, TargetTypeOK
  <2>2. ASSUME UNCHANGED pc, cmd' = [cmd EXCEPT ![c].left = IF @ = 0 THEN 0 ELSE @ - 1]
        PROVE  LocalsTyped(c)
    <3>1. cmd'[c] = [cmd[c] EXCEPT !.left = IF @ = 0 THEN 0 ELSE @ - 1]
      BY <2>2 DEF TargetTypes
    <3>2. /\ cmd'[c] \in Locals /\ cmd'[c].plan = cmd[c].plan
          /\ cmd'[c].snap = cmd[c].snap
      BY <1>0, <3>1 DEF Locals
    <3>3. pc'[c] = "validate" /\ "validate" \in Steps
      BY <2>0, <2>2 DEF Steps
    <3> QED
      BY <2>0, <3>2, <3>3 DEF LocalsTyped, TargetTypes, TargetTypeOK
  <2>3. {"pass", "fail", "null"} \subseteq Verdicts
    BY DEF Verdicts
  <2>4. LocalsTyped(c)
    BY <1>2, <2>1, <2>2, <2>3 DEF Validate
  <2> QED
    BY <1>1, <2>0, <2>4, SharedStays
<1>3. \A verdict \in Verdicts \cup {"torn"} : RecordOf(c, verdict) \in Record
  BY DEF RecordOf, Record
<1>4. cmd[c].verdict \in Verdicts
  BY <1>0 DEF Locals
<1>5. CASE OpenRecord(c)
  <2>1. LocalsTyped(c)
    BY <1>5 DEF OpenRecord, Goto, LocalsTyped, Steps, TargetTypes, TargetTypeOK
  <2> QED
    BY <1>1, <1>3, <1>5, <2>1
    DEF OpenRecord, TargetTypes, TargetTypeOK, SharedTyped, host, history
<1>6. CASE WriteRecord(c)
  <2>1. LocalsTyped(c)
    BY <1>6, ReturnTyped DEF WriteRecord
  <2> QED
    BY <1>1, <1>3, <1>4, <1>6, <2>1
    DEF WriteRecord, TargetTypes, TargetTypeOK, SharedTyped, host, history
<1> QED
  BY <1>2, <1>5, <1>6

LEMMA TargetTypesKept ==
  ASSUME TargetTypes, CommandsKnow, [Next]_vars
  PROVE  TargetTypes'
<1>1. ASSUME NEW c \in Commands, Begin(c) \/ HostLifecycle(c) \/ Work(c) \/ Kill(c)
      PROVE  TargetTypes'
  <2>1. LocalsTyped(c) /\ SharedTyped /\ UsedTyped
    BY <1>1, BeginTyped, RenderTyped, StageTyped, SyncTyped, MakeTyped, RecordTyped DEF Work
  <2>2. /\ \A d \in Commands : d # c => pc'[d] = pc[d] /\ cmd'[d] = cmd[d]
        /\ pc' = [pc EXCEPT ![c] = pc'[c]] /\ cmd' = [cmd EXCEPT ![c] = cmd'[c]]
        /\ runtime' = runtime
    BY <1>1, OthersStay
  <2>3. pc' \in [Commands -> Steps] /\ cmd' \in [Commands -> Locals]
    BY <2>1, <2>2 DEF LocalsTyped, TargetTypes, TargetTypeOK
  <2>4. \A d \in Commands : /\ pc'[d] = "idle" => cmd'[d] = NoCommand
                            /\ pc'[d] # "idle" => cmd'[d].plan # <<>>
    BY <2>1, <2>2 DEF LocalsTyped, TargetTypes
  <2>5. \A d \in Commands : cmd'[d].snap \in 0..Len(snaps')
    <3>1. /\ Len(snaps) \in Nat /\ Len(snaps') \in Nat /\ Len(snaps) <= Len(snaps')
          /\ \A d \in Commands : cmd'[d].snap \in Nat
      BY <2>1, <2>3 DEF SharedTyped, TargetTypes, Locals
    <3>2. \A d \in Commands : cmd[d].snap <= Len(snaps)
      BY DEF TargetTypes, TargetTypeOK
    <3> QED
      BY <2>1, <2>2, <3>1, <3>2 DEF LocalsTyped
  <2>6. \A n \in DOMAIN snaps' : snaps'[n] \in Snapshot
    BY <2>1 DEF SharedTyped
  <2> QED
    BY <2>1, <2>2, <2>3, <2>4, <2>5, <2>6
    DEF SharedTyped, UsedTyped, TargetTypes, TargetTypeOK
<1>2. CASE OpenClawWrites
  <2>1. root' \in Root
    BY <1>2 DEF OpenClawWrites, Root, TargetTypes, TargetTypeOK
  <2> QED
    BY <1>2, <2>1 DEF OpenClawWrites, TargetTypes, TargetTypeOK
<1>3. CASE UNCHANGED vars
  BY <1>3 DEF vars, host, history, TargetTypes, TargetTypeOK
<1> QED
  BY <1>1, <1>2, <1>3 DEF Next

-----------------------------------------------------------------------------
(* The target: what a command knows, and who is at work.                   *)

LEMMA IdleKnows ==
  ASSUME NEW c \in Commands, pc[c] = "idle"
  PROVE  Knows(c)
  BY DEF Knows, Restoring, SnapSteps, MakingSteps, DeploySteps, RecordSteps, RenderSteps, StageSteps

\* A command at the start of an operation knows nothing yet.
LEMMA BeginKnows ==
  ASSUME NEW c \in Commands, pc'[c] \in {"idle", "begin"}, NEW plan,
         pc'[c] = "begin" => cmd'[c] = [NoCommand EXCEPT !.plan = plan]
  PROVE  Knows(c)'
<1>1. CASE pc'[c] = "idle"
  BY <1>1 DEF Knows, Restoring, SnapSteps, MakingSteps, DeploySteps, RecordSteps, RenderSteps, StageSteps
<1>2. CASE pc'[c] = "begin"
  <2>1. cmd'[c].ok /\ ~cmd'[c].restored /\ cmd'[c].verdict = "null" /\ cmd'[c].snap = 0
    BY <1>2 DEF NoCommand
  <2> QED
    BY <1>2, <2>1 DEF Knows, Restoring, SnapSteps, MakingSteps, DeploySteps, RecordSteps, RenderSteps, StageSteps
<1> QED
  BY <1>1, <1>2

LEMMA OverKnows ==
  ASSUME TargetTypes, NEW c \in Commands, pc[c] # "idle", Done(c) \/ Return(c)
  PROVE  Knows(c)'
<1>1. CASE pc' = [pc EXCEPT ![c] = "idle"]
  BY <1>1, BeginKnows DEF TargetTypes, TargetTypeOK
<1>2. ASSUME NEW plan \in Rests,
             pc' = [pc EXCEPT ![c] = "begin"],
             cmd' = [cmd EXCEPT ![c] = [NoCommand EXCEPT !.plan = plan]]
      PROVE  Knows(c)'
  BY <1>2, BeginKnows DEF TargetTypes, TargetTypeOK
<1> QED
  BY <1>1, <1>2, GoesOn

\* The fields of the locals one after another, as SMT wants them.
LEMMA FieldsOf ==
  ASSUME TargetTypes, NEW c \in Commands
  PROVE  /\ cmd[c] \in Locals /\ Op(c) = Head(cmd[c].plan)
         /\ cmd[c].ok \in BOOLEAN /\ cmd[c].restored \in BOOLEAN
         /\ cmd[c].verdict \in Verdicts /\ cmd[c].snap \in Nat
         /\ pc[c] \in Steps
  BY DEF TargetTypes, TargetTypeOK, Locals, Op

LEMMA KnowsKept ==
  ASSUME TargetTypes, NEW c \in Commands, Knows(c),
         Begin(c) \/ HostLifecycle(c) \/ Work(c) \/ Kill(c)
  PROVE  Knows(c)'
<1>0. /\ cmd \in [Commands -> Locals] /\ pc \in [Commands -> Steps]
      /\ Len(snaps) \in Nat
  BY DEF TargetTypes, TargetTypeOK
<1> USE <1>0
<1>1. CASE (Done(c) \/ Return(c)) /\ pc[c] # "idle"
  BY <1>1, OverKnows
<1>2. CASE Begin(c)
  <2>1. cmd[c] = NoCommand
    BY <1>2 DEF Begin, Accept, TargetTypes
  <2>2. PICK plan \in Plans : cmd'[c] = [NoCommand EXCEPT !.plan = plan]
    BY <1>2, <2>1 DEF Begin
  <2> QED
    BY <1>2, <2>2, BeginKnows DEF Begin, Goto
<1>3. CASE HostLifecycle(c)
  BY <1>3 DEF HostLifecycle, Knows, Restoring, Op
<1>4. CASE Kill(c)
  BY <1>1, <1>4 DEF Kill
<1> USE DEF Knows, Restoring, SnapSteps, MakingSteps, DeploySteps, RecordSteps, RenderSteps, StageSteps, Op, Goto
<1>5. CASE First(c)
  <2>1. CASE Return(c)
    BY <1>1, <1>5, <2>1 DEF First
  <2>2. CASE cmd' = cmd /\ pc'[c] \in {"unstage", "fill", "wipe"} /\ Op(c) # "rollback"
             /\ (pc'[c] = "unstage" <=> Op(c) = "config")
    BY <1>5, <2>2 DEF First, Locals
  <2>3. CASE Op(c) = "rollback" /\ cmd' = [cmd EXCEPT ![c].ok = FALSE] /\ pc'[c] = "record"
    BY <1>5, <2>3 DEF First, Locals
  <2>4. ASSUME NEW n \in DOMAIN snaps, cmd' = [cmd EXCEPT ![c].snap = n],
               pc'[c] = "restore", Op(c) = "rollback"
        PROVE  Knows(c)'
    <3>1. n \in Nat /\ n # 0
      BY DEF TargetTypes
    <3> QED
      BY <1>5, <2>4, <3>1 DEF First, Locals
  <2> QED
    BY <1>5, <2>1, <2>2, <2>3, <2>4 DEF First, Latest
<1>22. ASSUME pc[c] \in RenderSteps, RenderFailed(c)
       PROVE  Knows(c)'
  <2>1. CASE Return(c)
    BY <1>1, <1>22, <2>1
  <2>2. CASE Op(c) = "deploy" /\ cmd' = [cmd EXCEPT ![c].ok = FALSE] /\ pc'[c] = "record"
    BY <1>22, <2>2 DEF Locals
  <2> QED
    BY <1>22, <2>1, <2>2 DEF RenderFailed
<1>6. CASE Wipe(c) \/ Render(c)
  <2>1. CASE cmd' = cmd /\ pc'[c] \in {"render", "fill"}
    BY <1>6, <2>1 DEF Wipe, Render
  <2>2. pc[c] \in RenderSteps
    BY <1>6 DEF Wipe, Render
  <2>3. CASE RenderFailed(c)
    BY <1>22, <2>2, <2>3
  <2> QED
    BY <1>6, <2>1, <2>3 DEF Wipe, Render
<1>7. CASE Fill(c)
  <2>1. CASE RenderFailed(c)
    BY <1>7, <1>22, <2>1 DEF Fill
  <2>3. ASSUME NEW r \in Revisions, cmd' = [cmd EXCEPT ![c].dir = r],
               \/ pc'[c] = "inspect" /\ Op(c) = "deploy"
               \/ pc'[c] \in {"compose", "seed"} /\ Op(c) # "deploy"
        PROVE  Knows(c)'
    BY <1>7, <2>3 DEF Fill, Locals
  <2> QED
    BY <1>7, <2>1, <2>3 DEF Fill
<1>8. CASE Inspect(c)
  <2>1. CASE cmd' = cmd /\ pc'[c] = "seed"
    BY <1>8, <2>1 DEF Inspect
  <2>2. CASE cmd' = [cmd EXCEPT ![c].snap = Len(snaps) + 1] /\ pc'[c] = "snap_copy"
    BY <1>8, <2>2 DEF Inspect, Locals
  <2> QED
    BY <1>8, <2>1, <2>2 DEF Inspect
<1>9. CASE CopySnapshot(c)
  <2>1. CASE cmd' = cmd /\ pc'[c] = "snap_meta"
    BY <1>9, <2>1 DEF CopySnapshot
  <2>2. CASE cmd' = [cmd EXCEPT ![c].ok = FALSE] /\ pc'[c] = "record"
    BY <1>9, <2>2 DEF CopySnapshot, Locals
  <2> QED
    BY <1>9, <2>1, <2>2 DEF CopySnapshot
<1>10. CASE OpenMetadata(c) \/ WriteMetadata(c) \/ OpenRecord(c)
  BY <1>10 DEF OpenMetadata, WriteMetadata, OpenRecord
<1>23. CASE Unstage(c) \/ Stage(c) \/ OpenStaged(c) \/ WriteStaged(c)
  <2>1. pc[c] \in StageSteps
    BY <1>23 DEF Unstage, Stage, OpenStaged, WriteStaged
  <2>2. CASE Return(c)
    BY <1>1, <2>1, <2>2
  <2>3. CASE cmd' = cmd /\ pc'[c] \in {"stage", "seed", "stage_write", "sync"}
    BY <2>1, <2>3
  <2> QED
    BY <1>23, <2>2, <2>3 DEF Unstage, Stage, OpenStaged, WriteStaged
<1>24. CASE OpenRoot(c)
  <2>1. CASE Done(c)
    BY <1>1, <1>24, <2>1 DEF OpenRoot
  <2>2. ASSUME NEW seen, cmd' = [cmd EXCEPT ![c].seen = seen], pc'[c] = "synced"
        PROVE  Knows(c)'
    BY <1>24, <2>2 DEF OpenRoot, Locals
  <2> QED
    BY <1>24, <2>1, <2>2 DEF OpenRoot
<1>11. ASSUME pc[c] \in {"seed", "remove"}, Failed(c), Op(c) = "deploy"
       PROVE  Knows(c)'
  <2>1. /\ cmd'[c] = [cmd[c] EXCEPT !.ok = FALSE] /\ pc'[c] = "validate"
        /\ ~cmd[c].restored /\ cmd[c].verdict = "null"
    BY <1>11 DEF Failed
  <2>2. /\ cmd'[c].plan = cmd[c].plan /\ ~cmd'[c].restored
        /\ cmd'[c].verdict = "null"
    BY <2>1 DEF Locals
  <2> QED
    BY <1>11, <2>1, <2>2
<1>12. CASE Seed(c)
  <2>1. CASE Failed(c)
    BY <1>1, <1>11, <1>12, <2>1 DEF Seed, Failed
  <2>2. CASE cmd' = cmd /\ pc'[c] \in {AfterSync(c), "sync"}
    BY <1>12, <2>2 DEF Seed, AfterSync
  <2>3. ASSUME NEW seen, cmd' = [cmd EXCEPT ![c].seen = seen],
               pc'[c] = IF Op(c) = "config" THEN "stage_open" ELSE "sync"
        PROVE  Knows(c)'
    BY <1>12, <2>3 DEF Seed, Locals
  <2> QED
    BY <1>12, <2>1, <2>2, <2>3 DEF Seed
<1>13. CASE WriteRoot(c)
  <2>1. CASE cmd' = cmd /\ pc'[c] = AfterSync(c)
    BY <1>13, <2>1 DEF WriteRoot, AfterSync
  <2> QED
    BY <1>1, <1>13, <2>1 DEF WriteRoot
<1>14. CASE Remove(c)
  <2>1. CASE Failed(c)
    BY <1>11, <1>14, <2>1 DEF Remove
  <2> QED
    BY <1>14, <2>1 DEF Remove
<1>15. CASE Up(c)
  BY <1>15 DEF Up, Locals
<1>16. CASE Compose(c)
  BY <1>1, <1>16 DEF Compose
<1>17. CASE Validate(c)
  <2>1. ASSUME NEW verdict \in Verdicts, Conclude(c, verdict)
        PROVE  Knows(c)'
    <3>1. pc[c] = "validate"
      BY <1>17 DEF Validate
    <3>2. /\ cmd'[c].plan = cmd[c].plan /\ cmd'[c].snap = cmd[c].snap
          /\ cmd'[c].restored = cmd[c].restored
          /\ cmd'[c].ok = (cmd[c].ok /\ verdict = "pass")
      BY <2>1 DEF Conclude, Locals
    <3>3. CASE ShouldRestore(c, verdict)
      <4>1. pc'[c] = "restore" /\ Op(c) = "deploy" /\ cmd[c].snap # 0 /\ ~cmd[c].restored
            /\ (~cmd[c].ok \/ verdict # "pass")
        BY <2>1, <3>3 DEF Conclude, ShouldRestore
      <4> QED
        BY <3>1, <3>2, <4>1
    <3>4. CASE ~ShouldRestore(c, verdict)
      BY <2>1, <3>1, <3>2, <3>4 DEF Conclude
    <3> QED
      BY <3>3, <3>4
  <2>2. CASE UNCHANGED pc /\ cmd' = [cmd EXCEPT ![c].left = IF @ = 0 THEN 0 ELSE @ - 1]
    <3>1. /\ pc'[c] = "validate" /\ pc[c] = "validate"
          /\ cmd'[c].plan = cmd[c].plan /\ cmd'[c].snap = cmd[c].snap
          /\ cmd'[c].restored = cmd[c].restored /\ cmd'[c].ok = cmd[c].ok
          /\ cmd'[c].verdict = cmd[c].verdict
      BY <1>17, <2>2 DEF Validate, Locals
    <3> QED
      BY <3>1
  <2>3. {"pass", "fail", "null"} \subseteq Verdicts
    BY DEF Verdicts
  <2> QED
    BY <1>17, <2>1, <2>2, <2>3 DEF Validate
<1>18. ASSUME pc[c] \in {"restore", "restore_up"}, RestoreFailed(c)
       PROVE  Knows(c)'
  BY <1>18 DEF RestoreFailed, Locals
<1>19. CASE Restore(c)
  BY <1>18, <1>19 DEF Restore
<1>20. CASE RestoreUp(c)
  <2>1. CASE cmd' = [cmd EXCEPT ![c].restored = TRUE] /\ pc'[c] = "validate"
    BY <1>20, <2>1 DEF RestoreUp, Locals
  <2> QED
    BY <1>18, <1>20, <2>1 DEF RestoreUp
<1>21. CASE WriteRecord(c)
  BY <1>1, <1>21 DEF WriteRecord
<1> QED
  BY <1>2, <1>3, <1>4, <1>5, <1>6, <1>7, <1>8, <1>9, <1>10, <1>12, <1>13, <1>14, <1>15,
     <1>16, <1>17, <1>19, <1>20, <1>21, <1>23, <1>24 DEF Work


LEMMA CommandsKnowKept ==
  ASSUME TargetTypes, CommandsKnow, [Next]_vars
  PROVE  CommandsKnow'
<1>1. ASSUME NEW c \in Commands, Begin(c) \/ HostLifecycle(c) \/ Work(c) \/ Kill(c)
      PROVE  CommandsKnow'
  <2>1. Knows(c)'
    BY <1>1, KnowsKept DEF CommandsKnow
  <2>2. ASSUME NEW d \in Commands, d # c
        PROVE  Knows(d)'
    BY <1>1, <2>2, OthersStay DEF CommandsKnow, Knows, Restoring, Op
  <2> QED
    BY <2>1, <2>2 DEF CommandsKnow
<1>2. CASE UNCHANGED <<pc, cmd>>
  BY <1>2 DEF CommandsKnow, Knows, Restoring, Op
<1> QED
  BY <1>1, <1>2 DEF Next, OpenClawWrites, vars

LEMMA AtWork ==
  ASSUME NEW c \in Commands
  PROVE  /\ Work(c) \/ Kill(c) =>
              pc[c] # "idle" /\ UNCHANGED <<written, raced, overlapped>>
         /\ (Work(c) /\ ~Unstage(c)) \/ Kill(c) => UNCHANGED restaged
         /\ Begin(c) \/ HostLifecycle(c) =>
              /\ pc[c] = "idle" /\ overlapped' = (overlapped \/ ~Quiet)
              /\ UNCHANGED <<written, raced, restaged>>
  BY DEF Work, Kill, Begin, HostLifecycle, Accept, First, Wipe, Render, Fill, Inspect,
         CopySnapshot, OpenMetadata, WriteMetadata, Unstage, Stage, Seed, OpenStaged,
         WriteStaged, OpenRoot, WriteRoot, Remove, Up, Compose, Validate, Restore, RestoreUp,
         OpenRecord, WriteRecord, history

LEMMA TargetAloneKept ==
  ASSUME TargetTypes, TargetAlone, [Next]_vars
  PROVE  TargetAlone'
<1>1. ASSUME NEW c \in Commands, Begin(c) \/ HostLifecycle(c)
      PROVE  TargetAlone'
  <2>1. ~overlapped' => \A d \in Commands : d # c => pc'[d] = "idle"
    BY <1>1, OthersStay, AtWork DEF Quiet
  <2> QED
    BY <2>1 DEF TargetAlone
<1>2. ASSUME NEW c \in Commands, Work(c) \/ Kill(c)
      PROVE  TargetAlone'
  BY <1>2, OthersStay, AtWork DEF TargetAlone, history
<1>3. CASE UNCHANGED <<pc, overlapped>>
  BY <1>3 DEF TargetAlone
<1> QED
  BY <1>1, <1>2, <1>3 DEF Next, OpenClawWrites, vars, history

\* When a step is over and nothing overlapped, no other command is at work.
LEMMA OneAtWork ==
  ASSUME TargetTypes, TargetAlone, NEW c \in Commands,
         Begin(c) \/ HostLifecycle(c) \/ Work(c) \/ Kill(c), ~overlapped'
  PROVE  /\ ~overlapped
         /\ \A d \in Commands : d # c => pc[d] = "idle" /\ pc'[d] = "idle"
<1>1. CASE Begin(c) \/ HostLifecycle(c)
  BY <1>1, OthersStay, AtWork DEF Quiet
<1>2. CASE Work(c) \/ Kill(c)
  BY <1>2, OthersStay, AtWork DEF TargetAlone, history
<1> QED
  BY <1>1, <1>2

LEMMA OverlapStays ==
  ASSUME TargetTypes, [Next]_vars, overlapped
  PROVE  overlapped'
  BY AtWork DEF Next, OpenClawWrites, vars, history

\* Where a command that is over is.
LEMMA IsOver ==
  ASSUME TargetTypes, NEW c \in Commands, pc[c] # "idle", Done(c) \/ Return(c)
  PROVE  pc'[c] \in {"idle", "begin"}
  BY GoesOn DEF TargetTypes, TargetTypeOK

-----------------------------------------------------------------------------
(* The target: renders and snapshots.                                      *)

\* Nobody else renders where a command copies, if nothing overlaps.
LEMMA NotDisturbed ==
  ASSUME TargetAlone, runtime \/ ~overlapped, NEW c \in Commands, pc[c] # "idle"
  PROVE  ~Disturbed(c)
  BY DEF TargetAlone, Disturbed

\* The files of a render are written where a wipe of the command left none.
LEMMA FillsOwn ==
  ASSUME TargetTypes, NEW c \in Commands, ~runtime,
         Begin(c) \/ HostLifecycle(c) \/ Work(c) \/ Kill(c), pc'[c] = "fill"
  PROVE  rendered' \in {Torn, Part}
<1>0. pc \in [Commands -> Steps]
  BY DEF TargetTypes, TargetTypeOK
<1> USE <1>0 DEF Goto
<1>1. ~((Done(c) \/ Return(c)) /\ pc[c] # "idle")
  BY IsOver
<1>2. ~(Begin(c) \/ HostLifecycle(c) \/ Kill(c))
  BY <1>1 DEF Begin, HostLifecycle, Kill, Accept
<1>3. ~(First(c) \/ Wipe(c) \/ Fill(c))
  BY <1>1 DEF First, Wipe, Fill, RenderFailed
<1>4. ~(Inspect(c) \/ CopySnapshot(c) \/ OpenMetadata(c) \/ WriteMetadata(c))
  BY DEF Inspect, CopySnapshot, OpenMetadata, WriteMetadata
<1>5. ~(Unstage(c) \/ Stage(c) \/ Seed(c) \/ OpenStaged(c) \/ WriteStaged(c))
  BY <1>1 DEF Unstage, Stage, Seed, OpenStaged, WriteStaged, Failed, AfterSync
<1>6. ~(OpenRoot(c) \/ WriteRoot(c) \/ Remove(c) \/ Up(c) \/ Compose(c))
  BY <1>1 DEF OpenRoot, WriteRoot, Remove, Up, Compose, Failed, AfterSync
<1>7. ~(Validate(c) \/ Restore(c) \/ RestoreUp(c) \/ OpenRecord(c) \/ WriteRecord(c))
  BY <1>1 DEF Validate, Conclude, Restore, RestoreUp, RestoreFailed, OpenRecord, WriteRecord
<1> QED
  BY <1>2, <1>3, <1>4, <1>5, <1>6, <1>7 DEF Work, Render

\* A deploy keeps its render and the directory it is in.
LEMMA DeployGoesOn ==
  ASSUME TargetTypes, NEW c \in Commands, Knows(c),
         Begin(c) \/ HostLifecycle(c) \/ Work(c) \/ Kill(c),
         pc'[c] \in DeploySteps, Op(c)' = "deploy",
         TargetAlone, OwnRender, runtime \/ ~overlapped
  PROVE  \/ Fill(c) /\ (runtime \/ rendered' = cmd'[c].dir)
         \/ /\ pc[c] \in DeploySteps /\ Op(c) = "deploy"
            /\ cmd'[c].dir = cmd[c].dir /\ rendered' = rendered
<1>0. cmd \in [Commands -> Locals] /\ pc \in [Commands -> Steps] /\ Len(snaps) \in Nat
  BY DEF TargetTypes, TargetTypeOK
<1> USE <1>0 DEF DeploySteps, SnapSteps, Op, Goto
<1>1. ~((Done(c) \/ Return(c)) /\ pc[c] # "idle")
  BY IsOver
<1>2. ~(Begin(c) \/ HostLifecycle(c) \/ Kill(c))
  BY <1>1 DEF Begin, HostLifecycle, Kill, Accept
<1>3. CASE First(c)
  BY <1>1, <1>3 DEF First
<1>4. CASE Wipe(c) \/ Render(c) \/ Validate(c) \/ Restore(c) \/ RestoreUp(c)
           \/ OpenRecord(c) \/ WriteRecord(c) \/ Compose(c)
  <2>1. pc'[c] \notin DeploySteps
    BY <1>1, <1>4 DEF Wipe, Render, RenderFailed, Validate, Conclude, Restore, RestoreUp,
                      RestoreFailed, OpenRecord, WriteRecord, Compose
  <2> QED
    BY <2>1
<1>12. CASE Unstage(c) \/ Stage(c) \/ OpenStaged(c) \/ WriteStaged(c)
  <2>1. Op(c) = "config" /\ (cmd' = cmd \/ Return(c)) /\ pc[c] # "idle"
    BY <1>12 DEF Unstage, Stage, OpenStaged, WriteStaged, Knows, StageSteps
  <2> QED
    BY <1>1, <2>1
<1>5. CASE Fill(c)
  <2>1. pc[c] = "fill" /\ ~RenderFailed(c)
    BY <1>1, <1>5 DEF Fill, RenderFailed
  <2>2. PICK r \in Revisions : /\ cmd' = [cmd EXCEPT ![c].dir = r]
                               /\ runtime \/ rendered' \in Filled(c, r)
    BY <1>5, <2>1 DEF Fill
  <2>3. ~runtime => rendered \in {Torn, Part}
    BY <2>1 DEF OwnRender
  <2>4. runtime \/ rendered' = r
    BY <2>1, <2>2, <2>3, NotDisturbed DEF Filled
  <2> QED
    BY <1>5, <2>2, <2>4 DEF Locals
<1>6. CASE Inspect(c)
  BY <1>6 DEF Inspect, Knows, host, Locals
<1>7. CASE CopySnapshot(c)
  BY <1>7 DEF CopySnapshot, Knows, host, Locals
<1>8. CASE OpenMetadata(c) \/ WriteMetadata(c)
  BY <1>8 DEF OpenMetadata, WriteMetadata, host
<1>13. CASE OpenRoot(c)
  <2>1. /\ pc[c] = "sync" /\ rendered' = rendered
        /\ cmd'[c].plan = cmd[c].plan /\ cmd'[c].dir = cmd[c].dir
    BY <1>1, <1>13 DEF OpenRoot, Locals
  <2> QED
    BY <2>1
<1>9. CASE Seed(c)
  <2>1. pc[c] = "seed" /\ rendered' = rendered
    BY <1>9 DEF Seed, host
  <2>2. cmd'[c].plan = cmd[c].plan /\ cmd'[c].dir = cmd[c].dir
    BY <1>1, <1>9 DEF Seed, Failed, Locals
  <2> QED
    BY <2>1, <2>2
<1>10. CASE WriteRoot(c)
  BY <1>1, <1>10 DEF WriteRoot
<1>11. CASE Remove(c) \/ Up(c)
  BY <1>1, <1>11 DEF Remove, Up, Failed, Locals
<1> QED
  BY <1>2, <1>3, <1>4, <1>5, <1>6, <1>7, <1>8, <1>9, <1>10, <1>11, <1>12, <1>13 DEF Work

LEMMA OwnRenderKept ==
  ASSUME TargetTypes, CommandsKnow, TargetAlone, OwnRender, [Next]_vars
  PROVE  OwnRender'
<1>1. ASSUME NEW c \in Commands, Begin(c) \/ HostLifecycle(c) \/ Work(c) \/ Kill(c),
             ~runtime', ~overlapped', NEW d \in Commands
      PROVE  /\ pc'[d] \in DeploySteps /\ Op(d)' = "deploy" => rendered' = cmd'[d].dir
             /\ pc'[d] = "fill" => rendered' \in {Torn, Part}
  <2>1. ~runtime /\ ~overlapped /\ (d # c => pc'[d] = "idle")
    BY <1>1, OneAtWork, OthersStay
  <2>2. CASE d # c
    BY <2>1, <2>2 DEF DeploySteps, SnapSteps
  <2>3. ASSUME pc'[c] \in DeploySteps, Op(c)' = "deploy"
        PROVE  rendered' = cmd'[c].dir
    BY <1>1, <2>1, <2>3, DeployGoesOn DEF CommandsKnow, OwnRender
  <2> QED
    BY <1>1, <2>1, <2>2, <2>3, FillsOwn
<1>2. CASE UNCHANGED <<pc, cmd, runtime, rendered, overlapped>>
  BY <1>2 DEF OwnRender, Op
<1> QED
  BY <1>1, <1>2 DEF OwnRender, Next, OpenClawWrites, vars, host, history

\* The render a deploy copies and makes containers from is whole.
LEMMA DirIsWhole ==
  ASSUME NEW c \in Commands, CommandsKnow, OwnRender, runtime \/ ~overlapped,
         pc[c] \in DeploySteps, Op(c) = "deploy"
  PROVE  Dir(c) = cmd[c].dir /\ Dir(c) \in Revisions
  BY DEF CommandsKnow, Knows, OwnRender, Dir


\* Only the four steps of a snapshot change the snapshots.
LEMMA SnapsStay ==
  ASSUME NEW c \in Commands, Begin(c) \/ HostLifecycle(c) \/ Work(c) \/ Kill(c),
         ~(Inspect(c) \/ CopySnapshot(c) \/ OpenMetadata(c) \/ WriteMetadata(c))
  PROVE  snaps' = snaps
  BY DEF Work, Kill, Begin, HostLifecycle, First, Wipe, Render, Fill, Unstage, Stage, Seed,
         OpenStaged, WriteStaged, OpenRoot, WriteRoot, Remove, Up, Compose, Validate, Restore,
         RestoreUp, OpenRecord, WriteRecord

\* A copy that is whole stays so, and what is new has no metadata.
LEMMA CopiesStay ==
  ASSUME TargetTypes, CommandsKnow, TargetAlone, OwnRender, CopyFirst, runtime \/ ~overlapped,
         NEW c \in Commands, Begin(c) \/ HostLifecycle(c) \/ Work(c) \/ Kill(c)
  PROVE  /\ \A n \in 1..Len(snaps) :
              n \in 1..Len(snaps') /\ (snaps[n].copy \in Revisions => snaps'[n].copy \in Revisions)
         /\ \A n \in 1..Len(snaps') :
              snaps'[n].meta # "none" => snaps'[n].copy \in Revisions
<1>0. /\ snaps \in Seq(Snapshot) /\ Len(snaps) \in Nat /\ cmd[c].snap \in 0..Len(snaps)
      /\ \A n \in 1..Len(snaps) : snaps[n].meta # "none" => snaps[n].copy \in Revisions
  BY DEF TargetTypes, TargetTypeOK, CopyFirst
<1>1. ASSUME pc[c] \in SnapSteps
      PROVE  cmd[c].snap \in 1..Len(snaps) /\ Op(c) = "deploy"
  BY <1>0, <1>1 DEF CommandsKnow, Knows
<1>2. CASE snaps' = snaps
  BY <1>0, <1>2
<1>3. CASE snaps' = Append(snaps, [copy |-> Torn, meta |-> "none"])
  <2>1. /\ Len(snaps') = Len(snaps) + 1
        /\ snaps'[Len(snaps) + 1] = [copy |-> Torn, meta |-> "none"]
        /\ \A n \in 1..Len(snaps) : snaps'[n] = snaps[n]
    BY <1>0, <1>3
  <2> QED
    BY <1>0, <2>1
<1>4. ASSUME NEW m \in 1..Len(snaps), NEW s, s.copy \in Revisions,
             snaps' = [snaps EXCEPT ![m] = s]
      PROVE  /\ \A n \in 1..Len(snaps) :
                  n \in 1..Len(snaps')
                  /\ (snaps[n].copy \in Revisions => snaps'[n].copy \in Revisions)
             /\ \A n \in 1..Len(snaps') :
                  snaps'[n].meta # "none" => snaps'[n].copy \in Revisions
  <2>1. Len(snaps') = Len(snaps) /\ snaps'[m] = s
        /\ \A n \in 1..Len(snaps) : n # m => snaps'[n] = snaps[n]
    BY <1>0, <1>4
  <2> QED
    BY <1>0, <1>4, <2>1
<1>5. CASE CopySnapshot(c)
  <2>1. CASE snaps' = [snaps EXCEPT ![cmd[c].snap].copy = Dir(c)]
    <3>1. cmd[c].snap \in 1..Len(snaps) /\ Dir(c) \in Revisions
      BY <1>1, <1>5, DirIsWhole DEF CopySnapshot, SnapSteps, DeploySteps
    <3>2. snaps[cmd[c].snap] \in Snapshot
      BY <1>0, <3>1
    <3>3. snaps' = [snaps EXCEPT ![cmd[c].snap] = [snaps[cmd[c].snap] EXCEPT !.copy = Dir(c)]]
      BY <2>1
    <3>4. [snaps[cmd[c].snap] EXCEPT !.copy = Dir(c)].copy \in Revisions
      BY <3>1, <3>2 DEF Snapshot
    <3> QED
      BY <1>4, <3>1, <3>3, <3>4
  <2>2. ~Disturbed(c)
    BY <1>5, NotDisturbed DEF CopySnapshot
  <2> QED
    BY <1>2, <1>5, <2>1, <2>2 DEF CopySnapshot
<1>6. CASE OpenMetadata(c) \/ WriteMetadata(c)
  <2>1. cmd[c].snap \in 1..Len(snaps) /\ snaps[cmd[c].snap].copy \in Revisions
    BY <1>1, <1>6 DEF OpenMetadata, WriteMetadata, SnapSteps, DeploySteps, CopyFirst
  <2>2. snaps[cmd[c].snap] \in Snapshot
    BY <1>0, <2>1
  <2>3. PICK meta : snaps' = [snaps EXCEPT ![cmd[c].snap].meta = meta]
    BY <1>6 DEF OpenMetadata, WriteMetadata
  <2>4. snaps' = [snaps EXCEPT ![cmd[c].snap] = [snaps[cmd[c].snap] EXCEPT !.meta = meta]]
    BY <2>3
  <2>5. [snaps[cmd[c].snap] EXCEPT !.meta = meta].copy \in Revisions
    BY <2>1, <2>2 DEF Snapshot
  <2> QED
    BY <1>4, <2>1, <2>4, <2>5
<1>7. CASE Inspect(c)
  BY <1>2, <1>3, <1>7 DEF Inspect
<1> QED
  BY <1>2, <1>5, <1>6, <1>7, SnapsStay

UndoSteps == (DeploySteps \ {"snap_copy"}) \cup {"validate", "restore", "restore_up"}

\* A deploy has copied its render before it gets where it may restore it.
LEMMA CopyComesFirst ==
  ASSUME TargetTypes, NEW c \in Commands, Knows(c),
         Begin(c) \/ HostLifecycle(c) \/ Work(c) \/ Kill(c),
         pc'[c] \in UndoSteps, Op(c)' = "deploy", cmd'[c].snap # 0,
         TargetAlone, runtime \/ ~overlapped
  PROVE  /\ \/ /\ pc[c] = "snap_copy"
               /\ snaps' = [snaps EXCEPT ![cmd'[c].snap].copy = Dir(c)]
            \/ pc[c] \in UndoSteps /\ Op(c) = "deploy"
         /\ cmd'[c].snap = cmd[c].snap
<1>0. cmd \in [Commands -> Locals] /\ pc \in [Commands -> Steps] /\ Len(snaps) \in Nat
  BY DEF TargetTypes, TargetTypeOK
<1> USE <1>0 DEF UndoSteps, DeploySteps, SnapSteps, Op, Goto
<1>1. ~((Done(c) \/ Return(c)) /\ pc[c] # "idle")
  BY IsOver
<1>2. ~(Begin(c) \/ HostLifecycle(c) \/ Kill(c))
  BY <1>1 DEF Begin, HostLifecycle, Kill, Accept
<1>3. ~First(c)
  <2>1. CASE First(c)
    <3>1. cmd'[c].plan = cmd[c].plan
      BY <1>1, <2>1 DEF First, Locals
    <3>2. pc'[c] = "restore" => Op(c) = "rollback"
      BY <1>1, <2>1 DEF First
    <3>3. pc'[c] \in {"unstage", "restore", "fill", "wipe", "record"}
      BY <1>1, <2>1 DEF First
    <3> QED
      BY <3>1, <3>2, <3>3
  <2> QED
    BY <2>1
<1>4. ~(Wipe(c) \/ Render(c) \/ OpenRecord(c) \/ WriteRecord(c) \/ Compose(c))
  BY <1>1 DEF Wipe, Render, RenderFailed, OpenRecord, WriteRecord, Compose
<1>14. ~(Unstage(c) \/ Stage(c) \/ OpenStaged(c) \/ WriteStaged(c))
  <2>1. ASSUME Unstage(c) \/ Stage(c) \/ OpenStaged(c) \/ WriteStaged(c)
        PROVE  Op(c) = "config" /\ (cmd' = cmd \/ Return(c)) /\ pc[c] # "idle"
    BY <2>1 DEF Unstage, Stage, OpenStaged, WriteStaged, Knows, StageSteps
  <2> QED
    BY <1>1, <2>1
<1>5. ~Fill(c)
  BY <1>1 DEF Fill, RenderFailed, Knows, RenderSteps, Locals
<1>6. CASE Inspect(c)
  BY <1>6 DEF Inspect, Knows, Locals
<1>7. CASE CopySnapshot(c)
  <2>1. ~Disturbed(c)
    BY <1>7, NotDisturbed DEF CopySnapshot
  <2> QED
    BY <1>7, <2>1 DEF CopySnapshot, Locals
<1>8. CASE OpenMetadata(c) \/ WriteMetadata(c)
  BY <1>8 DEF OpenMetadata, WriteMetadata
<1>15. CASE OpenRoot(c)
  <2>1. /\ pc[c] = "sync" /\ cmd'[c].plan = cmd[c].plan /\ cmd'[c].snap = cmd[c].snap
    BY <1>1, <1>15 DEF OpenRoot, Locals
  <2> QED
    BY <2>1
<1>9. CASE Seed(c)
  <2>1. pc[c] = "seed"
    BY <1>9 DEF Seed
  <2>2. cmd'[c].plan = cmd[c].plan /\ cmd'[c].snap = cmd[c].snap
    BY <1>1, <1>9 DEF Seed, Failed, Locals
  <2> QED
    BY <2>1, <2>2
<1>10. CASE WriteRoot(c)
  BY <1>1, <1>10 DEF WriteRoot
<1>11. CASE Remove(c) \/ Up(c)
  <2>1. CASE Remove(c)
    BY <1>1, <1>11, <2>1 DEF Remove, Failed, Locals
  <2>2. CASE Up(c)
    <3>1. cmd'[c].plan = cmd[c].plan /\ cmd'[c].snap = cmd[c].snap
      BY <2>2 DEF Up, Locals
    <3> QED
      BY <2>2, <3>1 DEF Up, Knows
  <2> QED
    BY <1>11, <2>1, <2>2
<1>12. CASE Validate(c)
  <2>1. cmd'[c].plan = cmd[c].plan /\ cmd'[c].snap = cmd[c].snap
    BY <1>12 DEF Validate, Conclude, Locals
  <2> QED
    BY <1>12, <2>1 DEF Validate
<1>13. CASE Restore(c) \/ RestoreUp(c)
  BY <1>13 DEF Restore, RestoreUp, RestoreFailed, Locals
<1> QED
  BY <1>2, <1>3, <1>4, <1>5, <1>6, <1>7, <1>8, <1>9, <1>10, <1>11, <1>12, <1>13, <1>14,
     <1>15 DEF Work

LEMMA CopyFirstKept ==
  ASSUME TargetTypes, CommandsKnow, TargetAlone, OwnRender, CopyFirst, [Next]_vars
  PROVE  CopyFirst'
<1>1. ASSUME NEW c \in Commands, Begin(c) \/ HostLifecycle(c) \/ Work(c) \/ Kill(c),
             runtime' \/ ~overlapped'
      PROVE  /\ \A n \in 1..Len(snaps') :
                  snaps'[n].meta # "none" => snaps'[n].copy \in Revisions
             /\ \A d \in Commands :
                  (pc'[d] \in UndoSteps /\ Op(d)' = "deploy" /\ cmd'[d].snap # 0)
                  => snaps'[cmd'[d].snap].copy \in Revisions
  <2>1. runtime \/ ~overlapped
    BY <1>1, OthersStay, OverlapStays DEF Next
  <2>2. /\ \A n \in 1..Len(snaps) : snaps[n].copy \in Revisions => snaps'[n].copy \in Revisions
        /\ \A n \in 1..Len(snaps') : snaps'[n].meta # "none" => snaps'[n].copy \in Revisions
    BY <1>1, <2>1, CopiesStay
  <2>3. \A d \in Commands :
           (pc[d] \in UndoSteps /\ Op(d) = "deploy" /\ cmd[d].snap # 0)
           => snaps[cmd[d].snap].copy \in Revisions /\ cmd[d].snap \in 1..Len(snaps)
    BY <2>1 DEF CopyFirst, UndoSteps, TargetTypes, TargetTypeOK
  <2>4. ASSUME NEW d \in Commands, d # c,
               pc'[d] \in UndoSteps, Op(d)' = "deploy", cmd'[d].snap # 0
        PROVE  snaps'[cmd'[d].snap].copy \in Revisions
    BY <1>1, <2>2, <2>3, <2>4, OthersStay DEF Op
  <2>5. ASSUME pc'[c] \in UndoSteps, Op(c)' = "deploy", cmd'[c].snap # 0
        PROVE  snaps'[cmd'[c].snap].copy \in Revisions
    <3>1. CASE pc[c] \in UndoSteps /\ Op(c) = "deploy"
      BY <1>1, <2>1, <2>2, <2>3, <2>5, <3>1, CopyComesFirst DEF CommandsKnow
    <3>2. CASE /\ pc[c] = "snap_copy"
               /\ snaps' = [snaps EXCEPT ![cmd'[c].snap].copy = Dir(c)]
               /\ cmd'[c].snap = cmd[c].snap
      <4>1. cmd[c].snap \in 1..Len(snaps) /\ Op(c) = "deploy" /\ pc[c] \in DeploySteps
        BY <3>2 DEF CommandsKnow, Knows, SnapSteps, DeploySteps, TargetTypes, TargetTypeOK
      <4>2. Dir(c) \in Revisions /\ snaps[cmd[c].snap] \in Snapshot
            /\ snaps \in Seq(Snapshot)
        BY <2>1, <4>1, DirIsWhole DEF TargetTypes
      <4> QED
        BY <3>2, <4>1, <4>2 DEF Snapshot
    <3> QED
      BY <1>1, <2>1, <2>5, <3>1, <3>2, CopyComesFirst DEF CommandsKnow
  <2> QED
    BY <2>2, <2>4, <2>5
<1>2. CASE UNCHANGED <<pc, cmd, runtime, snaps, overlapped>>
  BY <1>2 DEF CopyFirst, Op
<1> QED
  BY <1>1, <1>2 DEF CopyFirst, UndoSteps, Next, OpenClawWrites, vars, host, history

LEMMA SnapshotsWhole ==
  ASSUME CopyFirst, TargetTypes
  PROVE  SnapshotsAreWhole
  BY DEF CopyFirst, SnapshotsAreWhole, Latest, TargetTypes

-----------------------------------------------------------------------------
(* The target: openclaw.json.                                              *)

\* Only these steps of a command touch openclaw.json or decide what to write to it.
Syncs(c) ==
    \/ Unstage(c) \/ Stage(c) \/ Seed(c) \/ OpenStaged(c) \/ WriteStaged(c)
    \/ OpenRoot(c) \/ WriteRoot(c)

LEMMA RootStays ==
  ASSUME TargetTypes, NEW c \in Commands,
         Begin(c) \/ HostLifecycle(c) \/ Work(c) \/ Kill(c), ~Syncs(c)
  PROVE  /\ root' = root /\ staged' = staged /\ restaged' = restaged
         /\ pc'[c] \notin Writing \cup {"stage"}
<1>0. pc \in [Commands -> Steps] /\ (pc[c] \in Writing => pc[c] # "idle")
  BY DEF TargetTypes, TargetTypeOK, Writing
<1> USE <1>0 DEF Goto, host, Writing, history
<1>1. ASSUME (Done(c) \/ Return(c)) /\ pc[c] # "idle"
      PROVE  pc'[c] \notin Writing \cup {"stage"}
  BY <1>1, IsOver
<1>2. CASE Begin(c) \/ HostLifecycle(c) \/ Kill(c)
  BY <1>1, <1>2 DEF Begin, HostLifecycle, Kill, Accept
<1>3. CASE First(c)
  BY <1>1, <1>3 DEF First
<1>4. CASE Inspect(c) \/ CopySnapshot(c) \/ OpenMetadata(c) \/ WriteMetadata(c)
  BY <1>4 DEF Inspect, CopySnapshot, OpenMetadata, WriteMetadata
<1>5. CASE Wipe(c) \/ Render(c) \/ Fill(c)
  BY <1>1, <1>5 DEF Wipe, Render, Fill, RenderFailed
<1>6. CASE Remove(c) \/ Up(c) \/ Compose(c)
  BY <1>1, <1>6 DEF Remove, Up, Compose, Failed
<1>7. CASE Validate(c) \/ Restore(c) \/ RestoreUp(c)
  BY <1>7 DEF Validate, Conclude, Restore, RestoreUp, RestoreFailed
<1>8. CASE OpenRecord(c) \/ WriteRecord(c)
  BY <1>1, <1>8 DEF OpenRecord, WriteRecord
<1> QED
  BY <1>2, <1>3, <1>4, <1>5, <1>6, <1>7, <1>8 DEF Work, Syncs

\* A command is not staging unless one of the steps above takes it there.
LEMMA NotStaging ==
  ASSUME TargetTypes, NEW c \in Commands, Knows(c),
         Begin(c) \/ HostLifecycle(c) \/ Work(c) \/ Kill(c), ~Syncs(c)
  PROVE  ~AtStaging(c)'
<1>0. cmd \in [Commands -> Locals] /\ pc \in [Commands -> Steps]
  BY DEF TargetTypes, TargetTypeOK
<1> USE <1>0 DEF Goto, AtStaging, Staging, Op
<1>1. ASSUME (Done(c) \/ Return(c)) /\ pc[c] # "idle"
      PROVE  ~AtStaging(c)'
  BY <1>1, IsOver
<1>2. CASE Begin(c) \/ HostLifecycle(c) \/ Kill(c)
  BY <1>1, <1>2 DEF Begin, HostLifecycle, Kill, Accept
<1>3. CASE First(c)
  BY <1>1, <1>3 DEF First
<1>4. CASE Inspect(c)
  <2>1. Op(c) = "deploy" /\ cmd'[c].plan = cmd[c].plan
    BY <1>4 DEF Inspect, Knows, Locals
  <2> QED
    BY <2>1
<1>9. CASE CopySnapshot(c) \/ OpenMetadata(c) \/ WriteMetadata(c)
  <2>1. Op(c) = "deploy" /\ cmd'[c].plan = cmd[c].plan
    BY <1>9 DEF CopySnapshot, OpenMetadata, WriteMetadata, Knows, SnapSteps, Locals
  <2> QED
    BY <2>1
<1>5. CASE Wipe(c) \/ Render(c)
  BY <1>1, <1>5 DEF Wipe, Render, RenderFailed
<1>10. CASE Fill(c)
  <2>1. CASE RenderFailed(c)
    BY <1>1, <1>10, <2>1 DEF Fill, RenderFailed
  <2>2. ASSUME NEW r, cmd' = [cmd EXCEPT ![c].dir = r], pc'[c] = "seed",
               Op(c) \notin {"deploy", "stop"}
        PROVE  ~AtStaging(c)'
    <3>1. Op(c) # "config"
      BY <1>10 DEF Fill, Knows, RenderSteps
    <3> QED
      BY <2>2, <3>1 DEF Locals
  <2> QED
    BY <1>10, <2>1, <2>2 DEF Fill
<1>6. CASE Remove(c) \/ Up(c) \/ Compose(c)
  BY <1>1, <1>6 DEF Remove, Up, Compose, Failed
<1>7. CASE Validate(c) \/ Restore(c) \/ RestoreUp(c)
  BY <1>7 DEF Validate, Conclude, Restore, RestoreUp, RestoreFailed
<1>8. CASE OpenRecord(c) \/ WriteRecord(c)
  BY <1>1, <1>8 DEF OpenRecord, WriteRecord
<1> QED
  BY <1>2, <1>3, <1>4, <1>5, <1>6, <1>7, <1>8, <1>9, <1>10 DEF Work, Syncs

\* A step that does not stage over another keeps what the others have staged, and
\* leaves the command itself with what it has staged.
LEMMA StagesAlone ==
  ASSUME TargetTypes, CommandsKnow, StagedAlone, ~restaged', NEW c \in Commands,
         Begin(c) \/ HostLifecycle(c) \/ Work(c) \/ Kill(c)
  PROVE  /\ ~restaged
         /\ AtStaging(c)' => AtStaging(c) \/ ~StagedBeside(c)
         /\ FindsStaged(c)'
         /\ staged' = staged \/ \A d \in Commands : d # c => ~AtStaging(d)
<1>0. /\ pc \in [Commands -> Steps] /\ cmd \in [Commands -> Locals]
      /\ cmd[c] \in Locals /\ Knows(c)
  BY DEF TargetTypes, TargetTypeOK, CommandsKnow
<1>1. ~restaged
  <2>1. CASE Unstage(c)
    BY <2>1 DEF Unstage
  <2> QED
    BY <2>1, AtWork
<1>2. /\ FindsStaged(c)
      /\ \A d \in Commands : AtStaging(c) /\ AtStaging(d) => c = d
  BY <1>1 DEF StagedAlone
<1>3. StagedBeside(c) <=> \E d \in Commands \ {c} : AtStaging(d)
  BY DEF StagedBeside, AtStaging
<1>4. AtStaging(c) => ~StagedBeside(c)
  BY <1>2, <1>3
<1>5. ASSUME pc[c] # "idle", Done(c) \/ Return(c)
      PROVE  ~AtStaging(c)' /\ FindsStaged(c)'
  BY <1>5, IsOver DEF AtStaging, FindsStaged, Staging, Writing
<1>6. CASE Unstage(c)
  <2>3. staged' = staged \/ ~StagedBeside(c)
    BY <1>6 DEF Unstage
  <2>1. CASE Return(c)
    <3>1. pc[c] # "idle"
      BY <1>6 DEF Unstage
    <3>2. ~AtStaging(c)' /\ FindsStaged(c)'
      BY <1>5, <2>1, <3>1
    <3> QED
      BY <1>1, <1>3, <2>3, <3>2
  <2>2. CASE pc'[c] = "stage" /\ ~StagedBeside(c)
    BY <1>1, <1>3, <2>2 DEF FindsStaged, Writing
  <2> QED
    BY <1>0, <1>1, <1>6, <2>1, <2>2 DEF Unstage, Goto
<1>7. CASE Stage(c) \/ OpenStaged(c) \/ WriteStaged(c)
  <2>0. pc[c] \in Staging /\ Op(c) = "config" /\ pc[c] # "idle"
    BY <1>0, <1>7 DEF Stage, OpenStaged, WriteStaged, Knows, StageSteps, Staging
  <2>1. AtStaging(c) /\ ~StagedBeside(c)
    BY <1>4, <2>0 DEF AtStaging
  <2>2. CASE Return(c)
    BY <1>1, <1>3, <1>5, <2>0, <2>1, <2>2
  <2>3. CASE Stage(c) /\ ~Return(c)
    <3>1. staged' = "plain" /\ pc'[c] = "seed"
      BY <1>0, <2>3 DEF Stage, Goto
    <3> QED
      BY <1>1, <1>3, <2>1, <3>1 DEF FindsStaged, Writing
  <2>4. CASE OpenStaged(c) /\ ~Return(c)
    <3>1. pc[c] = "stage_open" /\ pc'[c] = "stage_write" /\ cmd' = cmd
      BY <1>0, <2>4 DEF OpenStaged, Goto
    <3> QED
      BY <1>1, <1>2, <1>3, <2>1, <3>1 DEF FindsStaged, Writing
  <2>5. CASE WriteStaged(c)
    <3>1. /\ pc[c] = "stage_write" /\ pc'[c] = "sync" /\ cmd' = cmd
          /\ staged' = IF cmd[c].seen.own THEN "own" ELSE "plain"
      BY <1>0, <2>1, <2>5 DEF WriteStaged, Goto
    <3> QED
      BY <1>1, <1>2, <1>3, <2>1, <3>1 DEF FindsStaged, Writing
  <2> QED
    BY <1>7, <2>2, <2>3, <2>4, <2>5
<1>8. CASE Seed(c)
  <2>0. pc[c] = "seed" /\ staged' = staged
    BY <1>8 DEF Seed, host
  <2>1. Op(c) = "config" => AtStaging(c) /\ staged = "plain"
    BY <1>2, <2>0 DEF AtStaging, Staging, FindsStaged
  <2>2. CASE Failed(c)
    <3>1. CASE Return(c)
      BY <1>1, <1>5, <2>0, <3>1
    <3>2. CASE pc'[c] = "validate"
      BY <1>1, <2>0, <3>2 DEF AtStaging, Staging, FindsStaged, Writing
    <3> QED
      BY <1>0, <2>2, <3>1, <3>2 DEF Failed, Goto
  <2>3. CASE pc'[c] = AfterSync(c)
    <3>1. pc'[c] \in {"remove", "compose"}
      BY <2>3 DEF AfterSync
    <3> QED
      BY <1>1, <2>0, <3>1 DEF AtStaging, Staging, FindsStaged, Writing
  <2>4. CASE /\ cmd' = [cmd EXCEPT ![c].seen = [valid |-> TRUE, own |-> Merge(root)]]
             /\ pc'[c] = IF Op(c) = "config" THEN "stage_open" ELSE "sync"
    <3>1. cmd'[c].seen.valid /\ Op(c)' = Op(c)
      BY <1>0, <2>4 DEF Locals, Op
    <3> QED
      BY <1>1, <2>0, <2>1, <2>4, <3>1 DEF AtStaging, Staging, FindsStaged
  <2> QED
    BY <1>0, <1>8, <2>1, <2>2, <2>3, <2>4 DEF Seed, Goto
<1>9. CASE OpenRoot(c)
  <2>0. pc[c] = "sync" /\ staged' = staged /\ cmd[c].seen.valid
    BY <1>2, <1>9 DEF OpenRoot, FindsStaged, Writing
  <2>1. Op(c) = "config" => staged \in {"own", "plain"}
    BY <1>2, <2>0 DEF FindsStaged
  <2>2. CASE Done(c)
    BY <1>1, <1>5, <2>0, <2>2
  <2>3. CASE pc'[c] = "synced" /\ ~Done(c)
    <3>1. cmd' = [cmd EXCEPT ![c].seen =
                     IF Op(c) = "config"
                     THEN [valid |-> staged # "torn", own |-> staged = "own"] ELSE @]
      BY <1>9, <2>3 DEF OpenRoot
    <3>2. cmd'[c].seen.valid
      <4>1. CASE Op(c) = "config"
        BY <1>0, <2>1, <3>1, <4>1 DEF Locals
      <4>2. CASE Op(c) # "config"
        BY <1>0, <2>0, <3>1, <4>2 DEF Locals
      <4> QED
        BY <4>1, <4>2
    <3> QED
      BY <1>1, <2>0, <2>3, <3>2 DEF AtStaging, Staging, FindsStaged
  <2> QED
    BY <1>0, <1>9, <2>2, <2>3 DEF OpenRoot, Goto
<1>10. CASE WriteRoot(c)
  <2>0. pc[c] = "synced" /\ staged' = staged
    BY <1>10 DEF WriteRoot
  <2>1. CASE Done(c)
    BY <1>1, <1>5, <2>0, <2>1
  <2>2. CASE pc'[c] = AfterSync(c)
    <3>1. pc'[c] \in {"remove", "compose"}
      BY <2>2 DEF AfterSync
    <3> QED
      BY <1>1, <2>0, <3>1 DEF AtStaging, Staging, FindsStaged, Writing
  <2> QED
    BY <1>0, <1>10, <2>1, <2>2 DEF WriteRoot, Goto
<1>11. CASE ~Syncs(c)
  <2>1. staged' = staged /\ pc'[c] \notin Writing
    BY <1>11, RootStays
  <2>2. ~AtStaging(c)'
    BY <1>0, <1>11, NotStaging
  <2> QED
    BY <1>1, <2>1, <2>2 DEF AtStaging, Staging, FindsStaged, Writing
<1> QED
  BY <1>6, <1>7, <1>8, <1>9, <1>10, <1>11 DEF Syncs

LEMMA StagedAloneKept ==
  ASSUME TargetTypes, CommandsKnow, TargetAlone, StagedAlone, [Next]_vars
  PROVE  StagedAlone'
<1>1. ASSUME NEW c \in Commands, Begin(c) \/ HostLifecycle(c) \/ Work(c) \/ Kill(c)
      PROVE  StagedAlone'
  <2>1. restaged' => overlapped'
    <3>1. CASE Unstage(c) /\ StagedBeside(c)
      <4>1. pc[c] # "idle" /\ \E d \in Commands : d # c /\ pc[d] # "idle"
        BY <3>1 DEF Unstage, StagedBeside, Staging
      <4> QED
        BY <1>1, <4>1, OverlapStays DEF TargetAlone, Next
    <3>2. CASE ~(Unstage(c) /\ StagedBeside(c))
      <4>1. restaged' = restaged
        <5>1. CASE Unstage(c)
          BY <3>2, <5>1 DEF Unstage, TargetTypes
        <5> QED
          BY <1>1, <5>1, AtWork
      <4> QED
        BY <1>1, <4>1, OverlapStays DEF StagedAlone, Next
    <3> QED
      BY <3>1, <3>2
  <2>2. ASSUME ~restaged'
        PROVE  /\ \A d, e \in Commands : AtStaging(d)' /\ AtStaging(e)' => d = e
               /\ \A d \in Commands : FindsStaged(d)'
    <3>1. /\ ~restaged /\ FindsStaged(c)'
          /\ AtStaging(c)' => AtStaging(c) \/ ~StagedBeside(c)
          /\ staged' = staged \/ \A d \in Commands : d # c => ~AtStaging(d)
      BY <1>1, <2>2, StagesAlone
    <3>2. /\ \A d, e \in Commands : AtStaging(d) /\ AtStaging(e) => d = e
          /\ \A d \in Commands : FindsStaged(d)
      BY <3>1 DEF StagedAlone
    <3>3. \A d \in Commands : d # c => pc'[d] = pc[d] /\ cmd'[d] = cmd[d]
      BY <1>1, OthersStay
    <3>4. \A d \in Commands : d # c => AtStaging(d)' = AtStaging(d)
      BY <3>3 DEF AtStaging, Op
    <3>5. StagedBeside(c) <=> \E d \in Commands \ {c} : AtStaging(d)
      BY DEF StagedBeside, AtStaging
    <3>6. \A d, e \in Commands : AtStaging(d)' /\ AtStaging(e)' => d = e
      BY <3>1, <3>2, <3>4, <3>5
    <3>7. ASSUME NEW d \in Commands, d # c
          PROVE  FindsStaged(d)'
      BY <3>1, <3>2, <3>3, <3>7 DEF FindsStaged, AtStaging, Staging, Op
    <3> QED
      BY <3>1, <3>6, <3>7
  <2> QED
    BY <2>1, <2>2 DEF StagedAlone
<1>2. CASE UNCHANGED <<pc, cmd, staged, restaged, overlapped>>
  BY <1>2 DEF StagedAlone, FindsStaged, AtStaging, Op
<1> QED
  BY <1>1, <1>2 DEF Next, OpenClawWrites, vars, host, history

\* OpenClaw writes what is its own, and races with a command about to write.
LEMMA OpenClawKeeps ==
  ASSUME TargetTypes, OpenClawWrites
  PROVE  /\ root'.valid /\ root'.own /\ root.valid
         /\ UNCHANGED <<pc, cmd, used, containers, restaged, overlapped>>
         /\ ~raced' => ~raced /\ \A c \in Commands : pc[c] \notin Writing
  BY DEF OpenClawWrites, TargetTypes, TargetTypeOK, Root, Writing

LEMMA OwnIsKeptKept ==
  ASSUME TargetTypes, CommandsKnow, StagedAlone, OwnIsKept, [Next]_vars
  PROVE  OwnIsKept'
<1>0. cmd \in [Commands -> Locals] /\ pc \in [Commands -> Steps] /\ root \in Root
  BY DEF TargetTypes, TargetTypeOK
<1>1. ASSUME NEW c \in Commands, Begin(c) \/ HostLifecycle(c) \/ Work(c) \/ Kill(c),
             written', ~raced', ~restaged'
      PROVE  /\ root'.valid => root'.own
             /\ \A d \in Commands : pc'[d] \in Writing => cmd'[d].seen.own
  <2>1. written /\ ~raced /\ ~restaged
    BY <1>1, AtWork, StagesAlone
  <2>2. /\ root.valid => root.own
        /\ \A d \in Commands : pc[d] \in Writing => cmd[d].seen.own
        /\ FindsStaged(c)
    BY <2>1 DEF OwnIsKept, StagedAlone
  <2>3. \A d \in Commands : d # c => pc'[d] = pc[d] /\ cmd'[d] = cmd[d]
    BY <1>1, OthersStay
  <2>4. ASSUME pc[c] # "idle", Done(c) \/ Return(c)
        PROVE  pc'[c] \notin Writing
    BY <2>4, IsOver DEF Writing
  <2>5. ASSUME pc'[c] = AfterSync(c)
        PROVE  pc'[c] \notin Writing
    BY <2>5 DEF AfterSync, Writing
  <2>6. CASE Unstage(c) \/ Stage(c)
    <3>1. root' = root /\ pc'[c] \notin Writing
      BY <1>0, <2>4, <2>6 DEF Unstage, Stage, Goto, Writing
    <3> QED
      BY <2>2, <2>3, <3>1
  <2>7. CASE OpenStaged(c) \/ WriteStaged(c)
    <3>1. root' = root /\ pc[c] \in Writing /\ (cmd' = cmd \/ pc'[c] \notin Writing)
      BY <2>4, <2>7 DEF OpenStaged, WriteStaged, Writing
    <3> QED
      BY <2>2, <2>3, <3>1
  <2>8. CASE Seed(c)
    <3>1. root' = root /\ pc[c] = "seed"
      BY <2>8 DEF Seed, host
    <3>2. pc'[c] \in Writing => cmd'[c].seen.own
      <4>1. CASE Failed(c)
        BY <1>0, <2>4, <3>1, <4>1 DEF Failed, Goto, Writing
      <4>2. CASE pc'[c] = AfterSync(c)
        BY <2>5, <4>2
      <4>3. CASE /\ root.valid
                 /\ cmd' = [cmd EXCEPT ![c].seen = [valid |-> TRUE, own |-> Merge(root)]]
        BY <1>0, <2>2, <4>3 DEF Merge, Locals
      <4>4. ~(Op(c) = "config" /\ staged = "missing")
        BY <2>2, <3>1 DEF FindsStaged
      <4> QED
        BY <1>0, <2>8, <4>1, <4>2, <4>3, <4>4 DEF Seed, Goto
    <3> QED
      BY <2>2, <2>3, <3>1, <3>2
  <2>9. CASE OpenRoot(c)
    <3>1. pc[c] = "sync" /\ (root' = root \/ ~root'.valid) /\ cmd[c].seen.own
      BY <2>2, <2>9 DEF OpenRoot, Writing
    <3>2. Op(c) = "config" => staged = "own"
      BY <2>2, <3>1 DEF FindsStaged
    <3>3. pc'[c] \in Writing => cmd'[c].seen.own
      <4>1. CASE Done(c)
        BY <2>4, <3>1, <4>1
      <4>2. CASE cmd' = [cmd EXCEPT ![c].seen =
                            IF Op(c) = "config"
                            THEN [valid |-> staged # "torn", own |-> staged = "own"] ELSE @]
        <5>1. CASE Op(c) = "config"
          BY <1>0, <3>2, <4>2, <5>1 DEF Locals
        <5>2. CASE Op(c) # "config"
          BY <1>0, <3>1, <4>2, <5>2 DEF Locals
        <5> QED
          BY <5>1, <5>2
      <4> QED
        BY <2>9, <4>1, <4>2 DEF OpenRoot
    <3> QED
      BY <2>2, <2>3, <3>1, <3>3
  <2>10. CASE WriteRoot(c)
    <3>1. root'.own /\ pc[c] = "synced"
      BY <2>2, <2>10 DEF WriteRoot, Writing
    <3>2. pc'[c] \notin Writing
      BY <1>0, <2>4, <2>5, <2>10, <3>1 DEF WriteRoot, Goto
    <3> QED
      BY <2>2, <2>3, <3>1, <3>2
  <2> QED
    BY <1>1, <2>2, <2>3, <2>6, <2>7, <2>8, <2>9, <2>10, RootStays DEF Syncs
<1>2. CASE OpenClawWrites
  BY <1>2, OpenClawKeeps DEF OwnIsKept
<1>3. CASE UNCHANGED vars
  BY <1>3 DEF OwnIsKept, vars, host, history
<1> QED
  BY <1>1, <1>2, <1>3 DEF Next, OwnIsKept

\* The counts of what went wrong only grow.
LEMMA UsedGrows ==
  ASSUME TargetTypes, [Next]_vars
  PROVE  /\ used.kills <= used'.kills /\ used.failures <= used'.failures
         /\ used.kills \in Nat /\ used.failures \in Nat
         /\ used'.kills \in Nat /\ used'.failures \in Nat
<1>0. used \in [commands : Nat, failures : Nat, kills : Nat]
  BY DEF TargetTypes
<1>1. \/ used' = used
      \/ \E field \in {"commands", "failures", "kills"} :
            used' = [used EXCEPT ![field] = @ + 1]
  <2>1. ASSUME NEW c \in Commands, Begin(c) \/ HostLifecycle(c) \/ Kill(c)
        PROVE  \/ used' = [used EXCEPT !.commands = @ + 1]
               \/ used' = [used EXCEPT !.kills = @ + 1]
    BY <2>1 DEF Begin, HostLifecycle, Kill
  <2>2. ASSUME NEW c \in Commands, Work(c)
        PROVE  used' = used \/ used' = [used EXCEPT !.failures = @ + 1]
    BY <2>2 DEF Work, First, Wipe, Render, Fill, Inspect, CopySnapshot, OpenMetadata,
                WriteMetadata, Unstage, Stage, Seed, OpenStaged, WriteStaged, OpenRoot,
                WriteRoot, Remove, Up, Compose, Validate, Restore, RestoreUp, OpenRecord,
                WriteRecord, ComposeUp, NoFault, Fault
  <2> QED
    BY <2>1, <2>2 DEF Next, OpenClawWrites, vars
<1> QED
  BY <1>0, <1>1

\* A command that has emptied the file goes on with nothing but to write it.
LEMMA SyncedWrites ==
  ASSUME NEW c \in Commands, pc[c] = "synced",
         Begin(c) \/ HostLifecycle(c) \/ Work(c) \/ Kill(c)
  PROVE  WriteRoot(c) \/ Kill(c)
  BY DEF Begin, HostLifecycle, Accept, Work, First, Wipe, Render, Fill, Inspect, CopySnapshot,
         OpenMetadata, WriteMetadata, Unstage, Stage, Seed, OpenStaged, WriteStaged, OpenRoot,
         Remove, Up, Compose, Validate, Restore, RestoreUp, OpenRecord, WriteRecord

LEMMA RootIsWholeKept ==
  ASSUME TargetTypes, CommandsKnow, StagedAlone, RootIsWhole, [Next]_vars
  PROVE  RootIsWhole'
<1>0. cmd \in [Commands -> Locals] /\ pc \in [Commands -> Steps] /\ root \in Root
  BY DEF TargetTypes, TargetTypeOK
<1>1. ASSUME NEW c \in Commands, Begin(c) \/ HostLifecycle(c) \/ Work(c) \/ Kill(c),
             ~restaged', ~root'.valid, ~(used'.kills > 0)
      PROVE  \E d \in Commands : pc'[d] = "synced"
  <2>1. ~restaged /\ FindsStaged(c)
    BY <1>1, StagesAlone DEF StagedAlone
  <2>2. ~(used.kills > 0) /\ ~Kill(c)
    BY <1>1, UsedGrows DEF Next, Kill, TargetTypes
  <2>3. ~WriteRoot(c)
    BY <1>1, <2>1 DEF WriteRoot, FindsStaged, Writing
  <2>4. CASE root' = root
    <3>1. PICK d \in Commands : pc[d] = "synced"
      BY <1>1, <2>1, <2>2, <2>4 DEF RootIsWhole
    <3>2. d # c
      BY <1>1, <2>2, <2>3, <3>1, SyncedWrites
    <3> QED
      BY <1>1, <3>1, <3>2, OthersStay
  <2>5. CASE OpenRoot(c) /\ root' # root
    BY <1>0, <2>5 DEF OpenRoot, Goto
  <2>6. CASE Syncs(c) /\ ~OpenRoot(c)
    <3>1. root' = root
      BY <2>3, <2>6 DEF Syncs, Unstage, Stage, Seed, OpenStaged, WriteStaged, host
    <3> QED
      BY <2>4, <3>1
  <2> QED
    BY <1>1, <2>4, <2>5, <2>6, RootStays
<1>2. CASE OpenClawWrites
  BY <1>2, OpenClawKeeps DEF RootIsWhole
<1>3. CASE UNCHANGED vars
  BY <1>3 DEF RootIsWhole, vars, host, history
<1> QED
  BY <1>1, <1>2, <1>3 DEF Next, RootIsWhole

-----------------------------------------------------------------------------
(* The target: containers and records.                                     *)

LEMMA WentWrongGrows ==
  ASSUME TargetTypes, [Next]_vars
  PROVE  /\ WentWrong \in Nat /\ WentWrong' \in Nat /\ WentWrong <= WentWrong'
         /\ Fault => WentWrong' = WentWrong + 1 /\ used'.failures # used.failures
         /\ NoFault => WentWrong' = WentWrong /\ used'.failures = used.failures
<1>1. WentWrong \in Nat /\ WentWrong' \in Nat /\ WentWrong <= WentWrong'
  BY UsedGrows DEF WentWrong
<1>2. ASSUME Fault
      PROVE  used'.failures = used.failures + 1 /\ used'.kills = used.kills
  BY <1>2 DEF Fault, TargetTypes
<1>3. ASSUME NoFault
      PROVE  used'.failures = used.failures /\ used'.kills = used.kills
  BY <1>3 DEF NoFault
<1> QED
  BY <1>1, <1>2, <1>3, UsedGrows DEF WentWrong

LEMMA NothingToHold ==
  ASSUME NEW c \in Commands, pc'[c] \in RenderSteps \cup StageSteps \cup {"idle", "begin", "compose"}
  PROVE  Undoable(c)' /\ Truthful(c)'
  BY DEF Undoable, Truthful, DeploySteps, SnapSteps, RecordSteps, RenderSteps, StageSteps

LEMMA OverHolds ==
  ASSUME TargetTypes, NEW c \in Commands, pc[c] # "idle", Done(c) \/ Return(c)
  PROVE  Undoable(c)' /\ Truthful(c)'
  BY IsOver, NothingToHold

\* A step before the containers are removed.
LEMMA StillUp ==
  ASSUME NEW c \in Commands, Undoable(c), containers' = containers,
         pc[c] \in DeploySteps \ {"up"}, pc'[c] \in DeploySteps \ {"up"},
         Op(c)' = Op(c), cmd'[c].snap = cmd[c].snap
  PROVE  Undoable(c)' /\ Truthful(c)'
  BY DEF Undoable, Truthful, DeploySteps, SnapSteps, RecordSteps

\* A primitive of a deploy fails before the containers are removed.
LEMMA FailedHolds ==
  ASSUME TargetTypes, [Next]_vars, NEW c \in Commands, Knows(c),
         pc[c] \in {"seed", "remove"}, Failed(c), Op(c) = "deploy", WentWrong' > 0
  PROVE  Undoable(c)' /\ Truthful(c)'
<1>1. /\ pc'[c] = "validate" /\ ~cmd'[c].restored /\ ~cmd'[c].ok
  <2>1. ~cmd[c].restored
    BY DEF Knows, MakingSteps, DeploySteps
  <2>2. pc' = [pc EXCEPT ![c] = "validate"] /\ cmd'[c] = [cmd[c] EXCEPT !.ok = FALSE]
    BY DEF Failed, Goto, TargetTypes
  <2> QED
    BY <2>1, <2>2 DEF TargetTypes, TargetTypeOK, Locals
<1> QED
  BY <1>1 DEF Undoable, Truthful, DeploySteps, SnapSteps, RecordSteps

LEMMA RenderHolds ==
  ASSUME TargetTypes, [Next]_vars, NEW c \in Commands, Knows(c), Undoable(c), Truthful(c),
         First(c) \/ Wipe(c) \/ Render(c) \/ Fill(c) \/ Inspect(c) \/ CopySnapshot(c)
         \/ OpenMetadata(c) \/ WriteMetadata(c)
  PROVE  Undoable(c)' /\ Truthful(c)'
<1>0. cmd \in [Commands -> Locals] /\ pc \in [Commands -> Steps] /\ Len(snaps) \in Nat
  BY DEF TargetTypes, TargetTypeOK
<1> USE <1>0 DEF Goto, host, SnapSteps, DeploySteps, MakingSteps, RecordSteps, RenderSteps,
             StageSteps
<1>1. ASSUME pc[c] \in {"begin", "wipe", "render", "fill", "snap_copy"}, containers' = containers,
             cmd' = [cmd EXCEPT ![c].ok = FALSE], pc'[c] = "record"
      PROVE  Undoable(c)' /\ Truthful(c)'
  <2>1. /\ cmd'[c].plan = cmd[c].plan /\ cmd'[c].snap = cmd[c].snap
        /\ ~cmd'[c].ok /\ cmd'[c].verdict = "null"
    BY <1>1 DEF Knows, Locals
  <2>2. (Op(c) = "deploy" /\ cmd[c].snap # 0) => containers.up
    BY <1>1 DEF Knows, Undoable
  <2> QED
    BY <1>1, <2>1, <2>2 DEF Undoable, Truthful, Op
<1>2. CASE First(c)
  <2>1. CASE Return(c)
    BY <1>2, <2>1, OverHolds DEF First
  <2>2. CASE cmd' = cmd /\ Op(c) # "rollback"
    BY <1>2, <2>2, NothingToHold DEF First
  <2>3. CASE cmd' = [cmd EXCEPT ![c].ok = FALSE] /\ pc'[c] = "record"
    BY <1>1, <1>2, <2>3 DEF First
  <2>4. ASSUME NEW n, cmd' = [cmd EXCEPT ![c].snap = n], Op(c) = "rollback",
               pc'[c] = "restore"
        PROVE  Undoable(c)' /\ Truthful(c)'
    <3>1. Op(c)' = "rollback"
      BY <2>4 DEF Op, Locals
    <3> QED
      BY <2>4, <3>1 DEF Undoable, Truthful
  <2> QED
    BY <1>2, <2>1, <2>2, <2>3, <2>4 DEF First
<1>8. ASSUME pc[c] \in RenderSteps, containers' = containers, RenderFailed(c)
      PROVE  Undoable(c)' /\ Truthful(c)'
  BY <1>1, <1>8, OverHolds DEF RenderFailed
<1>3. CASE Wipe(c) \/ Render(c)
  <2>1. CASE pc'[c] \in {"render", "fill"}
    BY <2>1, NothingToHold
  <2> QED
    BY <1>3, <1>8, <2>1 DEF Wipe, Render
<1>4. CASE Fill(c)
  <2>1. CASE RenderFailed(c)
    BY <1>4, <1>8, <2>1 DEF Fill
  <2>3. ASSUME NEW r \in Revisions, cmd' = [cmd EXCEPT ![c].dir = r],
               pc'[c] \in {"inspect", "compose", "seed"}
        PROVE  Undoable(c)' /\ Truthful(c)'
    <3>1. cmd'[c].snap = 0
      BY <1>4, <2>3 DEF Fill, Knows, Locals
    <3> QED
      BY <2>3, <3>1 DEF Undoable, Truthful
  <2> QED
    BY <1>4, <2>1, <2>3 DEF Fill
<1>5. CASE Inspect(c)
  <2>1. CASE cmd' = cmd /\ pc'[c] = "seed"
    BY <1>5, <2>1 DEF Inspect, Knows, Undoable, Truthful
  <2>2. CASE containers.up /\ pc'[c] = "snap_copy"
    BY <1>5, <2>2 DEF Inspect, Undoable, Truthful
  <2> QED
    BY <1>5, <2>1, <2>2 DEF Inspect
<1>6. CASE CopySnapshot(c)
  <2>1. CASE cmd' = cmd /\ pc'[c] = "snap_meta"
    BY <1>6, <2>1, StillUp DEF CopySnapshot, Op
  <2> QED
    BY <1>1, <1>6, <2>1 DEF CopySnapshot
<1>7. CASE OpenMetadata(c) \/ WriteMetadata(c)
  BY <1>7, StillUp DEF OpenMetadata, WriteMetadata, Op
<1> QED
  BY <1>2, <1>3, <1>4, <1>5, <1>6, <1>7

LEMMA SyncHolds ==
  ASSUME TargetTypes, TargetAlone, StagedAlone, RootIsWhole, [Next]_vars, ~overlapped,
         NEW c \in Commands, Knows(c), Undoable(c), Truthful(c),
         Seed(c) \/ OpenRoot(c) \/ WriteRoot(c)
  PROVE  Undoable(c)' /\ Truthful(c)'
<1>0. cmd \in [Commands -> Locals] /\ pc \in [Commands -> Steps] /\ Len(snaps) \in Nat
  BY DEF TargetTypes, TargetTypeOK
<1> USE <1>0 DEF Goto, host, SnapSteps, DeploySteps, Op
<1>1. ASSUME pc[c] \in {"seed", "synced"}, containers' = containers, cmd' = cmd,
             pc'[c] = AfterSync(c)
      PROVE  Undoable(c)' /\ Truthful(c)'
  <2>1. CASE Op(c) = "deploy"
    BY <1>1, <2>1, StillUp DEF AfterSync
  <2>2. CASE Op(c) # "deploy"
    BY <1>1, <2>2, NothingToHold DEF AfterSync
  <2> QED
    BY <2>1, <2>2
<1>2. CASE Seed(c)
  <2>1. pc[c] = "seed" /\ containers' = containers
    BY <1>2 DEF Seed
  <2>2. CASE Failed(c)
    <3>1. CASE Op(c) # "deploy"
      BY <2>1, <2>2, <3>1, OverHolds DEF Failed
    <3>2. CASE Op(c) = "deploy" /\ Fault
      BY <2>1, <2>2, <3>2, FailedHolds, WentWrongGrows
    <3>3. CASE Op(c) = "deploy" /\ ~root.valid
      <4>1. \A d \in Commands : pc[d] # "synced"
        BY <2>1 DEF TargetAlone
      <4>2. used.kills > 0
        BY <3>3, <4>1 DEF StagedAlone, RootIsWhole
      <4>3. WentWrong' > 0
        BY <4>2, UsedGrows DEF WentWrong
      <4> QED
        BY <2>1, <2>2, <3>3, <4>3, FailedHolds
    <3>4. Op(c) = "deploy" => Fault \/ ~root.valid
      <4>1. pc'[c] \notin {"stage_open", "sync", "remove", "compose"}
        BY <2>1, <2>2, IsOver DEF Failed
      <4> QED
        BY <1>2, <2>1, <4>1 DEF Seed, AfterSync
    <3> QED
      BY <3>1, <3>2, <3>3, <3>4
  <2>3. CASE cmd' = cmd /\ pc'[c] = AfterSync(c)
    BY <1>1, <2>1, <2>3
  <2>4. ASSUME NEW seen, cmd' = [cmd EXCEPT ![c].seen = seen],
               pc'[c] = IF Op(c) = "config" THEN "stage_open" ELSE "sync"
        PROVE  Undoable(c)' /\ Truthful(c)'
    <3>1. cmd'[c].plan = cmd[c].plan /\ cmd'[c].snap = cmd[c].snap
      BY <2>4 DEF Locals
    <3> QED
      BY <2>1, <2>4, <3>1, StillUp, NothingToHold DEF StageSteps
  <2>5. CASE cmd' = cmd /\ pc'[c] = "sync"
    BY <2>1, <2>5, StillUp
  <2> QED
    BY <1>2, <2>2, <2>3, <2>4, <2>5 DEF Seed
<1>3. CASE OpenRoot(c)
  <2>1. CASE Done(c)
    BY <1>3, <2>1, OverHolds DEF OpenRoot
  <2>2. ASSUME NEW seen, cmd' = [cmd EXCEPT ![c].seen = seen], pc'[c] = "synced"
        PROVE  Undoable(c)' /\ Truthful(c)'
    <3>1. cmd'[c].plan = cmd[c].plan /\ cmd'[c].snap = cmd[c].snap
      BY <2>2 DEF Locals
    <3> QED
      BY <1>3, <2>2, <3>1, StillUp DEF OpenRoot
  <2> QED
    BY <1>3, <2>1, <2>2 DEF OpenRoot
<1>4. CASE WriteRoot(c)
  BY <1>1, <1>4, OverHolds DEF WriteRoot
<1> QED
  BY <1>2, <1>3, <1>4


LEMMA RevisionsAreSome ==
  None \notin Startable /\ Torn \notin Startable /\ Revisions \subseteq Startable
  BY TargetAssumption DEF Startable, None, Torn, Part

LEMMA MakeHolds ==
  ASSUME TargetTypes, CommandsKnow, OwnRender, [Next]_vars, ~overlapped, NEW c \in Commands,
         Undoable(c), Truthful(c), Remove(c) \/ Up(c) \/ Compose(c)
  PROVE  Undoable(c)' /\ Truthful(c)'
<1>0. /\ cmd \in [Commands -> Locals] /\ pc \in [Commands -> Steps] /\ Len(snaps) \in Nat
      /\ Knows(c)
  BY DEF TargetTypes, TargetTypeOK, CommandsKnow
<1> USE <1>0 DEF Goto, host, SnapSteps, DeploySteps, Op
<1>1. CASE Remove(c)
  <2>1. CASE pc'[c] = "up"
    BY <2>1 DEF Undoable, Truthful, RecordSteps
  <2>2. CASE Failed(c) /\ Fault
    BY <1>1, <2>2, FailedHolds, WentWrongGrows DEF Remove, Knows
  <2> QED
    BY <1>1, <2>1, <2>2 DEF Remove
<1>2. CASE Up(c)
  <2>1. /\ pc[c] = "up" /\ pc'[c] = "validate" /\ Op(c) = "deploy"
        /\ Dir(c) = cmd[c].dir /\ Dir(c) \in Startable
    BY <1>2, DirIsWhole, RevisionsAreSome DEF Up, Knows
  <2>2. /\ cmd'[c].plan = cmd[c].plan /\ cmd'[c].snap = cmd[c].snap
        /\ cmd'[c].dir = cmd[c].dir /\ cmd'[c].restored = cmd[c].restored
        /\ cmd'[c].ok = (cmd[c].ok /\ Dir(c) \in Startable /\ used'.failures = used.failures)
    BY <1>2 DEF Up, Locals
  <2>3. cmd[c].ok /\ ~cmd[c].restored
    BY <2>1 DEF Knows, MakingSteps
  <2>4. \/ containers' = [rev |-> cmd[c].dir, up |-> TRUE] /\ NoFault
        \/ Fault
    BY <1>2, <2>1 DEF Up, ComposeUp
  <2>5. CASE containers' = [rev |-> cmd[c].dir, up |-> TRUE] /\ NoFault
    <3>1. cmd'[c].ok /\ containers'.up
      BY <2>1, <2>2, <2>3, <2>5, WentWrongGrows
    <3> QED
      BY <2>1, <2>2, <2>3, <2>5, <3>1 DEF Undoable, Truthful, RecordSteps
  <2>6. CASE Fault
    <3>0. used'.failures # used.failures /\ WentWrong \in Nat /\ WentWrong' = WentWrong + 1
      BY <2>6, WentWrongGrows
    <3>1. ~cmd'[c].ok
      BY <2>2, <3>0
    <3>2. WentWrong' > 0
      BY <3>0
    <3> QED
      BY <2>1, <2>2, <2>3, <3>1, <3>2 DEF Undoable, Truthful, RecordSteps
  <2> QED
    BY <2>4, <2>5, <2>6
<1>3. CASE Compose(c)
  BY <1>3, OverHolds DEF Compose
<1> QED
  BY <1>1, <1>2, <1>3

LEMMA RestoreHolds ==
  ASSUME TargetTypes, CommandsKnow, CopyFirst, [Next]_vars, ~overlapped, NEW c \in Commands,
         Undoable(c), Truthful(c), Restore(c) \/ RestoreUp(c)
  PROVE  Undoable(c)' /\ Truthful(c)'
<1>0. /\ cmd \in [Commands -> Locals] /\ pc \in [Commands -> Steps] /\ Len(snaps) \in Nat
      /\ Knows(c) /\ Op(c) \in {"deploy", "rollback"} /\ cmd[c].snap # 0
      /\ pc[c] \in {"restore", "restore_up"}
      /\ Op(c) = "deploy" => ~cmd[c].ok /\ WentWrong > 0
      /\ Op(c) = "rollback" => cmd[c].verdict = "null"
  <2>1. pc[c] \in {"restore", "restore_up"} /\ Knows(c)
    BY DEF Restore, RestoreUp, CommandsKnow
  <2> QED
    BY <2>1 DEF TargetTypes, TargetTypeOK, Knows, Restoring, Undoable
<1> USE <1>0 DEF Goto, host, SnapSteps, DeploySteps, Op
\* The restore of a deploy that fails is the second thing that went wrong.
<1>1. ASSUME RestoreFailed(c), Op(c) = "deploy" => WentWrong' > 1
      PROVE  Undoable(c)' /\ Truthful(c)'
  <2>1. /\ cmd'[c].plan = cmd[c].plan /\ cmd'[c].snap = cmd[c].snap
        /\ ~cmd'[c].ok /\ cmd'[c].verdict = cmd[c].verdict
    BY <1>1 DEF RestoreFailed, Locals
  <2>2. CASE Op(c) = "deploy"
    <3>1. pc'[c] = "record" /\ ~(WentWrong' <= 1)
      BY <1>1, <2>2, WentWrongGrows DEF RestoreFailed
    <3> QED
      BY <2>1, <3>1 DEF Undoable, Truthful
  <2>3. CASE Op(c) = "rollback"
    BY <1>1, <2>1, <2>3 DEF Undoable, Truthful, RestoreFailed, RecordSteps
  <2> QED
    BY <2>2, <2>3
<1>2. CASE Restore(c)
  <2>1. CASE pc'[c] = "restore_up" /\ cmd' = cmd
    BY <2>1, WentWrongGrows DEF Undoable, Truthful, RecordSteps
  <2>2. CASE RestoreFailed(c) /\ Fault
    BY <1>1, <2>2, WentWrongGrows
  <2> QED
    BY <1>2, <2>1, <2>2 DEF Restore
<1>3. CASE RestoreUp(c)
  <2> DEFINE copy == snaps[cmd[c].snap].copy
  <2>1. Op(c) = "deploy" => copy \in Startable
    BY <1>3, RevisionsAreSome DEF RestoreUp, CopyFirst
  <2>2. CASE copy \in Startable /\ used'.failures = used.failures
    <3>1. cmd' = [cmd EXCEPT ![c].restored = TRUE] /\ pc'[c] = "validate"
      BY <1>3, <2>2 DEF RestoreUp
    <3>2. /\ cmd'[c].plan = cmd[c].plan /\ cmd'[c].restored /\ cmd'[c].ok = cmd[c].ok
          /\ cmd'[c].snap = cmd[c].snap
      BY <3>1 DEF Locals
    <3>3. ~Fault
      BY <2>2, WentWrongGrows
    <3>4. containers'.up
      BY <1>3, <2>2, <3>3 DEF RestoreUp, ComposeUp
    <3> QED
      BY <3>1, <3>2, <3>4 DEF Undoable, Truthful, RecordSteps
  <2>3. CASE ~(copy \in Startable /\ used'.failures = used.failures)
    <3>1. RestoreFailed(c)
      BY <1>3, <2>3 DEF RestoreUp
    <3>2. Op(c) = "deploy" => Fault
      BY <1>3, <2>1, <2>3, WentWrongGrows DEF RestoreUp, ComposeUp
    <3> QED
      BY <1>1, <3>1, <3>2, WentWrongGrows
  <2> QED
    BY <2>2, <2>3
<1> QED
  BY <1>2, <1>3


LEMMA ValidateHolds ==
  ASSUME TargetTypes, CommandsKnow, [Next]_vars, ~overlapped, NEW c \in Commands,
         Undoable(c), Truthful(c), Validate(c)
  PROVE  Undoable(c)' /\ Truthful(c)'
<1>0. /\ cmd \in [Commands -> Locals] /\ pc \in [Commands -> Steps]
      /\ Knows(c) /\ Op(c) \in {"deploy", "rollback"}
      /\ pc[c] = "validate" /\ containers' = containers
      /\ WentWrong \in Nat /\ WentWrong' \in Nat /\ WentWrong <= WentWrong'
      /\ cmd[c].restored => cmd[c].snap # 0
      /\ cmd[c].restored /\ Op(c) = "deploy" => ~cmd[c].ok
      /\ cmd[c].restored /\ Op(c) = "rollback" => cmd[c].verdict = "null"
      /\ ~cmd[c].restored => cmd[c].verdict = "null"
  <2>1. pc[c] = "validate" /\ Knows(c) /\ containers' = containers
    BY DEF Validate, CommandsKnow, host
  <2> QED
    BY <2>1, WentWrongGrows DEF TargetTypes, TargetTypeOK, Knows, Restoring
<1> USE <1>0 DEF Goto, SnapSteps, DeploySteps, RecordSteps, Op
<1>1. ASSUME NEW verdict \in Verdicts, Conclude(c, verdict),
             \/ verdict = "pass" /\ containers.up
             \/ WentWrong' > 0 /\ verdict # "pass"
             \/ ~containers.up /\ verdict # "pass"
      PROVE  Undoable(c)' /\ Truthful(c)'
  <2>1. /\ cmd'[c].plan = cmd[c].plan /\ cmd'[c].snap = cmd[c].snap
        /\ cmd'[c].dir = cmd[c].dir /\ cmd'[c].restored = cmd[c].restored
        /\ cmd'[c].ok = (cmd[c].ok /\ verdict = "pass")
        /\ cmd'[c].verdict = IF cmd[c].restored /\ verdict = "null" THEN cmd[c].verdict ELSE verdict
    BY <1>1 DEF Conclude, Locals
  <2>2. (Op(c) = "deploy" /\ cmd[c].snap # 0 /\ cmd[c].restored) => containers.up
    BY DEF Undoable
  <2>3. (Op(c) = "deploy" /\ cmd[c].snap # 0 /\ ~cmd[c].restored)
        => WentWrong > 0 \/ (containers.up /\ cmd[c].ok)
    BY DEF Undoable
  <2>4. (Op(c) = "deploy" /\ cmd[c].ok) => containers = [rev |-> cmd[c].dir, up |-> TRUE]
    BY DEF Truthful
  <2>5. CASE ShouldRestore(c, verdict)
    <3>1. /\ pc'[c] = "restore" /\ ~cmd[c].restored /\ Op(c) = "deploy" /\ cmd[c].snap # 0
          /\ ~cmd[c].ok \/ verdict # "pass"
      BY <1>1, <2>5 DEF Conclude, ShouldRestore
    <3>2. WentWrong' > 0
      BY <1>1, <2>3, <3>1
    <3> QED
      BY <2>1, <3>1, <3>2 DEF Undoable, Truthful
  <2>6. CASE ~ShouldRestore(c, verdict)
    <3>1. pc'[c] = "record"
      BY <1>1, <2>6 DEF Conclude
    <3>2. (Op(c) = "deploy" /\ cmd[c].snap # 0) => containers.up
      <4>1. CASE cmd[c].restored
        BY <2>2, <4>1
      <4>2. CASE Op(c) = "deploy" /\ cmd[c].snap # 0 /\ ~cmd[c].restored
        <5>1. verdict = "pass"
          BY <2>6, <4>2 DEF ShouldRestore
        <5> QED
          BY <1>1, <5>1
      <4> QED
        BY <4>1, <4>2
    <3>3. cmd'[c].verdict = "pass" => containers.up
      <4>1. CASE verdict = "pass"
        BY <1>1, <4>1
      <4>2. CASE verdict # "pass"
        <5>1. cmd'[c].verdict = "pass" => cmd[c].restored /\ cmd[c].verdict = "pass"
          BY <2>1, <4>2
        <5> QED
          BY <2>2, <5>1
      <4> QED
        BY <4>1, <4>2
    <3>4. (Op(c) = "deploy" /\ cmd'[c].ok) => containers = [rev |-> cmd[c].dir, up |-> TRUE]
      BY <2>1, <2>4
    <3> QED
      BY <2>1, <3>1, <3>2, <3>3, <3>4 DEF Undoable, Truthful
  <2> QED
    BY <2>5, <2>6
<1>2. ASSUME UNCHANGED pc, cmd' = [cmd EXCEPT ![c].left = IF @ = 0 THEN 0 ELSE @ - 1]
      PROVE  Undoable(c)' /\ Truthful(c)'
  <2>1. /\ cmd'[c].plan = cmd[c].plan /\ cmd'[c].snap = cmd[c].snap
        /\ cmd'[c].dir = cmd[c].dir /\ cmd'[c].restored = cmd[c].restored
        /\ cmd'[c].ok = cmd[c].ok
    BY <1>2 DEF Locals
  <2> QED
    BY <1>2, <2>1 DEF Undoable, Truthful
<1>3. {"pass", "fail", "null"} \subseteq Verdicts
  BY DEF Verdicts
<1>4. Fault => WentWrong' > 0
  BY WentWrongGrows
<1>5. containers.rev = None => ~containers.up
  BY RevisionsAreSome DEF TargetTypes, TargetTypeOK, Containers, Removed
<1> QED
  BY <1>1, <1>2, <1>3, <1>4, <1>5 DEF Validate

LEMMA DeploysHoldKept ==
  ASSUME TargetInv, [Next]_vars
  PROVE  DeploysHold'
<1> USE DEF TargetInv
<1>1. ASSUME NEW c \in Commands, Begin(c) \/ HostLifecycle(c) \/ Work(c) \/ Kill(c),
             ~overlapped'
      PROVE  \A d \in Commands : Undoable(d)' /\ Truthful(d)'
  <2>1. ~overlapped /\ \A d \in Commands : d # c => pc'[d] = "idle"
    BY <1>1, OneAtWork
  <2>2. Undoable(c) /\ Truthful(c) /\ Knows(c)
    BY <2>1 DEF DeploysHold, CommandsKnow
  <2>3. ASSUME Begin(c) \/ HostLifecycle(c) \/ Kill(c)
        PROVE  Undoable(c)' /\ Truthful(c)'
    <3>1. pc'[c] \in {"idle", "begin"}
      BY <2>3, IsOver
      DEF Begin, HostLifecycle, Kill, Accept, Goto, TargetTypes, TargetTypeOK
    <3> QED
      BY <3>1, NothingToHold
  <2>4. ASSUME OpenRecord(c)
        PROVE  Undoable(c)' /\ Truthful(c)'
    <3>1. /\ pc[c] = "record" /\ pc'[c] = "write_record" /\ cmd' = cmd
          /\ containers' = containers
      BY <2>4 DEF OpenRecord, Goto, host, TargetTypes, TargetTypeOK
    <3>2. WentWrong' = WentWrong
      BY <2>4 DEF OpenRecord, WentWrong
    <3> QED
      BY <2>2, <3>1, <3>2 DEF Undoable, Truthful, Op, RecordSteps, DeploySteps, SnapSteps
  <2>5. ASSUME WriteRecord(c)
        PROVE  Undoable(c)' /\ Truthful(c)'
    BY <2>5, OverHolds DEF WriteRecord
  <2>7. ASSUME Unstage(c) \/ Stage(c) \/ OpenStaged(c) \/ WriteStaged(c)
        PROVE  Undoable(c)' /\ Truthful(c)'
    <3>1. pc[c] # "idle" /\ (cmd' = cmd \/ Return(c)) /\ Op(c) = "config"
      BY <2>2, <2>7 DEF Unstage, Stage, OpenStaged, WriteStaged, Knows, StageSteps
    <3>2. pc'[c] \in {"idle", "stage", "seed", "stage_write", "sync"}
      BY <2>7 DEF Unstage, Stage, OpenStaged, WriteStaged, Goto, Return, TargetTypes,
                  TargetTypeOK
    <3>3. CASE cmd' = cmd
      BY <3>1, <3>2, <3>3 DEF Undoable, Truthful, Op, RecordSteps
    <3> QED
      BY <3>1, <3>3, OverHolds
  <2>6. Undoable(c)' /\ Truthful(c)'
    BY <1>1, <2>1, <2>2, <2>3, <2>4, <2>5, <2>7, RenderHolds, SyncHolds, MakeHolds, ValidateHolds,
       RestoreHolds
    DEF Work
  <2> QED
    BY <2>1, <2>6, NothingToHold
<1>2. CASE UNCHANGED <<pc, cmd, containers, used, overlapped>>
  BY <1>2 DEF DeploysHold, Undoable, Truthful, Op, WentWrong
<1> QED
  BY <1>1, <1>2 DEF DeploysHold, Next, OpenClawWrites, vars, host, history

LEMMA TargetKept ==
  ASSUME TargetInv, [Next]_vars
  PROVE  TargetInv'
  BY TargetTypesKept, CommandsKnowKept, TargetAloneKept, OwnRenderKept, CopyFirstKept,
     StagedAloneKept, OwnIsKeptKept, RootIsWholeKept, DeploysHoldKept
  DEF TargetInv

LEMMA InitTarget == Init => TargetInv
<1> SUFFICES ASSUME Init PROVE TargetInv
  OBVIOUS
<1>1. TargetTypes
  <2>1. /\ root \in Root /\ staged \in File /\ rendered \in Content
        /\ containers \in Containers /\ record \in Record /\ pc \in [Commands -> Steps]
    BY DEF Init, Root, File, Content, Containers, Record, Verdicts, Steps
  <2>2. cmd \in [Commands -> Locals] /\ \A c \in Commands : cmd[c] = NoCommand /\ pc[c] = "idle"
    BY NoCommandTyped DEF Init
  <2>3. snaps \in Seq(Snapshot) /\ Len(snaps) = 0 /\ \A n \in DOMAIN snaps : snaps[n] \in Snapshot
    BY DEF Init
  <2>4. NoCommand.snap = 0
    BY DEF NoCommand
  <2>5. \A c \in Commands : cmd[c].snap \in 0..Len(snaps)
    <3>1. \A c \in Commands : cmd[c].snap = 0
      BY <2>2, <2>4
    <3>2. 0 \in 0..Len(snaps)
      BY <2>3
    <3> QED
      BY <3>1, <3>2
  <2>6. used \in [commands : Nat, failures : Nat, kills : Nat]
    BY DEF Init
  <2> QED
    BY <2>1, <2>2, <2>3, <2>5, <2>6 DEF Init, TargetTypes, TargetTypeOK
<1>2. CommandsKnow /\ TargetAlone
  BY IdleKnows DEF Init, CommandsKnow, TargetAlone
<1>3. OwnRender /\ CopyFirst /\ OwnIsKept /\ RootIsWhole
  BY DEF Init, OwnRender, CopyFirst, OwnIsKept, RootIsWhole, DeploySteps, SnapSteps
<1>5. StagedAlone
  BY DEF Init, StagedAlone, FindsStaged, AtStaging, Staging, Writing
<1>4. DeploysHold
  BY DEF Init, DeploysHold, Undoable, Truthful, RecordSteps
<1> QED
  BY <1>1, <1>2, <1>3, <1>4, <1>5 DEF TargetInv

-----------------------------------------------------------------------------
(* Commands of the target end: the measure behind TargetCommandsEnd.       *)

\* How far a step is from the end of its operation.  What a deploy restores is
\* validated anew, and so is a rollback that fails.
Distance(step, local) ==
    CASE step = "idle" -> 0
      [] step = "write_record" -> 1
      [] step = "record" -> 2
      [] step = "validate" ->
            IF local.restored \/ Head(local.plan) = "rollback" THEN 3 ELSE 6
      [] step = "restore_up" -> 4
      [] step = "restore" -> 5
      [] step \in {"up", "compose"} -> 7
      [] step = "remove" -> 8
      [] step = "synced" -> 9
      [] step = "sync" -> 10
      [] step = "stage_write" -> 11
      [] step = "stage_open" -> 12
      [] step = "seed" -> 13
      [] step \in {"snap_done", "stage"} -> 14
      [] step \in {"snap_meta", "unstage"} -> 15
      [] step = "snap_copy" -> 16
      [] step = "inspect" -> 17
      [] step = "fill" -> 18
      [] step = "render" -> 19
      [] step = "wipe" -> 20
      [] OTHER -> 21

\* A command ends or ends an operation of its plan, takes a step nearer to the end
\* of one, or has one poll less.
MovesOn(c) ==
    \/ pc'[c] = "idle"
    \/ /\ pc'[c] = "begin" /\ cmd'[c].plan \in Rests
       /\ cmd'[c].plan = Tail(cmd[c].plan)
    \/ /\ cmd'[c].plan = cmd[c].plan
       /\ Distance(pc'[c], cmd'[c]) < Distance(pc[c], cmd[c])
    \/ /\ pc[c] = "validate" /\ pc'[c] = "validate"
       /\ cmd[c].left \in Nat /\ cmd'[c].left \in Nat
       /\ cmd'[c] = [cmd[c] EXCEPT !.left = cmd'[c].left]
       /\ cmd'[c].left < cmd[c].left

LEMMA TargetWorkMovesOn ==
  ASSUME TargetTypes, CommandsKnow, NEW c \in Commands, Work(c)
  PROVE  MovesOn(c)
<1>0. /\ pc \in [Commands -> Steps] /\ cmd \in [Commands -> Locals]
      /\ \A step : Goto(c, step) => pc'[c] = step
      /\ Return(c) => pc'[c] = "idle"
      /\ Knows(c)
  BY DEF TargetTypes, TargetTypeOK, Goto, Return, CommandsKnow
<1>1. ASSUME Done(c) PROVE MovesOn(c)
  <2>1. CASE Return(c)
    BY <1>0, <2>1 DEF MovesOn
  <2>2. CASE Len(cmd[c].plan) # 1
    <3>1. pc[c] # "idle"
      BY AtWork
    <3>2. cmd[c].plan \in Plans \cup {<<"config", "restart">>}
      BY <1>0, <3>1 DEF TargetTypes, Locals
    <3>3. /\ pc'[c] = "begin" /\ cmd'[c] = [NoCommand EXCEPT !.plan = Tail(cmd[c].plan)]
      BY <1>0, <1>1, <2>2 DEF Done
    <3>4. cmd'[c].plan = Tail(cmd[c].plan) /\ cmd'[c].plan \in Rests
      BY <2>2, <3>2, <3>3, PlanGoesOn DEF NoCommand
    <3> QED
      BY <3>3, <3>4 DEF MovesOn
  <2> QED
    BY <1>1, <2>1, <2>2 DEF Done
<1>2. CASE First(c) \/ Wipe(c) \/ Render(c)
  BY <1>0, <1>2 DEF First, Wipe, Render, RenderFailed, MovesOn, Distance, Locals, Op
<1>9. CASE Fill(c)
  BY <1>0, <1>9 DEF Fill, RenderFailed, MovesOn, Distance, Locals, Op
<1>10. CASE Unstage(c) \/ Stage(c) \/ OpenStaged(c) \/ WriteStaged(c)
  BY <1>0, <1>10 DEF Unstage, Stage, OpenStaged, WriteStaged, MovesOn, Distance
<1>3. CASE Inspect(c) \/ CopySnapshot(c) \/ OpenMetadata(c) \/ WriteMetadata(c)
  BY <1>0, <1>3
     DEF Inspect, CopySnapshot, OpenMetadata, WriteMetadata, MovesOn, Distance, Locals
<1>4. CASE Seed(c) \/ Remove(c)
  BY <1>0, <1>4
     DEF Seed, Remove, AfterSync, Failed, MovesOn, Distance, Locals
<1>11. CASE OpenRoot(c)
  BY <1>0, <1>1, <1>11 DEF OpenRoot, MovesOn, Distance, Locals
<1>5. CASE WriteRoot(c) \/ Compose(c) \/ WriteRecord(c)
  BY <1>0, <1>1, <1>5
     DEF WriteRoot, Compose, WriteRecord, AfterSync, MovesOn, Distance
<1>6. CASE Up(c) \/ OpenRecord(c)
  BY <1>0, <1>6 DEF Up, OpenRecord, MovesOn, Distance, Locals
<1>7. CASE Restore(c) \/ RestoreUp(c)
  BY <1>0, <1>7
     DEF Restore, RestoreUp, RestoreFailed, MovesOn, Distance, Locals, Op
<1>8. CASE Validate(c)
  <2>0. pc[c] = "validate"
    BY <1>8 DEF Validate
  <2>1. ASSUME NEW verdict, Conclude(c, verdict) PROVE MovesOn(c)
    <3>1. /\ cmd'[c].plan = cmd[c].plan
          /\ pc'[c] = "record" \/ (pc'[c] = "restore" /\ ShouldRestore(c, verdict))
      BY <1>0, <2>1 DEF Conclude, Locals
    <3>2. pc'[c] = "restore" => ~cmd[c].restored /\ Op(c) = "deploy"
      BY <3>1 DEF ShouldRestore
    <3> QED
      BY <2>0, <3>1, <3>2 DEF MovesOn, Distance, Op
  <2>2. ASSUME PollAgain(c), UNCHANGED pc,
               cmd' = [cmd EXCEPT ![c].left = IF @ = 0 THEN 0 ELSE @ - 1]
        PROVE  MovesOn(c)
    <3>1. cmd[c].left \in Nat /\ cmd[c].left > 0
      BY <1>0, <2>2 DEF Locals, PollAgain
    <3>2. cmd'[c] = [cmd[c] EXCEPT !.left = cmd[c].left - 1]
      BY <1>0, <2>2, <3>1
    <3>3. cmd'[c].left = cmd[c].left - 1
      BY <1>0, <3>2 DEF Locals
    <3> QED
      BY <2>0, <2>2, <3>1, <3>2, <3>3 DEF MovesOn
  <2> QED
    BY <1>8, <2>1, <2>2 DEF Validate
<1> QED
  BY <1>2, <1>3, <1>4, <1>5, <1>6, <1>7, <1>8, <1>9, <1>10, <1>11 DEF Work

-----------------------------------------------------------------------------
(* The theorems.                                                           *)

ToolsInv == TargetInv /\ RegistryInv /\ ServerInv

LEMMA InitTools == ToolsInit => ToolsInv
  BY InitTarget, InitRegistry, InitServer DEF ToolsInit, ToolsInv

\* The parts share no state: a step of one leaves the others where they are.
LEMMA EachPartSteps ==
  ASSUME [ToolsNext]_allVars
  PROVE  [Next]_vars /\ [Registry!Next]_(Registry!vars) /\ [Server!Next]_(Server!vars)
  BY DEF ToolsNext, allVars, registryVars, serverVars, Registry!vars, Server!vars

LEMMA ToolsKept ==
  ASSUME ToolsInv, [ToolsNext]_allVars
  PROVE  ToolsInv'
  BY EachPartSteps, TargetKept, RegistryKept, ServerKept DEF ToolsInv

LEMMA ToolsInvariant == ToolsSpec => []ToolsInv
<1>1. ToolsInit => ToolsInv
  BY InitTools
<1>2. ToolsInv /\ [ToolsNext]_allVars => ToolsInv'
  BY ToolsKept
<1> QED
  BY <1>1, <1>2, PTL DEF ToolsSpec

\* The types of all three parts, whatever overlaps, fails or is killed: containers
\* are made from a directory with a compose.yml, whole or not.
THEOREM ToolsTypesHold == ToolsSpec => []ToolsTypeOK
<1>1. ToolsInv => ToolsTypeOK
  BY RegistryKeepsRecords
  DEF ToolsInv, ToolsTypeOK, TargetInv, TargetTypes, ServerInv
<1> QED
  BY <1>1, ToolsInvariant, PTL

\* A snapshot a rollback would choose has the whole of a render: its metadata is
\* written last (deployment_service.py), and one deploy at a time uses the
\* render directory of a target that is no runtime.
THEOREM SnapshotsStayWhole == ToolsSpec => []SnapshotsAreWhole
<1>1. ToolsInv => SnapshotsAreWhole
  BY SnapshotsWhole DEF ToolsInv, TargetInv
<1> QED
  BY <1>1, ToolsInvariant, PTL

\* What OpenClaw has added to openclaw.json survives every sync, also of commands
\* that overlap, unless it was added while one was about to write the file, a
\* config sync was staged over another in the directory they share (v2_actions.py),
\* or a kill cut short a write of the file itself.
THEOREM OwnEntriesStay == ToolsSpec => []OwnEntriesSurvive
<1>1. ToolsInv => OwnEntriesSurvive
  <2>1. ASSUME ToolsInv, written, ~raced, ~restaged
        PROVE  \/ root.own
               \/ \E c \in Commands : pc[c] = "synced" /\ cmd[c].seen.own
               \/ ~root.valid /\ used.kills > 0
    <3>1. root.valid => root.own
      BY <2>1 DEF ToolsInv, TargetInv, OwnIsKept
    <3>2. \A c \in Commands : pc[c] = "synced" => cmd[c].seen.own
      BY <2>1 DEF ToolsInv, TargetInv, OwnIsKept, Writing
    <3>3. ~root.valid => used.kills > 0 \/ \E c \in Commands : pc[c] = "synced"
      BY <2>1 DEF ToolsInv, TargetInv, RootIsWhole
    <3> QED
      BY <3>1, <3>2, <3>3
  <2> QED
    BY <2>1 DEF OwnEntriesSurvive
<1> QED
  BY <1>1, ToolsInvariant, PTL

\* The migration and the reconciling of target records keep the date of an
\* older version.
THEOREM CreationDateStays == ToolsSpec => []CreationDateKept
<1>1. ToolsInv => CreationDateKept
  BY RegistryKeepsRecords DEF ToolsInv
<1> QED
  BY <1>1, ToolsInvariant, PTL

\* A command that runs alone never answers that the registry is corrupted,
\* wherever earlier ones were killed.
THEOREM OnlyOverlapCorrupts == ToolsSpec => []CorruptedOnlyByOverlap
<1>1. ToolsInv => CorruptedOnlyByOverlap
  BY RegistryKeepsRecords DEF ToolsInv
<1> QED
  BY <1>1, ToolsInvariant, PTL

\* The health that is read from the two files is that of the server.
THEOREM HealthStaysTrue == ToolsSpec => []HealthTellsTruth
<1>1. ToolsInv => HealthTellsTruth
  BY ServerTellsTruth DEF ToolsInv
<1> QED
  BY <1>1, ToolsInvariant, PTL

\* A deploy of a target that was running leaves it running when it writes its
\* record, wherever one thing went wrong.
THEOREM DeploysLeaveItUp == ToolsSpec => OneFailureLeavesItUp
<1> DEFINE LeftUp ==
      \A c \in Commands :
          (/\ pc[c] = "write_record" /\ Op(c) = "deploy" /\ cmd[c].snap # 0
           /\ used.failures + used.kills <= 1 /\ ~overlapped)
          => containers.up
<1>1. ToolsInv => LeftUp
  BY DEF ToolsInv, TargetInv, DeploysHold, Undoable, WentWrong, RecordSteps
<1>2. ToolsInv /\ [ToolsNext]_allVars => [LeftUp]_vars
  BY <1>1
<1> HIDE DEF LeftUp
<1>3. ToolsSpec => [][LeftUp]_vars
  BY <1>2, ToolsInvariant, PTL DEF ToolsSpec
<1> QED
  BY <1>3 DEF OneFailureLeavesItUp, LeftUp

\* A deploy that answers ok left the containers of its own render running, and
\* a record that says pass was written while containers ran.
THEOREM RecordsStayTrue == ToolsSpec => RecordsTellTruth
<1> DEFINE Told ==
      \A c \in Commands :
          (pc[c] = "write_record" /\ pc'[c] \in {"idle", "begin"}
             /\ used'.kills = used.kills /\ ~overlapped)
          => /\ (Op(c) = "deploy" /\ Answer(c))
                => containers = [rev |-> cmd[c].dir, up |-> TRUE]
             /\ (cmd[c].verdict = "pass" /\ used.failures + used.kills <= 1)
                => containers.up
<1>1. ToolsInv /\ [ToolsNext]_allVars => [Told]_vars
  BY DEF ToolsInv, TargetInv, DeploysHold, Truthful, WentWrong, RecordSteps, Answer
<1> HIDE DEF Told
<1>2. ToolsSpec => [][Told]_vars
  BY <1>1, ToolsInvariant, PTL DEF ToolsSpec
<1> QED
  BY <1>2 DEF RecordsTellTruth, Told

\* Every step of a command of the target brings it nearer to its end: one step of
\* an operation, one poll of a bounded wait, or the rest of its plan.  What is
\* restored is validated once, no other command takes a command back, and a kill
\* ends it (deployment_service.py).
THEOREM TargetCommandsMoveOn ==
  ToolsSpec => [][\A c \in Commands :
                     /\ Work(c) => MovesOn(c)
                     /\ pc[c] # "idle" /\ <<pc[c], cmd[c]>>' # <<pc[c], cmd[c]>>
                        => MovesOn(c)]_vars
<1> DEFINE OnlyOn ==
      \A c \in Commands :
          /\ Work(c) => MovesOn(c)
          /\ pc[c] # "idle" /\ <<pc[c], cmd[c]>>' # <<pc[c], cmd[c]>> => MovesOn(c)
<1>1. ASSUME TargetTypes, CommandsKnow, Next, NEW c \in Commands, pc[c] # "idle",
             <<pc[c], cmd[c]>>' # <<pc[c], cmd[c]>>
      PROVE  MovesOn(c)
  <2>1. ASSUME NEW d \in Commands, Begin(d) \/ HostLifecycle(d) \/ Work(d) \/ Kill(d)
        PROVE  MovesOn(c)
    <3>1. d = c
      BY <1>1, <2>1, OthersStay
    <3>2. ~Begin(d) /\ ~HostLifecycle(d)
      BY <1>1, <3>1 DEF Begin, HostLifecycle, Accept
    <3>3. CASE Kill(d)
      BY <1>1, <3>1, <3>3 DEF Kill, Return, Goto, MovesOn, TargetTypes, TargetTypeOK
    <3> QED
      BY <1>1, <2>1, <3>1, <3>2, <3>3, TargetWorkMovesOn
  <2>2. CASE OpenClawWrites
    BY <1>1, <2>2 DEF OpenClawWrites
  <2> QED
    BY <1>1, <2>1, <2>2 DEF Next
<1>2. ToolsInv /\ [ToolsNext]_allVars => [OnlyOn]_vars
  BY <1>1, EachPartSteps, TargetWorkMovesOn DEF ToolsInv, TargetInv
<1> HIDE DEF OnlyOn
<1>3. ToolsSpec => [][OnlyOn]_vars
  BY <1>2, ToolsInvariant, PTL DEF ToolsSpec
<1> QED
  BY <1>3 DEF OnlyOn
=============================================================================
