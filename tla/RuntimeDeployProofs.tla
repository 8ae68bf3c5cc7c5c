------------------------ MODULE RuntimeDeployProofs ------------------------
(***************************************************************************)
(* Type correctness of RuntimeDeploy, for any number of overlapping        *)
(* requests, failures and crashes; and, without overlap, that a deploy     *)
(* that reports success has rebuilt the runtime.                           *)
(*                                                                         *)
(* Types are not inductive by themselves: that a saved event names an item *)
(* and a request number, and that an event taken out of the log is one of  *)
(* the log, depends on which operations reach which steps (Fits) and on    *)
(* what they found before (Findable).                                      *)
(*                                                                         *)
(* First come the lemmas about the data, logs and contents (ReplayState).  *)
(***************************************************************************)
EXTENDS RuntimeDeploy, SequenceTheorems, WellFoundedInduction, TLAPS

-----------------------------------------------------------------------------
(* The effective state of a log over a base.                                 *)

\* Taking an element out of a sequence shifts the later ones down by one.
LEMMA RemoveAtProperties ==
  ASSUME NEW S, NEW s \in Seq(S), NEW p \in 1..Len(s)
  PROVE  /\ RemoveAt(s, p) \in Seq(S)
         /\ Len(RemoveAt(s, p)) = Len(s) - 1
         /\ \A k \in 1..(p - 1) : RemoveAt(s, p)[k] = s[k]
         /\ \A k \in p..(Len(s) - 1) : RemoveAt(s, p)[k] = s[k + 1]
<1> DEFINE a == SubSeq(s, 1, p - 1)
           b == SubSeq(s, p + 1, Len(s))
<1>1. /\ a \in Seq(S) /\ Len(a) = p - 1
      /\ \A k \in 1..(p - 1) : a[k] = s[k]
  BY SubSeqProperties
<1>2. /\ b \in Seq(S) /\ Len(b) = Len(s) - p
      /\ \A k \in 1..(Len(s) - p) : b[k] = s[p + k]
  BY SubSeqProperties
<1> HIDE DEF a, b
<1>3. /\ a \o b \in Seq(S)
      /\ Len(a \o b) = Len(s) - 1
      /\ \A k \in 1..(Len(s) - 1) : (a \o b)[k] = IF k <= p - 1 THEN a[k] ELSE b[k - (p - 1)]
  <2>1. Len(a) + Len(b) = Len(s) - 1
    BY <1>1, <1>2
  <2>2. /\ a \o b \in Seq(S)
        /\ Len(a \o b) = Len(a) + Len(b)
        /\ \A k \in 1..(Len(a) + Len(b)) :
              (a \o b)[k] = IF k <= Len(a) THEN a[k] ELSE b[k - Len(a)]
    BY <1>1, <1>2, ConcatProperties, Zenon
  <2> QED
    BY <1>1, <2>1, <2>2
<1>4. ASSUME NEW k \in p..(Len(s) - 1) PROVE (a \o b)[k] = s[k + 1]
  <2>1. k - (p - 1) \in 1..(Len(s) - p) /\ p + (k - (p - 1)) = k + 1
    OBVIOUS
  <2>2. b[k - (p - 1)] = s[k + 1]
    BY <1>2, <2>1
  <2>3. k \in 1..(Len(s) - 1) /\ ~(k <= p - 1)
    OBVIOUS
  <2> QED
    BY <1>3, <2>2, <2>3
<1>5. \A k \in 1..(p - 1) : (a \o b)[k] = s[k]
  BY <1>1, <1>3
<1> QED
  BY <1>3, <1>4, <1>5 DEF RemoveAt, a, b

\* A set of numbers has a least one.
LEMMA Least ==
  ASSUME NEW T, T \subseteq Nat, T # {}
  PROVE  \E m \in T : \A y \in T : m <= y
<1> DEFINE R == OpToRel(<, Nat)
<1>1. IsWellFoundedOn(R, Nat)
  BY NatLessThanWellFounded
<1>2. \A x, y \in Nat : x < y => <<x, y>> \in R
  BY DEF OpToRel
<1> HIDE DEF R
<1>3. PICK m \in T : \A y \in T : ~(<<y, m>> \in R)
  BY <1>1, WFMin
<1>4. \A y \in T : ~(y < m)
  BY <1>2, <1>3
<1> QED
  BY <1>4

\* An item with events in a log has a last one.
LEMMA LastExists ==
  ASSUME NEW events \in Log, NEW i \in Items,
         NEW k \in DOMAIN events, events[k].item = i
  PROVE  \E m \in DOMAIN events : IsLast(events, i, m)
<1> DEFINE n == Len(events)
           T == {n - j : j \in {x \in DOMAIN events : events[x].item = i}}
<1>1. n \in Nat /\ DOMAIN events = 1..n
  BY DEF Log
<1>2. T \subseteq Nat /\ T # {}
  BY <1>1
<1>3. PICK t \in T : \A y \in T : t <= y
  <2> HIDE DEF T
  <2> QED
    BY <1>2, Least
<1>4. PICK m \in DOMAIN events : events[m].item = i /\ t = n - m
  BY <1>3
<1>5. ASSUME NEW j \in DOMAIN events, events[j].item = i
      PROVE  j <= m
  <2>1. n - m <= n - j
    BY <1>3, <1>4, <1>5
  <2> QED
    BY <1>1, <2>1
<1> QED
  BY <1>1, <1>4, <1>5 DEF IsLast

\* An item has one last event, and that event decides.
LEMMA LastDecides ==
  ASSUME NEW base, NEW events \in Log, NEW i \in Items,
         NEW k \in DOMAIN events, IsLast(events, i, k)
  PROVE  Effective(base, events)[i] = events[k].version
<1>1. \A j \in DOMAIN events : IsLast(events, i, j) => j = k
  BY DEF IsLast, Log
<1> QED
  BY <1>1 DEF Effective

\* An item without events keeps what the base says.
LEMMA NoneDecides ==
  ASSUME NEW base, NEW events \in Log, NEW i \in Items,
         ~\E k \in DOMAIN events : IsLast(events, i, k)
  PROVE  Effective(base, events)[i] = base[i]
  BY DEF Effective

\* The fields of an event.
LEMMA EventFields ==
  ASSUME NEW e \in Event
  PROVE  /\ e.id \in Nat
         /\ e.type \in EventTypes
         /\ e.item \in Items
         /\ e.version \in Versions \cup {None}
         /\ e.type # "plugin_remove" => e.version \in Versions
         /\ e.type = "plugin_remove" => e.version = None
         /\ IsPluginEvent(e) <=> e.item \in Plugins
<1> USE ItemsAssumption DEF EventTypes, Items, IsPluginEvent
<1>1. CASE e \in SkillInstall
  BY <1>1 DEF SkillInstall
<1>2. CASE e \in PluginInstall
  BY <1>2 DEF PluginInstall
<1>3. CASE e \in PluginRemove
  BY <1>3 DEF PluginRemove
<1> QED
  BY <1>1, <1>2, <1>3 DEF Event

\* The effective state of a log over a base is a content.
LEMMA EffectiveType ==
  ASSUME NEW base \in Content, NEW events \in Log
  PROVE  Effective(base, events) \in Content
<1>1. ASSUME NEW i \in Items
      PROVE  Effective(base, events)[i] \in Versions \cup {None}
  <2>1. CASE \E k \in DOMAIN events : IsLast(events, i, k)
    <3>1. PICK k \in DOMAIN events : IsLast(events, i, k)
      BY <2>1
    <3>2. events[k] \in Event
      BY DEF Log
    <3>3. events[k].version \in Versions \cup {None}
      BY <3>2, EventFields
    <3> QED
      BY <3>1, <3>3, LastDecides
  <2>2. CASE ~\E k \in DOMAIN events : IsLast(events, i, k)
    BY <2>2, NoneDecides DEF Content
  <2> QED
    BY <2>1, <2>2
<1>2. DOMAIN Effective(base, events) = Items
  BY DEF Effective
<1> QED
  BY <1>1, <1>2 DEF Effective, Content

\* An empty log leaves the base.
LEMMA EffectiveOfEmpty ==
  ASSUME NEW base \in Content
  PROVE  Effective(base, <<>>) = base
  BY DEF Effective, Content, IsLast

\* Replaying a log over its own effect changes nothing.
LEMMA EffectiveTwice ==
  ASSUME NEW base \in Content, NEW events \in Log
  PROVE  Effective(Effective(base, events), events) = Effective(base, events)
<1>1. ASSUME NEW i \in Items
      PROVE  Effective(Effective(base, events), events)[i] = Effective(base, events)[i]
  <2>1. CASE \E k \in DOMAIN events : IsLast(events, i, k)
    <3>1. PICK k \in DOMAIN events : IsLast(events, i, k)
      BY <2>1
    <3> QED
      BY <3>1, LastDecides
  <2>2. CASE ~\E k \in DOMAIN events : IsLast(events, i, k)
    BY <2>2, NoneDecides
  <2> QED
    BY <2>1, <2>2
<1>2. Effective(base, events) \in Content
  BY EffectiveType
<1>3. Effective(Effective(base, events), events) \in Content
  BY <1>2, EffectiveType
<1> QED
  BY <1>1, <1>2, <1>3 DEF Content

\* Two logs that agree on the events of an item make the same of it.
LEMMA SameLast ==
  ASSUME NEW base, NEW old \in Log, NEW new \in Log, NEW i \in Items,
         NEW k \in DOMAIN old, NEW j \in DOMAIN new,
         IsLast(old, i, k), IsLast(new, i, j), new[j] = old[k]
  PROVE  Effective(base, new)[i] = Effective(base, old)[i]
  BY LastDecides

\* An appended event changes the state of its own item only.
LEMMA AppendChangesItem ==
  ASSUME NEW base, NEW events \in Log, NEW e \in Event, NEW i \in Items, i # e.item
  PROVE  Effective(base, Append(events, e))[i] = Effective(base, events)[i]
<1> DEFINE new == Append(events, e)
<1>1. /\ new \in Log
      /\ DOMAIN new = 1..(Len(events) + 1) /\ DOMAIN events = 1..Len(events)
      /\ Len(events) \in Nat
      /\ new[Len(events) + 1] = e
      /\ \A k \in DOMAIN events : new[k] = events[k]
  BY DEF Log
<1> HIDE DEF new
<1>2. \A k \in DOMAIN events : IsLast(events, i, k) => IsLast(new, i, k)
  BY <1>1 DEF IsLast
<1>3. \A k \in DOMAIN new : IsLast(new, i, k) => k \in DOMAIN events /\ IsLast(events, i, k)
  BY <1>1 DEF IsLast
<1>4. CASE \E k \in DOMAIN events : IsLast(events, i, k)
  <2>1. PICK k \in DOMAIN events : IsLast(events, i, k)
    BY <1>4
  <2>2. k \in DOMAIN new /\ new[k] = events[k]
    BY <1>1
  <2> QED
    BY <1>1, <1>2, <2>1, <2>2, SameLast DEF new
<1>5. CASE ~\E k \in DOMAIN events : IsLast(events, i, k)
  <2>1. ~\E k \in DOMAIN new : IsLast(new, i, k)
    BY <1>3, <1>5
  <2>2. Effective(base, new)[i] = base[i]
    BY <1>1, <2>1, NoneDecides
  <2>3. Effective(base, events)[i] = base[i]
    BY <1>5, NoneDecides
  <2> QED
    BY <2>2, <2>3 DEF new
<1> QED
  BY <1>4, <1>5

\* An event taken out of the log changes the state of its own item only.
LEMMA RemoveChangesItem ==
  ASSUME NEW base, NEW events \in Log, NEW p \in DOMAIN events,
         NEW i \in Items, i # events[p].item
  PROVE  Effective(base, RemoveAt(events, p))[i] = Effective(base, events)[i]
<1> DEFINE new == RemoveAt(events, p)
<1>1. /\ new \in Log
      /\ DOMAIN new = 1..(Len(events) - 1) /\ DOMAIN events = 1..Len(events)
      /\ Len(events) \in Nat /\ p \in 1..Len(events)
      /\ \A k \in 1..(p - 1) : new[k] = events[k]
      /\ \A k \in p..(Len(events) - 1) : new[k] = events[k + 1]
  BY RemoveAtProperties, SMTT(30) DEF Log
<1> HIDE DEF new
<1>2. ASSUME NEW k \in 1..(p - 1)
      PROVE  IsLast(events, i, k) <=> IsLast(new, i, k)
  <2>1. k \in DOMAIN new /\ k \in DOMAIN events /\ new[k] = events[k]
    BY <1>1
  <2>2. ASSUME IsLast(events, i, k), NEW j \in DOMAIN new, j > k
        PROVE  new[j].item # i
    <3>1. CASE j < p
      BY <1>1, <2>2, <3>1 DEF IsLast
    <3>2. CASE j >= p
      <4>1. j + 1 \in DOMAIN events /\ j + 1 > k /\ new[j] = events[j + 1]
        BY <1>1, <2>2, <3>2
      <4> QED
        BY <2>2, <4>1 DEF IsLast
    <3> QED
      BY <1>1, <3>1, <3>2
  <2>3. ASSUME IsLast(new, i, k), NEW j \in DOMAIN events, j > k
        PROVE  events[j].item # i
    <3>1. CASE j < p
      BY <1>1, <2>3, <3>1 DEF IsLast
    <3>2. CASE j > p
      <4>1. j - 1 \in DOMAIN new /\ j - 1 > k /\ new[j - 1] = events[j]
        BY <1>1, <2>3, <3>2
      <4> QED
        BY <2>3, <4>1 DEF IsLast
    <3> QED
      BY <1>1, <3>1, <3>2
  <2> QED
    BY <2>1, <2>2, <2>3 DEF IsLast
<1>3. ASSUME NEW k \in p..(Len(events) - 1)
      PROVE  IsLast(events, i, k + 1) <=> IsLast(new, i, k)
  <2>1. k \in DOMAIN new /\ k + 1 \in DOMAIN events /\ new[k] = events[k + 1]
    BY <1>1
  <2>2. ASSUME IsLast(events, i, k + 1), NEW j \in DOMAIN new, j > k
        PROVE  new[j].item # i
    <3>1. j + 1 \in DOMAIN events /\ j + 1 > k + 1 /\ new[j] = events[j + 1]
      BY <1>1, <2>2
    <3> QED
      BY <2>2, <3>1 DEF IsLast
  <2>3. ASSUME IsLast(new, i, k), NEW j \in DOMAIN events, j > k + 1
        PROVE  events[j].item # i
    <3>1. j - 1 \in DOMAIN new /\ j - 1 > k /\ new[j - 1] = events[j]
      BY <1>1, <2>3
    <3> QED
      BY <2>3, <3>1 DEF IsLast
  <2> QED
    BY <2>1, <2>2, <2>3 DEF IsLast
<1>4. CASE \E k \in DOMAIN events : IsLast(events, i, k)
  <2>1. PICK k \in DOMAIN events : IsLast(events, i, k)
    BY <1>4
  <2>2. k # p
    BY <2>1 DEF IsLast
  <2>3. CASE k < p
    <3>1. k \in DOMAIN new /\ new[k] = events[k] /\ IsLast(new, i, k)
      BY <1>1, <1>2, <2>1, <2>3
    <3> QED
      BY <1>1, <2>1, <3>1, SameLast DEF new
  <2>4. CASE k > p
    <3>1. /\ k - 1 \in DOMAIN new
          /\ new[k - 1] = events[k]
          /\ IsLast(new, i, k - 1)
      BY <1>1, <1>3, <2>1, <2>4
    <3> QED
      BY <1>1, <2>1, <3>1, SameLast DEF new
  <2> QED
    BY <1>1, <2>2, <2>3, <2>4
<1>5. CASE ~\E k \in DOMAIN events : IsLast(events, i, k)
  <2>1. ~\E k \in DOMAIN new : IsLast(new, i, k)
    <3> SUFFICES ASSUME NEW k \in DOMAIN new, IsLast(new, i, k) PROVE FALSE
      OBVIOUS
    <3>1. CASE k \in 1..(p - 1)
      BY <1>1, <1>2, <1>5, <3>1
    <3>2. CASE k \in p..(Len(events) - 1)
      BY <1>1, <1>3, <1>5, <3>2
    <3> QED
      BY <1>1, <3>1, <3>2
  <2> QED
    BY <1>1, <1>5, <2>1, NoneDecides DEF new
<1> QED
  BY <1>4, <1>5

-----------------------------------------------------------------------------
(* Types.                                                                  *)

EditOps == Ops \ {"checkpoint", "reload"}

DeploySteps == {"restore", "reset", "copy", "up", "load_replay", "replay",
                "repack", "reinstall"}

CheckpointSteps == {"capture", "previous", "skills", "plugins", "save_cp",
                    "clear", "undo_cp"}

\* The operations that reach a step.
OpFits(step, op) ==
    /\ op \in Ops
    /\ step \in {"backup", "pack", "install", "unwind"} => op = "plugin_install"
    /\ step = "stage" => op \in Installs
    /\ step = "effective" => op \in {"plugin_install", "plugin_remove"}
    /\ step = "baseline" => op \in {"skill_deploy", "plugin_install", "plugin_remove"}
    /\ step = "save" => op \in EditOps
    /\ step \in CheckpointSteps => op = "checkpoint"
    /\ op = "reload" => step \in DeploySteps

\* The arguments a request came with.
ArgumentsFit(r) ==
    /\ r.id \in RequestIds
    /\ r.op \in {"skill_deploy", "skill_remove"} => r.item \in Skills
    /\ r.op \in {"plugin_install", "plugin_remove"} => r.item \in Plugins
    /\ r.op \in Installs => r.version \in Versions

\* A remove that is about to save found an install to take out of the log, or
\* the plugin in the checkpoint.
Findable(r) ==
    r.op \in EditOps =>
        \/ r.op \in Installs
        \/ r.op = "plugin_remove" /\ r.base # None
        \/ HasInstall(r.log0, r.item)

Fits ==
    \A h \in Handlers : pc[h] # "idle" =>
        /\ OpFits(pc[h], req[h].op)
        /\ ArgumentsFit(req[h])
        /\ pc[h] = "save" => Findable(req[h])

\* The replay loop runs over events of the log it loaded.
TodoInEvents == \A h \in Handlers : req[h].todo \subseteq DOMAIN req[h].events

\* What is packed and installed is the plugin of the next event.
PackingNext ==
    \A h \in Handlers :
        pc[h] \in {"repack", "reinstall"} =>
            \E k \in req[h].todo :
                /\ NextToReplay(req[h].events, req[h].todo, k)
                /\ req[h].events[k].type = "plugin_install"

DeployInv == TypeOK /\ Fits /\ TodoInEvents /\ PackingNext

-----------------------------------------------------------------------------
(* What a step of a handler leaves alone *)

\* The replay of a plugin has work of its own to do: its tarball is packed again.
Repacking(h) ==
    /\ Goto(h, "repack") \/ Goto(h, "reinstall")
    /\ UNCHANGED req

\* The replay loop gets past an event, fails, or goes on with a plugin's package.
LEMMA ReplayContinues ==
  ASSUME NEW h \in Handlers, ReplayEvent(h)
  PROVE  \E k \in req[h].todo :
            /\ ReplaySkill(h, k) \/ ReplayPlugin(h, k) \/ ReplayRemove(h, k)
            /\ Replayed(h, k) \/ DeployFailed(h) \/ Repacking(h)
<1>1. PICK k \in req[h].todo : ReplaySkill(h, k) \/ ReplayPlugin(h, k) \/ ReplayRemove(h, k)
  BY DEF ReplayEvent
<1> QED
  BY <1>1 DEF ReplaySkill, ReplayPlugin, ReplayRemove, Repacking

LEMMA RepackContinues ==
  ASSUME NEW h \in Handlers, Repack(h)
  PROVE  /\ pc[h] = "repack"
         /\ DeployFailed(h) \/ Repacking(h)
         /\ UNCHANGED <<checkpoint, log, component, history, started, crashes>>
  BY DEF Repack, RepackPlugin, Repacking, At

LEMMA ReinstallContinues ==
  ASSUME NEW h \in Handlers, Reinstall(h)
  PROVE  /\ pc[h] = "reinstall"
         /\ \/ DeployFailed(h)
            \/ \E k \in req[h].todo : /\ req' = [req EXCEPT ![h].todo = @ \ {k}]
                                     /\ Goto(h, "replay")
         /\ UNCHANGED <<checkpoint, log, packages, history, started, crashes>>
  BY DEF Reinstall, ReinstallPlugin, At

\* A handler's step changes no other handler.
LEMMA OthersAlone ==
  ASSUME TypeOK, NEW h \in Handlers, Begin(h) \/ Work(h),
         NEW g \in Handlers, g # h
  PROVE  pc'[g] = pc[g] /\ req'[g] = req[g]
<1> USE DEF TypeOK, Goto, Return, DeployFailed, Replayed
<1>1. CASE Begin(h)
  BY <1>1 DEF Begin
<1>2. CASE \/ ReadBaseline(h) \/ ReadEffective(h) \/ Backup(h) \/ StagePackage(h)
           \/ PackPlugin(h) \/ InstallPlugin(h) \/ LoadLog(h) \/ SaveLog(h)
  BY <1>2 DEF ReadBaseline, ReadEffective, Backup, StagePackage, PackPlugin,
              InstallPlugin, LoadLog, SaveLog
<1>3. CASE \/ Capture(h) \/ LoadPrevious(h) \/ ReadSkills(h) \/ ReadPlugins(h)
           \/ SaveCheckpoint(h) \/ ClearLog(h)
  BY <1>3 DEF Capture, LoadPrevious, ReadSkills, ReadPlugins, SaveCheckpoint, ClearLog
<1>4. CASE \/ LoadBaseline(h) \/ Reset(h) \/ CopySnapshot(h) \/ Up(h)
           \/ LoadReplay(h) \/ RecordDeploy(h)
  BY <1>4 DEF LoadBaseline, Reset, CopySnapshot, Up, LoadReplay, RecordDeploy
<1>5. CASE ReplayEvent(h) \/ Repack(h) \/ Reinstall(h)
  BY <1>5, ReplayContinues, RepackContinues, ReinstallContinues DEF Repacking
<1>6. CASE AppendRecord(h) \/ UndoCheckpoint(h) \/ UndoLog(h) \/ Unwind(h)
  BY <1>6 DEF AppendRecord, UndoCheckpoint, UndoLog, Unwind
<1> QED
  BY <1>1, <1>2, <1>3, <1>4, <1>5, <1>6 DEF Work

\* What a request is about stays the same until it returns.
SameRequest(h) ==
    /\ req'[h].op = req[h].op
    /\ req'[h].id = req[h].id
    /\ req'[h].item = req[h].item
    /\ req'[h].version = req[h].version
    /\ req'[h].source = req[h].source

LEMMA RequestKept ==
  ASSUME TypeOK, NEW h \in Handlers, Work(h)
  PROVE  \/ pc'[h] = "idle" /\ req'[h] = NoRequest
         \/ pc'[h] # "idle" /\ SameRequest(h)
<1> USE DEF TypeOK, At, Goto, Return, DeployFailed, Replayed, SameRequest, Request
<1>2. CASE \/ ReadBaseline(h) \/ ReadEffective(h) \/ Backup(h) \/ StagePackage(h)
           \/ PackPlugin(h) \/ InstallPlugin(h) \/ LoadLog(h) \/ SaveLog(h)
  BY <1>2 DEF ReadBaseline, ReadEffective, Backup, StagePackage, PackPlugin,
              InstallPlugin, LoadLog, SaveLog
<1>3. CASE \/ Capture(h) \/ LoadPrevious(h) \/ ReadSkills(h) \/ ReadPlugins(h)
           \/ SaveCheckpoint(h) \/ ClearLog(h)
  BY <1>3 DEF Capture, LoadPrevious, ReadSkills, ReadPlugins, SaveCheckpoint, ClearLog
<1>4. CASE \/ LoadBaseline(h) \/ Reset(h) \/ CopySnapshot(h) \/ Up(h)
           \/ LoadReplay(h) \/ RecordDeploy(h)
  BY <1>4 DEF LoadBaseline, Reset, CopySnapshot, Up, LoadReplay, RecordDeploy
<1>5. CASE ReplayEvent(h) \/ Repack(h) \/ Reinstall(h)
  <2>1. ASSUME NEW k, \/ Replayed(h, k) /\ pc[h] = "replay"
                      \/ req' = [req EXCEPT ![h].todo = @ \ {k}] /\ Goto(h, "replay")
        PROVE  pc'[h] # "idle" /\ SameRequest(h)
    BY <2>1
  <2>2. ASSUME DeployFailed(h)
        PROVE  \/ pc'[h] = "idle" /\ req'[h] = NoRequest
               \/ pc'[h] # "idle" /\ SameRequest(h)
    BY <2>2
  <2>3. ASSUME Repacking(h)
        PROVE  pc'[h] # "idle" /\ SameRequest(h)
    BY <2>3 DEF Repacking
  <2>4. CASE ReplayEvent(h)
    <3>1. pc[h] = "replay"
      BY <2>4 DEF ReplayEvent
    <3> QED
      BY <2>1, <2>2, <2>3, <2>4, <3>1, ReplayContinues
  <2> QED
    BY <1>5, <2>1, <2>2, <2>3, <2>4, RepackContinues, ReinstallContinues
<1>6. CASE AppendRecord(h) \/ UndoCheckpoint(h) \/ UndoLog(h) \/ Unwind(h)
  BY <1>6 DEF AppendRecord, UndoCheckpoint, UndoLog, Unwind
<1> QED
  BY <1>2, <1>3, <1>4, <1>5, <1>6 DEF Work
-----------------------------------------------------------------------------
(* Types of the handlers *)

\* Handlers move between the named steps.
LEMMA StepTypes ==
  ASSUME TypeOK, NEW h \in Handlers, Begin(h) \/ Work(h)
  PROVE  pc' \in [Handlers -> Steps]
<1> USE DEF TypeOK, Goto, Return, DeployFailed, Steps
<1>1. CASE Begin(h)
  BY <1>1 DEF Begin, FirstStep
<1>2. CASE \/ ReadBaseline(h) \/ ReadEffective(h) \/ Backup(h) \/ StagePackage(h)
           \/ PackPlugin(h) \/ InstallPlugin(h) \/ LoadLog(h) \/ SaveLog(h)
  BY <1>2 DEF ReadBaseline, ReadEffective, Backup, StagePackage, PackPlugin,
              InstallPlugin, LoadLog, SaveLog
<1>3. CASE \/ Capture(h) \/ LoadPrevious(h) \/ ReadSkills(h) \/ ReadPlugins(h)
           \/ SaveCheckpoint(h) \/ ClearLog(h)
  BY <1>3 DEF Capture, LoadPrevious, ReadSkills, ReadPlugins, SaveCheckpoint, ClearLog
<1>4. CASE \/ LoadBaseline(h) \/ Reset(h) \/ CopySnapshot(h) \/ Up(h)
           \/ LoadReplay(h) \/ RecordDeploy(h)
  BY <1>4 DEF LoadBaseline, Reset, CopySnapshot, Up, LoadReplay, RecordDeploy
<1>5. CASE ReplayEvent(h) \/ Repack(h) \/ Reinstall(h)
  BY <1>5, ReplayContinues, RepackContinues, ReinstallContinues DEF Replayed, Repacking
<1>6. CASE AppendRecord(h) \/ UndoCheckpoint(h) \/ UndoLog(h) \/ Unwind(h)
  BY <1>6 DEF AppendRecord, UndoCheckpoint, UndoLog, Unwind
<1> QED
  BY <1>1, <1>2, <1>3, <1>4, <1>5, <1>6 DEF Work

LEMMA NoRequestType == NoRequest \in Request
<1>1. Empty \in Content /\ NoCheckpoint \in Checkpoint /\ <<>> \in Log
  BY DEF Empty, Content, NoCheckpoint, Checkpoint, Log
<1> QED
  BY <1>1 DEF NoRequest, Request, Sources

\* A request can be replaced by another.
LEMMA UpdateType ==
  ASSUME req \in [Handlers -> Request], NEW h \in Handlers, NEW r \in Request
  PROVE  [req EXCEPT ![h] = r] \in [Handlers -> Request]
  OBVIOUS

\* A field of a request can be replaced by a value of its type.
LEMMA FieldTypes ==
  ASSUME req \in [Handlers -> Request], NEW h \in Handlers
  PROVE  /\ \A v \in Versions \cup {None} :
               [req EXCEPT ![h].base = v] \in [Handlers -> Request]
         /\ \A v \in Checkpoint : [req EXCEPT ![h].previous = v] \in [Handlers -> Request]
         /\ \A v \in Log : [req EXCEPT ![h].log0 = v] \in [Handlers -> Request]
         /\ \A v \in Content : [req EXCEPT ![h].held = v] \in [Handlers -> Request]
         /\ \A v \in Content : [req EXCEPT ![h].meta = v] \in [Handlers -> Request]
         /\ \A v \in Content : [req EXCEPT ![h].snapshot = v] \in [Handlers -> Request]
<1>0. req[h] \in Request
  OBVIOUS
<1>1. ASSUME NEW v \in Versions \cup {None}
      PROVE  [req EXCEPT ![h].base = v] \in [Handlers -> Request]
  <2>1. [req[h] EXCEPT !.base = v] \in Request
    BY <1>0 DEF Request
  <2>2. [req EXCEPT ![h].base = v] = [req EXCEPT ![h] = [req[h] EXCEPT !.base = v]]
    OBVIOUS
  <2> QED
    BY <2>1, <2>2, UpdateType
<1>2. ASSUME NEW v \in Checkpoint
      PROVE  [req EXCEPT ![h].previous = v] \in [Handlers -> Request]
  <2>1. [req[h] EXCEPT !.previous = v] \in Request
    BY <1>0 DEF Request
  <2>2. [req EXCEPT ![h].previous = v] = [req EXCEPT ![h] = [req[h] EXCEPT !.previous = v]]
    OBVIOUS
  <2> QED
    BY <2>1, <2>2, UpdateType
<1>3. ASSUME NEW v \in Log
      PROVE  [req EXCEPT ![h].log0 = v] \in [Handlers -> Request]
  <2>1. [req[h] EXCEPT !.log0 = v] \in Request
    BY <1>0 DEF Request
  <2>2. [req EXCEPT ![h].log0 = v] = [req EXCEPT ![h] = [req[h] EXCEPT !.log0 = v]]
    OBVIOUS
  <2> QED
    BY <2>1, <2>2, UpdateType
<1>4. ASSUME NEW v \in Content
      PROVE  [req EXCEPT ![h].held = v] \in [Handlers -> Request]
  <2>1. [req[h] EXCEPT !.held = v] \in Request
    BY <1>0 DEF Request
  <2>2. [req EXCEPT ![h].held = v] = [req EXCEPT ![h] = [req[h] EXCEPT !.held = v]]
    OBVIOUS
  <2> QED
    BY <2>1, <2>2, UpdateType
<1>5. ASSUME NEW v \in Content
      PROVE  [req EXCEPT ![h].meta = v] \in [Handlers -> Request]
  <2>1. [req[h] EXCEPT !.meta = v] \in Request
    BY <1>0 DEF Request
  <2>2. [req EXCEPT ![h].meta = v] = [req EXCEPT ![h] = [req[h] EXCEPT !.meta = v]]
    OBVIOUS
  <2> QED
    BY <2>1, <2>2, UpdateType
<1>6. ASSUME NEW v \in Content
      PROVE  [req EXCEPT ![h].snapshot = v] \in [Handlers -> Request]
  <2>1. [req[h] EXCEPT !.snapshot = v] \in Request
    BY <1>0 DEF Request
  <2>2. [req EXCEPT ![h].snapshot = v] = [req EXCEPT ![h] = [req[h] EXCEPT !.snapshot = v]]
    OBVIOUS
  <2> QED
    BY <2>1, <2>2, UpdateType
<1> QED
  BY <1>1, <1>2, <1>3, <1>4, <1>5, <1>6

\* So can the log a request replays and the events it has left.
LEMMA EventFieldTypes ==
  ASSUME req \in [Handlers -> Request], NEW h \in Handlers
  PROVE  /\ \A v \in Log, t \in SUBSET Nat :
               [req EXCEPT ![h].events = v, ![h].todo = t] \in [Handlers -> Request]
         /\ \A k : [req EXCEPT ![h].todo = @ \ {k}] \in [Handlers -> Request]
<1>1. ASSUME NEW v \in Log, NEW t \in SUBSET Nat
      PROVE  [req EXCEPT ![h].events = v, ![h].todo = t] \in [Handlers -> Request]
  <2>1. req[h] \in Request
    OBVIOUS
  <2>2. [req[h] EXCEPT !.events = v, !.todo = t] \in Request
    BY <2>1 DEF Request
  <2>3. [req EXCEPT ![h] = [req[h] EXCEPT !.events = v, !.todo = t]]
            \in [Handlers -> Request]
    BY <2>2
  <2>4. [req EXCEPT ![h].events = v, ![h].todo = t]
            = [req EXCEPT ![h] = [req[h] EXCEPT !.events = v, !.todo = t]]
    OBVIOUS
  <2> QED
    BY <2>3, <2>4
<1>2. ASSUME NEW k
      PROVE  [req EXCEPT ![h].todo = @ \ {k}] \in [Handlers -> Request]
  <2>1. req[h] \in Request
    OBVIOUS
  <2>2. (req[h].todo \ {k}) \in SUBSET Nat
    BY <2>1 DEF Request
  <2>3. [req[h] EXCEPT !.todo = req[h].todo \ {k}] \in Request
    BY <2>1, <2>2 DEF Request
  <2>4. [req EXCEPT ![h] = [req[h] EXCEPT !.todo = req[h].todo \ {k}]]
            \in [Handlers -> Request]
    BY <2>3
  <2>5. [req EXCEPT ![h].todo = @ \ {k}]
            = [req EXCEPT ![h] = [req[h] EXCEPT !.todo = req[h].todo \ {k}]]
    OBVIOUS
  <2> QED
    BY <2>4, <2>5
<1> QED
  BY <1>1, <1>2

\* A handler that returns forgets its request.
LEMMA ReturnType ==
  ASSUME req \in [Handlers -> Request], NEW h \in Handlers, Return(h)
  PROVE  req' \in [Handlers -> Request]
  BY NoRequestType DEF Return

\* So does a reload whose DeployService fails; the others keep theirs.
LEMMA FailedType ==
  ASSUME req \in [Handlers -> Request], NEW h \in Handlers, DeployFailed(h)
  PROVE  req' \in [Handlers -> Request]
  BY ReturnType DEF DeployFailed

\* A new request has the type of a request.
LEMMA BeginType ==
  ASSUME TypeOK, NEW h \in Handlers, Begin(h)
  PROVE  req' \in [Handlers -> Request]
<1>1. PICK r \in Requests : req' = [req EXCEPT ![h] =
          [NoRequest EXCEPT !.op = r.op, !.id = started + 1, !.item = r.item,
                            !.version = r.version, !.source = r.source]]
  BY DEF Begin
<1>2. /\ r.op \in Ops /\ r.item \in Items \cup {None}
      /\ r.version \in Versions \cup {None} /\ r.source \in Sources
  BY DEF Requests, Ops, Items, Sources
<1>3. started \in 0..MaxOps /\ MaxOps \in Nat
  BY BoundsAssumption DEF TypeOK
<1>4. started + 1 \in Nat
  BY <1>3
<1>5. ASSUME NEW op \in Ops, NEW id \in Nat, NEW i \in Items \cup {None},
             NEW v \in Versions \cup {None}, NEW s \in Sources
      PROVE  [NoRequest EXCEPT !.op = op, !.id = id, !.item = i, !.version = v,
                               !.source = s] \in Request
  <2>1. [NoRequest EXCEPT !.op = op] \in Request
    BY NoRequestType DEF Request
  <2>2. [NoRequest EXCEPT !.op = op, !.id = id] \in Request
    BY <2>1 DEF Request
  <2>3. [NoRequest EXCEPT !.op = op, !.id = id, !.item = i] \in Request
    BY <2>2 DEF Request
  <2>4. [NoRequest EXCEPT !.op = op, !.id = id, !.item = i, !.version = v] \in Request
    BY <2>3 DEF Request
  <2> QED
    BY <2>4 DEF Request
<1>6. [NoRequest EXCEPT !.op = r.op, !.id = started + 1, !.item = r.item,
                        !.version = r.version, !.source = r.source] \in Request
  BY <1>2, <1>4, <1>5
<1> QED
  BY <1>1, <1>6 DEF TypeOK

\* The requests keep their types.
LEMMA RequestTypes ==
  ASSUME TypeOK, Fits, NEW h \in Handlers, Begin(h) \/ Work(h)
  PROVE  req' \in [Handlers -> Request]
<1>0. /\ req \in [Handlers -> Request] /\ log \in Log /\ component \in Content
      /\ checkpoint \in Checkpoint
  BY DEF TypeOK
<1>1. checkpoint.meta \in Content /\ checkpoint.snapshot \in Content
  BY <1>0 DEF Checkpoint
<1>2. Effective(checkpoint.meta, log) \in Content
  BY <1>0, <1>1, EffectiveType
<1>3. CASE Begin(h)
  BY <1>3, BeginType
<1>4. CASE ReadBaseline(h)
  <2>1. pc[h] # "idle" /\ pc[h] = "baseline"
    BY <1>4 DEF ReadBaseline, At
  <2>2. req[h].item \in Items
    BY <2>1 DEF Fits, OpFits, ArgumentsFit, Items
  <2>3. checkpoint.meta[req[h].item] \in Versions \cup {None}
    BY <1>1, <2>2 DEF Content
  <2>4. \/ req' = [req EXCEPT ![h].base = checkpoint.meta[req[h].item]]
        \/ Return(h)
    BY <1>4 DEF ReadBaseline
  <2>5. \A v \in Versions \cup {None} : [req EXCEPT ![h].base = v] \in [Handlers -> Request]
    BY <1>0, FieldTypes
  <2>6. [req EXCEPT ![h].base = checkpoint.meta[req[h].item]] \in [Handlers -> Request]
    BY <2>3, <2>5
  <2> QED
    BY <1>0, <2>4, <2>6, ReturnType
<1>5. CASE ReadEffective(h) \/ StagePackage(h) \/ PackPlugin(h) \/ InstallPlugin(h)
  <2>1. UNCHANGED req \/ Return(h)
    BY <1>5 DEF ReadEffective, StagePackage, PackPlugin, InstallPlugin
  <2> QED
    BY <1>0, <2>1, ReturnType
<1>6. CASE Backup(h) \/ Capture(h)
  <2>1. req' = [req EXCEPT ![h].held = component] \/ Return(h)
    BY <1>6 DEF Backup, Capture
  <2> QED
    BY <1>0, <2>1, ReturnType, FieldTypes
<1>7. CASE LoadLog(h)
  <2>1. req' = [req EXCEPT ![h].log0 = log] \/ Return(h)
    BY <1>7 DEF LoadLog
  <2> QED
    BY <1>0, <2>1, ReturnType, FieldTypes
<1>8. CASE LoadPrevious(h)
  <2>1. req' = [req EXCEPT ![h].previous = checkpoint]
    BY <1>8 DEF LoadPrevious
  <2> QED
    BY <1>0, <2>1, FieldTypes
<1>9. CASE ReadSkills(h)
  <2>1. [i \in Items |-> IF i \in Skills THEN Effective(checkpoint.meta, log)[i] ELSE None]
            \in Content
    BY <1>2 DEF Content
  <2>2. req' = [req EXCEPT ![h].meta =
           [i \in Items |-> IF i \in Skills THEN Effective(checkpoint.meta, log)[i] ELSE None]]
    BY <1>9 DEF ReadSkills
  <2> QED
    BY <1>0, <2>1, <2>2, FieldTypes
<1>10. CASE ReadPlugins(h)
  <2>1. req[h].meta \in Content
    BY <1>0 DEF Request
  <2>2. [i \in Items |-> IF i \in Plugins THEN Effective(checkpoint.meta, log)[i]
                         ELSE req[h].meta[i]] \in Content
    BY <1>2, <2>1 DEF Content
  <2>3. req' = [req EXCEPT ![h].meta =
           [i \in Items |-> IF i \in Plugins THEN Effective(checkpoint.meta, log)[i]
                            ELSE req[h].meta[i]]]
    BY <1>10 DEF ReadPlugins
  <2> QED
    BY <1>0, <2>2, <2>3, FieldTypes
<1>11. CASE SaveLog(h) \/ SaveCheckpoint(h) \/ ClearLog(h)
  <2>1. UNCHANGED req \/ Return(h)
    BY <1>11 DEF SaveLog, SaveCheckpoint, ClearLog
  <2> QED
    BY <1>0, <2>1, ReturnType
<1>12. CASE LoadBaseline(h)
  <2>1. req' = [req EXCEPT ![h].snapshot = checkpoint.snapshot]
    BY <1>12 DEF LoadBaseline
  <2> QED
    BY <1>0, <1>1, <2>1, FieldTypes
<1>13. CASE Reset(h) \/ CopySnapshot(h) \/ Up(h) \/ RecordDeploy(h)
  <2>1. UNCHANGED req \/ Return(h) \/ DeployFailed(h)
    BY <1>13 DEF Reset, CopySnapshot, Up, RecordDeploy
  <2> QED
    BY <1>0, <2>1, ReturnType, FailedType
<1>14. CASE LoadReplay(h)
  <2>1. DOMAIN log \in SUBSET Nat
    <3>1. DOMAIN log = 1..Len(log) /\ Len(log) \in Nat
      BY <1>0 DEF Log
    <3> QED
      BY <3>1
  <2>2. req' = [req EXCEPT ![h].events = log, ![h].todo = DOMAIN log]
    BY <1>14 DEF LoadReplay
  <2> QED
    BY <1>0, <2>1, <2>2, EventFieldTypes
<1>15. CASE ReplayEvent(h) \/ Repack(h) \/ Reinstall(h)
  <2>1. \/ \E k \in req[h].todo : req' = [req EXCEPT ![h].todo = @ \ {k}]
        \/ DeployFailed(h)
        \/ UNCHANGED req
    BY <1>15, ReplayContinues, RepackContinues, ReinstallContinues DEF Replayed, Repacking
  <2>2. ASSUME NEW k \in req[h].todo, req' = [req EXCEPT ![h].todo = @ \ {k}]
        PROVE  req' \in [Handlers -> Request]
    BY <1>0, <2>2, EventFieldTypes
  <2> QED
    BY <1>0, <2>1, <2>2, FailedType
<1>16. CASE AppendRecord(h) \/ UndoCheckpoint(h) \/ UndoLog(h) \/ Unwind(h)
  <2>1. UNCHANGED req \/ Return(h)
    BY <1>16 DEF AppendRecord, UndoCheckpoint, UndoLog, Unwind
  <2> QED
    BY <1>0, <2>1, ReturnType
<1> QED
  BY <1>3, <1>4, <1>5, <1>6, <1>7, <1>8, <1>9, <1>10, <1>11, <1>12, <1>13, <1>14,
     <1>15, <1>16 DEF Work
-----------------------------------------------------------------------------
(* Which actions write which file *)

LEMMA CheckpointWriters ==
  ASSUME NEW h \in Handlers, Begin(h) \/ Work(h)
  PROVE  SaveCheckpoint(h) \/ UndoCheckpoint(h) \/ UNCHANGED checkpoint
<1> USE DEF stores
<1>1. CASE Begin(h)
  BY <1>1 DEF Begin
<1>2. CASE \/ ReadBaseline(h) \/ ReadEffective(h) \/ Backup(h) \/ StagePackage(h)
           \/ PackPlugin(h) \/ InstallPlugin(h) \/ LoadLog(h) \/ SaveLog(h)
  BY <1>2 DEF ReadBaseline, ReadEffective, Backup, StagePackage, PackPlugin,
              InstallPlugin, LoadLog, SaveLog
<1>3. CASE \/ Capture(h) \/ LoadPrevious(h) \/ ReadSkills(h) \/ ReadPlugins(h)
           \/ ClearLog(h)
  BY <1>3 DEF Capture, LoadPrevious, ReadSkills, ReadPlugins, ClearLog
<1>4. CASE \/ LoadBaseline(h) \/ Reset(h) \/ CopySnapshot(h) \/ Up(h)
           \/ LoadReplay(h) \/ RecordDeploy(h) \/ ReplayEvent(h)
           \/ Repack(h) \/ Reinstall(h)
  BY <1>4 DEF LoadBaseline, Reset, CopySnapshot, Up, LoadReplay, RecordDeploy,
              ReplayEvent, Repack, Reinstall
<1>5. CASE AppendRecord(h) \/ UndoLog(h) \/ Unwind(h)
  BY <1>5 DEF AppendRecord, UndoLog, Unwind
<1> QED
  BY <1>1, <1>2, <1>3, <1>4, <1>5 DEF Work

LEMMA LogWriters ==
  ASSUME NEW h \in Handlers, Begin(h) \/ Work(h)
  PROVE  SaveLog(h) \/ ClearLog(h) \/ UndoLog(h) \/ UNCHANGED log
<1> USE DEF stores
<1>1. CASE Begin(h)
  BY <1>1 DEF Begin
<1>2. CASE \/ ReadBaseline(h) \/ ReadEffective(h) \/ Backup(h) \/ StagePackage(h)
           \/ PackPlugin(h) \/ InstallPlugin(h) \/ LoadLog(h)
  BY <1>2 DEF ReadBaseline, ReadEffective, Backup, StagePackage, PackPlugin,
              InstallPlugin, LoadLog
<1>3. CASE \/ Capture(h) \/ LoadPrevious(h) \/ ReadSkills(h) \/ ReadPlugins(h)
           \/ SaveCheckpoint(h)
  BY <1>3 DEF Capture, LoadPrevious, ReadSkills, ReadPlugins, SaveCheckpoint
<1>4. CASE \/ LoadBaseline(h) \/ Reset(h) \/ CopySnapshot(h) \/ Up(h)
           \/ LoadReplay(h) \/ RecordDeploy(h) \/ ReplayEvent(h)
           \/ Repack(h) \/ Reinstall(h)
  BY <1>4 DEF LoadBaseline, Reset, CopySnapshot, Up, LoadReplay, RecordDeploy,
              ReplayEvent, Repack, Reinstall
<1>5. CASE AppendRecord(h) \/ UndoCheckpoint(h) \/ Unwind(h)
  BY <1>5 DEF AppendRecord, UndoCheckpoint, Unwind
<1> QED
  BY <1>1, <1>2, <1>3, <1>4, <1>5 DEF Work

LEMMA PackageWriters ==
  ASSUME NEW h \in Handlers, Begin(h) \/ Work(h)
  PROVE  \/ StagePackage(h) \/ PackPlugin(h) \/ ReplayEvent(h) \/ Repack(h)
         \/ Unwind(h) \/ UNCHANGED packages
<1> USE DEF stores
<1>1. CASE Begin(h)
  BY <1>1 DEF Begin
<1>2. CASE \/ ReadBaseline(h) \/ ReadEffective(h) \/ Backup(h)
           \/ InstallPlugin(h) \/ LoadLog(h) \/ SaveLog(h)
  BY <1>2 DEF ReadBaseline, ReadEffective, Backup, InstallPlugin, LoadLog, SaveLog
<1>3. CASE \/ Capture(h) \/ LoadPrevious(h) \/ ReadSkills(h) \/ ReadPlugins(h)
           \/ SaveCheckpoint(h) \/ ClearLog(h)
  BY <1>3 DEF Capture, LoadPrevious, ReadSkills, ReadPlugins, SaveCheckpoint, ClearLog
<1>4. CASE \/ LoadBaseline(h) \/ Reset(h) \/ CopySnapshot(h) \/ Up(h)
           \/ LoadReplay(h) \/ Reinstall(h) \/ RecordDeploy(h)
  BY <1>4 DEF LoadBaseline, Reset, CopySnapshot, Up, LoadReplay, Reinstall, RecordDeploy
<1>5. CASE AppendRecord(h) \/ UndoCheckpoint(h) \/ UndoLog(h)
  BY <1>5 DEF AppendRecord, UndoCheckpoint, UndoLog
<1> QED
  BY <1>1, <1>2, <1>3, <1>4, <1>5 DEF Work

LEMMA ComponentWriters ==
  ASSUME NEW h \in Handlers, Begin(h) \/ Work(h)
  PROVE  \/ InstallPlugin(h) \/ Reset(h) \/ CopySnapshot(h) \/ ReplayEvent(h)
         \/ Reinstall(h) \/ Unwind(h) \/ UNCHANGED component
<1> USE DEF stores
<1>1. CASE Begin(h)
  BY <1>1 DEF Begin
<1>2. CASE \/ ReadBaseline(h) \/ ReadEffective(h) \/ Backup(h) \/ StagePackage(h)
           \/ PackPlugin(h) \/ LoadLog(h) \/ SaveLog(h)
  BY <1>2 DEF ReadBaseline, ReadEffective, Backup, StagePackage, PackPlugin,
              LoadLog, SaveLog
<1>3. CASE \/ Capture(h) \/ LoadPrevious(h) \/ ReadSkills(h) \/ ReadPlugins(h)
           \/ SaveCheckpoint(h) \/ ClearLog(h)
  BY <1>3 DEF Capture, LoadPrevious, ReadSkills, ReadPlugins, SaveCheckpoint, ClearLog
<1>4. CASE LoadBaseline(h) \/ Up(h) \/ LoadReplay(h) \/ Repack(h) \/ RecordDeploy(h)
  BY <1>4 DEF LoadBaseline, Up, LoadReplay, Repack, RecordDeploy
<1>5. CASE AppendRecord(h) \/ UndoCheckpoint(h) \/ UndoLog(h)
  BY <1>5 DEF AppendRecord, UndoCheckpoint, UndoLog
<1> QED
  BY <1>1, <1>2, <1>3, <1>4, <1>5 DEF Work

LEMMA HistoryWriters ==
  ASSUME NEW h \in Handlers, Begin(h) \/ Work(h)
  PROVE  RecordDeploy(h) \/ AppendRecord(h) \/ UNCHANGED history
<1> USE DEF stores
<1>1. CASE Begin(h)
  BY <1>1 DEF Begin
<1>2. CASE \/ ReadBaseline(h) \/ ReadEffective(h) \/ Backup(h) \/ StagePackage(h)
           \/ PackPlugin(h) \/ InstallPlugin(h) \/ LoadLog(h) \/ SaveLog(h)
  BY <1>2 DEF ReadBaseline, ReadEffective, Backup, StagePackage, PackPlugin,
              InstallPlugin, LoadLog, SaveLog
<1>3. CASE \/ Capture(h) \/ LoadPrevious(h) \/ ReadSkills(h) \/ ReadPlugins(h)
           \/ SaveCheckpoint(h) \/ ClearLog(h)
  BY <1>3 DEF Capture, LoadPrevious, ReadSkills, ReadPlugins, SaveCheckpoint, ClearLog
<1>4. CASE \/ LoadBaseline(h) \/ Reset(h) \/ CopySnapshot(h) \/ Up(h)
           \/ LoadReplay(h) \/ ReplayEvent(h) \/ Repack(h) \/ Reinstall(h)
  BY <1>4 DEF LoadBaseline, Reset, CopySnapshot, Up, LoadReplay, ReplayEvent, Repack,
              Reinstall
<1>5. CASE UndoCheckpoint(h) \/ UndoLog(h) \/ Unwind(h)
  BY <1>5 DEF UndoCheckpoint, UndoLog, Unwind
<1> QED
  BY <1>1, <1>2, <1>3, <1>4, <1>5 DEF Work

\* The bounds count: at most one failure per call, one request per Begin.
LEMMA CounterTypes ==
  ASSUME TypeOK, NEW h \in Handlers, Begin(h) \/ Work(h)
  PROVE  /\ started' \in 0..MaxOps /\ failures' \in 0..MaxFailures /\ crashes' \in 0..MaxCrashes
         /\ Work(h) => started' = started /\ crashes' = crashes
         /\ failures' >= failures
         /\ Faults = {} => failures' = failures
<1>0. /\ started \in 0..MaxOps /\ failures \in 0..MaxFailures /\ crashes \in 0..MaxCrashes
      /\ MaxOps \in Nat /\ MaxFailures \in Nat /\ MaxCrashes \in Nat
  BY BoundsAssumption DEF TypeOK
<1>2. Work(h) => started' = started /\ crashes' = crashes
  <2>2. CASE \/ ReadBaseline(h) \/ ReadEffective(h) \/ Backup(h) \/ StagePackage(h)
             \/ PackPlugin(h) \/ InstallPlugin(h) \/ LoadLog(h) \/ SaveLog(h)
    BY <2>2 DEF ReadBaseline, ReadEffective, Backup, StagePackage, PackPlugin,
                InstallPlugin, LoadLog, SaveLog
  <2>3. CASE \/ Capture(h) \/ LoadPrevious(h) \/ ReadSkills(h) \/ ReadPlugins(h)
             \/ SaveCheckpoint(h) \/ ClearLog(h)
    BY <2>3 DEF Capture, LoadPrevious, ReadSkills, ReadPlugins, SaveCheckpoint, ClearLog
  <2>4. CASE \/ LoadBaseline(h) \/ Reset(h) \/ CopySnapshot(h) \/ Up(h)
             \/ LoadReplay(h) \/ ReplayEvent(h) \/ Repack(h) \/ Reinstall(h)
             \/ RecordDeploy(h)
    BY <2>4 DEF LoadBaseline, Reset, CopySnapshot, Up, LoadReplay, ReplayEvent, Repack,
                Reinstall, RecordDeploy
  <2>5. CASE AppendRecord(h) \/ UndoCheckpoint(h) \/ UndoLog(h) \/ Unwind(h)
    BY <2>5 DEF AppendRecord, UndoCheckpoint, UndoLog, Unwind
  <2> QED
    BY <2>2, <2>3, <2>4, <2>5 DEF Work
<1>3. Work(h) => \/ failures' = failures
                 \/ Faults # {} /\ failures < MaxFailures /\ failures' = failures + 1
  <2> USE DEF NoFault, Fault
  <2>2. CASE \/ ReadBaseline(h) \/ ReadEffective(h) \/ Backup(h) \/ StagePackage(h)
             \/ PackPlugin(h) \/ InstallPlugin(h) \/ LoadLog(h) \/ SaveLog(h)
    BY <2>2 DEF ReadBaseline, ReadEffective, Backup, StagePackage, PackPlugin,
                InstallPlugin, LoadLog, SaveLog
  <2>3. CASE \/ Capture(h) \/ LoadPrevious(h) \/ ReadSkills(h) \/ ReadPlugins(h)
             \/ SaveCheckpoint(h) \/ ClearLog(h)
    BY <2>3 DEF Capture, LoadPrevious, ReadSkills, ReadPlugins, SaveCheckpoint, ClearLog
  <2>4. CASE \/ LoadBaseline(h) \/ Reset(h) \/ CopySnapshot(h) \/ Up(h)
             \/ LoadReplay(h) \/ RecordDeploy(h)
    BY <2>4 DEF LoadBaseline, Reset, CopySnapshot, Up, LoadReplay, RecordDeploy
  <2>5. CASE ReplayEvent(h)
    <3>1. PICK k \in req[h].todo : ReplaySkill(h, k) \/ ReplayPlugin(h, k) \/ ReplayRemove(h, k)
      BY <2>5 DEF ReplayEvent
    <3> QED
      BY <3>1 DEF ReplaySkill, ReplayPlugin, ReplayRemove
  <2>7. CASE Repack(h) \/ Reinstall(h)
    BY <2>7 DEF Repack, RepackPlugin, Reinstall, ReinstallPlugin
  <2>6. CASE AppendRecord(h) \/ UndoCheckpoint(h) \/ UndoLog(h) \/ Unwind(h)
    BY <2>6 DEF AppendRecord, UndoCheckpoint, UndoLog, Unwind
  <2> QED
    BY <2>2, <2>3, <2>4, <2>5, <2>6, <2>7 DEF Work
<1>1. CASE Begin(h)
  <2>1. started < MaxOps /\ started' = started + 1 /\ failures' = failures /\ crashes' = crashes
    BY <1>1 DEF Begin
  <2> QED
    BY <1>0, <2>1, <1>2
<1>4. CASE Work(h)
  BY <1>0, <1>2, <1>3, <1>4
<1> QED
  BY <1>1, <1>4
-----------------------------------------------------------------------------
(* Types of the files *)

\* What a request that is not at rest is about.
LEMMA RequestFields ==
  ASSUME TypeOK, Fits, NEW h \in Handlers, pc[h] # "idle"
  PROVE  /\ req[h] \in Request
         /\ OpFits(pc[h], req[h].op)
         /\ req[h].id \in RequestIds
         /\ req[h].op \in EditOps => req[h].item \in Items
         /\ req[h].op \in Installs => req[h].version \in Versions
         /\ pc[h] = "save" => Findable(req[h])
  BY DEF TypeOK, Fits, ArgumentsFit, EditOps, Ops, Items

LEMMA CheckpointType ==
  ASSUME TypeOK, NEW h \in Handlers, Begin(h) \/ Work(h)
  PROVE  checkpoint' \in Checkpoint
<1>1. checkpoint \in Checkpoint /\ req[h] \in Request
  BY DEF TypeOK
<1>2. req[h].meta \in Content /\ req[h].held \in Content /\ req[h].previous \in Checkpoint
  BY <1>1 DEF Request
<1>3. CASE SaveCheckpoint(h)
  <2>1. \/ checkpoint' = [present |-> TRUE, meta |-> req[h].meta, snapshot |-> req[h].held]
        \/ UNCHANGED checkpoint
    BY <1>3 DEF SaveCheckpoint
  <2>2. [present |-> TRUE, meta |-> req[h].meta, snapshot |-> req[h].held] \in Checkpoint
    BY <1>2 DEF Checkpoint
  <2> QED
    BY <1>1, <2>1, <2>2
<1>4. CASE UndoCheckpoint(h)
  BY <1>1, <1>2, <1>4 DEF UndoCheckpoint
<1> QED
  BY <1>1, <1>3, <1>4, CheckpointWriters

\* What an edit saves is a log.
LEMMA EditedLogType ==
  ASSUME NEW r \in Request, r.op \in EditOps, ArgumentsFit(r), Findable(r)
  PROVE  EditedLog(r) \in Log
<1>1. r.log0 \in Log /\ r.source \in Sources /\ r.id \in Nat
  BY DEF Request
<1>2. CASE r.op \in Installs
  <2>1. NewEvent(r) \in SkillInstall \cup PluginInstall
    BY <1>1, <1>2 DEF NewEvent, Installs, ArgumentsFit, SkillInstall, PluginInstall
  <2>2. EditedLog(r) = Append(r.log0, NewEvent(r))
    BY <1>2 DEF EditedLog, Installs
  <2> QED
    BY <1>1, <2>1, <2>2 DEF Log, Event
<1>3. CASE r.op = "plugin_remove" /\ r.base # None
  <2>1. NewEvent(r) \in PluginRemove
    BY <1>1, <1>3 DEF NewEvent, ArgumentsFit, PluginRemove
  <2>2. EditedLog(r) = Append(r.log0, NewEvent(r))
    BY <1>3 DEF EditedLog
  <2> QED
    BY <1>1, <2>1, <2>2 DEF Log, Event
<1>4. CASE r.op \notin Installs /\ ~(r.op = "plugin_remove" /\ r.base # None)
  <2>1. HasInstall(r.log0, r.item)
    BY <1>4 DEF Findable
  <2>2. LatestInstall(r.log0, r.item) \in DOMAIN r.log0
    BY <2>1 DEF HasInstall, LatestInstall, IsLatestInstall
  <2>3. DOMAIN r.log0 = 1..Len(r.log0)
    BY <1>1 DEF Log
  <2>4. DropLatestInstall(r.log0, r.item) \in Log
    BY <1>1, <2>2, <2>3, RemoveAtProperties DEF Log, DropLatestInstall
  <2>5. EditedLog(r) = DropLatestInstall(r.log0, r.item)
    BY <1>4 DEF EditedLog, Installs
  <2> QED
    BY <2>4, <2>5
<1> QED
  BY <1>2, <1>3, <1>4

LEMMA LogType ==
  ASSUME TypeOK, Fits, NEW h \in Handlers, Begin(h) \/ Work(h)
  PROVE  log' \in Log
<1>1. log \in Log /\ req[h] \in Request
  BY DEF TypeOK
<1>2. CASE SaveLog(h)
  <2>1. pc[h] = "save" /\ pc[h] # "idle"
    BY <1>2 DEF SaveLog, At
  <2>2. req[h].op \in EditOps /\ ArgumentsFit(req[h]) /\ Findable(req[h])
    BY <2>1 DEF Fits, OpFits
  <2>3. log' = EditedLog(req[h]) \/ UNCHANGED log
    BY <1>2 DEF SaveLog
  <2> QED
    BY <1>1, <2>2, <2>3, EditedLogType
<1>3. CASE ClearLog(h)
  <2>1. <<>> \in Log
    BY DEF Log
  <2> QED
    BY <1>1, <1>3, <2>1 DEF ClearLog
<1>4. CASE UndoLog(h)
  <2>1. req[h].log0 \in Log
    BY <1>1 DEF Request
  <2> QED
    BY <1>1, <1>4, <2>1 DEF UndoLog
<1> QED
  BY <1>1, <1>2, <1>3, <1>4, LogWriters

\* The events a request replays are events.
LEMMA ReplayedEvent ==
  ASSUME TypeOK, TodoInEvents, NEW h \in Handlers, NEW k \in req[h].todo
  PROVE  req[h].events[k] \in Event
<1>1. req[h].events \in Log /\ k \in DOMAIN req[h].events
  BY DEF TypeOK, Request, TodoInEvents
<1> QED
  BY <1>1 DEF Log

LEMMA PackagesType ==
  ASSUME TypeOK, Fits, TodoInEvents, NEW h \in Handlers, Begin(h) \/ Work(h)
  PROVE  packages' \in [RequestIds -> Package \cup {None}]
<1>1. packages \in [RequestIds -> Package \cup {None}]
  BY DEF TypeOK
<1>2. CASE StagePackage(h)
  <2>1. pc[h] = "stage" /\ pc[h] # "idle"
    BY <1>2 DEF StagePackage, At
  <2>2. req[h].id \in RequestIds /\ req[h].version \in Versions
    BY <2>1, RequestFields DEF OpFits
  <2>3. \/ UNCHANGED packages
        \/ \E v \in Versions :
              packages' = [packages EXCEPT ![req[h].id] = [version |-> v, packed |-> FALSE]]
    BY <1>2, <2>2 DEF StagePackage
  <2>4. \A v \in Versions : [version |-> v, packed |-> FALSE] \in Package
    BY DEF Package
  <2> QED
    BY <1>1, <2>3, <2>4
<1>3. CASE PackPlugin(h)
  <2>1. pc[h] = "pack" /\ pc[h] # "idle"
    BY <1>3 DEF PackPlugin, At
  <2>2. req[h].version \in Versions
    BY <2>1, RequestFields DEF OpFits, Installs
  <2>3. [version |-> req[h].version, packed |-> TRUE] \in Package
    BY <2>2 DEF Package
  <2>4. \/ UNCHANGED packages
        \/ packages' = [packages EXCEPT ![req[h].id] =
                           [version |-> req[h].version, packed |-> TRUE]]
    BY <1>3 DEF PackPlugin
  <2> QED
    BY <1>1, <2>3, <2>4
<1>4. CASE ReplayEvent(h)
  <2>1. PICK k \in req[h].todo : ReplaySkill(h, k) \/ ReplayPlugin(h, k) \/ ReplayRemove(h, k)
    BY <1>4 DEF ReplayEvent
  <2> DEFINE e == req[h].events[k]
  <2>2. \/ UNCHANGED packages
        \/ /\ e.type = "plugin_install" /\ Staged(e)
           /\ packages' = [packages EXCEPT ![e.id].packed = FALSE]
    BY <2>1 DEF ReplaySkill, ReplayPlugin, ReplayRemove
  <2>3. ASSUME e.type = "plugin_install", Staged(e)
        PROVE  [packages[e.id] EXCEPT !.packed = FALSE] \in Package
    <3>1. e.version \in Versions
      BY <2>3, ReplayedEvent, EventFields
    <3>2. packages[e.id] = [version |-> e.version, packed |-> TRUE]
      BY <2>3 DEF Staged, ExpectedPackage
    <3> HIDE DEF e
    <3>3. packages[e.id] \in Package
      BY <3>1, <3>2 DEF Package
    <3>4. \A p \in Package : [p EXCEPT !.packed = FALSE] \in Package
      BY DEF Package
    <3> QED
      BY <3>3, <3>4
  <2>4. [packages EXCEPT ![e.id].packed = FALSE]
            = [packages EXCEPT ![e.id] = [packages[e.id] EXCEPT !.packed = FALSE]]
    OBVIOUS
  <2> HIDE DEF e
  <2> QED
    BY <1>1, <2>2, <2>3, <2>4
<1>5. CASE Unwind(h)
  BY <1>1, <1>5 DEF Unwind
<1>6. CASE Repack(h)
  <2>1. PICK k \in req[h].todo : RepackPlugin(h, k)
    BY <1>6 DEF Repack
  <2> DEFINE id == req[h].events[k].id
  <2>2. \/ UNCHANGED packages
        \/ /\ packages[id] # None
           /\ packages' = [packages EXCEPT ![id].packed = TRUE]
    BY <2>1 DEF RepackPlugin
  <2> HIDE DEF id
  <2>3. \A p \in Package : [p EXCEPT !.packed = TRUE] \in Package
    BY DEF Package
  <2>4. [packages EXCEPT ![id].packed = TRUE]
            = [packages EXCEPT ![id] = [packages[id] EXCEPT !.packed = TRUE]]
    OBVIOUS
  <2> QED
    BY <1>1, <2>2, <2>3, <2>4
<1> QED
  BY <1>1, <1>2, <1>3, <1>4, <1>5, <1>6, PackageWriters

\* Copying a tree onto another gives a tree.
LEMMA OverlayType ==
  ASSUME NEW dir \in Content, NEW source \in Content, NEW copied
  PROVE  Overlay(dir, source, copied) \in Content
  BY DEF Overlay, Content

LEMMA ComponentType ==
  ASSUME TypeOK, Fits, TodoInEvents, NEW h \in Handlers, Begin(h) \/ Work(h)
  PROVE  component' \in Content
<1>1. component \in Content /\ req[h] \in Request
  BY DEF TypeOK
<1>2. req[h].held \in Content /\ req[h].snapshot \in Content
  BY <1>1 DEF Request
<1>3. Empty \in Content
  BY DEF Empty, Content
<1>5. CASE InstallPlugin(h)
  <2>1. pc[h] = "install" /\ pc[h] # "idle"
    BY <1>5 DEF InstallPlugin, At
  <2>2. req[h].version \in Versions
    BY <2>1, RequestFields DEF OpFits, Installs
  <2>3. \/ UNCHANGED component
        \/ component' = [component EXCEPT ![req[h].item] = req[h].version]
    BY <1>5 DEF InstallPlugin
  <2>4. [component EXCEPT ![req[h].item] = req[h].version] \in Content
    BY <1>1, <2>2 DEF Content
  <2> QED
    BY <1>1, <2>3, <2>4
<1>6. CASE Reset(h)
  BY <1>1, <1>3, <1>6 DEF Reset
<1>7. CASE CopySnapshot(h)
  <2>1. \E copied : component' = Overlay(component, req[h].snapshot, copied)
    BY <1>7 DEF CopySnapshot
  <2> QED
    BY <1>1, <1>2, <2>1, OverlayType
<1>8. CASE ReplayEvent(h)
  <2>1. PICK k \in req[h].todo : ReplaySkill(h, k) \/ ReplayPlugin(h, k) \/ ReplayRemove(h, k)
    BY <1>8 DEF ReplayEvent
  <2> DEFINE e == req[h].events[k]
  <2>2. e.version \in Versions \cup {None}
    BY ReplayedEvent, EventFields
  <2>3. \/ UNCHANGED component
        \/ component' = [component EXCEPT ![e.item] = e.version]
        \/ component' = [component EXCEPT ![e.item] = None]
    BY <2>1 DEF ReplaySkill, ReplayPlugin, ReplayRemove
  <2> HIDE DEF e
  <2>4. [component EXCEPT ![e.item] = e.version] \in Content
    BY <1>1, <2>2 DEF Content
  <2>5. [component EXCEPT ![e.item] = None] \in Content
    BY <1>1 DEF Content
  <2> QED
    BY <1>1, <2>3, <2>4, <2>5
<1>10. CASE Reinstall(h)
  <2>1. PICK k \in req[h].todo : ReinstallPlugin(h, k)
    BY <1>10 DEF Reinstall
  <2> DEFINE e == req[h].events[k]
  <2>2. e.version \in Versions \cup {None}
    BY ReplayedEvent, EventFields
  <2>3. \/ UNCHANGED component
        \/ component' = [component EXCEPT ![e.item] = e.version]
    BY <2>1 DEF ReinstallPlugin
  <2> HIDE DEF e
  <2>4. [component EXCEPT ![e.item] = e.version] \in Content
    BY <1>1, <2>2 DEF Content
  <2> QED
    BY <1>1, <2>3, <2>4
<1>9. CASE Unwind(h)
  <2>1. component' = req[h].held \/ \E copied : component' = Overlay(Empty, req[h].held, copied)
    BY <1>9 DEF Unwind
  <2> QED
    BY <1>2, <1>3, <2>1, OverlayType
<1> QED
  BY <1>1, <1>5, <1>6, <1>7, <1>8, <1>9, <1>10, ComponentWriters

LEMMA HistoryType ==
  ASSUME TypeOK, Fits, NEW h \in Handlers, Begin(h) \/ Work(h)
  PROVE  history' \in SUBSET (RequestIds \X {"replayed", "deployed", "success"})
<1>1. history \in SUBSET (RequestIds \X {"replayed", "deployed", "success"})
  BY DEF TypeOK
<1>2. CASE RecordDeploy(h)
  <2>1. pc[h] # "idle"
    BY <1>2 DEF RecordDeploy, At
  <2>2. req[h].id \in RequestIds
    BY <2>1, RequestFields
  <2> QED
    BY <1>1, <1>2, <2>2 DEF RecordDeploy
<1>3. CASE AppendRecord(h)
  <2>1. pc[h] # "idle"
    BY <1>3 DEF AppendRecord, At
  <2>2. req[h].id \in RequestIds
    BY <2>1, RequestFields
  <2> QED
    BY <1>1, <1>3, <2>2 DEF AppendRecord
<1> QED
  BY <1>1, <1>2, <1>3, HistoryWriters
-----------------------------------------------------------------------------
(* Fits and TodoInEvents are kept *)

\* A new request starts where its operation starts, with its arguments.
LEMMA BeginFits ==
  ASSUME TypeOK, NEW h \in Handlers, Begin(h)
  PROVE  /\ OpFits(pc'[h], req'[h].op)
         /\ ArgumentsFit(req'[h])
         /\ pc'[h] # "save"
         /\ req'[h].todo = {}
<1>1. PICK r \in Requests :
        /\ pc' = [pc EXCEPT ![h] = FirstStep(r.op)]
        /\ req' = [req EXCEPT ![h] =
              [NoRequest EXCEPT !.op = r.op, !.id = started + 1, !.item = r.item,
                                !.version = r.version, !.source = r.source]]
  BY DEF Begin, Goto
<1>2. started < MaxOps /\ started \in 0..MaxOps /\ MaxOps \in Nat
  BY BoundsAssumption DEF Begin, TypeOK
<1>3. started + 1 \in RequestIds
  BY <1>2 DEF RequestIds
<1>4. /\ pc'[h] = FirstStep(r.op)
      /\ req'[h].op = r.op /\ req'[h].id = started + 1
      /\ req'[h].item = r.item /\ req'[h].version = r.version
      /\ req'[h].todo = {}
  BY <1>1 DEF TypeOK, NoRequest
<1>5. /\ r.op \in Ops
      /\ r.op \in {"skill_deploy", "skill_remove"} => r.item \in Skills
      /\ r.op \in {"plugin_install", "plugin_remove"} => r.item \in Plugins
      /\ r.op \in Installs => r.version \in Versions
  BY DEF Requests, Ops, Installs
<1>6. FirstStep(r.op) # "save" /\ OpFits(FirstStep(r.op), r.op)
  BY <1>5 DEF FirstStep, OpFits, Ops, EditOps, Installs, DeploySteps, CheckpointSteps
<1> QED
  BY <1>3, <1>4, <1>5, <1>6 DEF ArgumentsFit

\* A handler goes on along the steps of its operation.
LEMMA WorkFits ==
  ASSUME TypeOK, Fits, NEW h \in Handlers, Work(h), pc'[h] # "idle"
  PROVE  OpFits(pc'[h], req[h].op)
<1>0. pc[h] # "idle" => OpFits(pc[h], req[h].op)
  BY DEF Fits
<1>00. pc \in [Handlers -> Steps]
  BY DEF TypeOK
<1> USE DEF OpFits, Ops, EditOps, Installs, DeploySteps, CheckpointSteps, At, Goto, Return
<1>1. CASE DeployFailed(h) /\ pc[h] \in DeploySteps
  BY <1>0, <1>00, <1>1 DEF DeployFailed
<1>2. CASE ReadBaseline(h) \/ ReadEffective(h) \/ LoadLog(h)
  BY <1>0, <1>00, <1>2 DEF ReadBaseline, ReadEffective, LoadLog
<1>3. CASE Backup(h) \/ StagePackage(h) \/ PackPlugin(h) \/ InstallPlugin(h) \/ SaveLog(h)
  BY <1>0, <1>00, <1>3 DEF Backup, StagePackage, PackPlugin, InstallPlugin, SaveLog
<1>4. CASE \/ Capture(h) \/ LoadPrevious(h) \/ ReadSkills(h) \/ ReadPlugins(h)
           \/ SaveCheckpoint(h) \/ ClearLog(h)
  BY <1>0, <1>00, <1>4
  DEF Capture, LoadPrevious, ReadSkills, ReadPlugins, SaveCheckpoint, ClearLog
<1>5. CASE LoadBaseline(h) \/ Reset(h) \/ CopySnapshot(h) \/ Up(h) \/ LoadReplay(h)
  <2>1. pc[h] \in DeploySteps
    BY <1>5 DEF LoadBaseline, Reset, CopySnapshot, Up, LoadReplay
  <2>2. pc'[h] \in DeploySteps \/ DeployFailed(h)
    BY <1>00, <1>5 DEF LoadBaseline, Reset, CopySnapshot, Up, LoadReplay
  <2> QED
    BY <1>0, <1>1, <2>1, <2>2
<1>6. CASE ReplayEvent(h) \/ Repack(h) \/ Reinstall(h)
  <2>1. pc[h] \in {"replay", "repack", "reinstall"}
    BY <1>6, RepackContinues, ReinstallContinues DEF ReplayEvent
  <2>2. \/ UNCHANGED pc \/ DeployFailed(h)
        \/ pc'[h] \in {"replay", "repack", "reinstall"}
    BY <1>00, <1>6, ReplayContinues, RepackContinues, ReinstallContinues
    DEF Replayed, Repacking
  <2> QED
    BY <1>0, <1>1, <2>1, <2>2
<1>7. CASE RecordDeploy(h)
  <2>1. pc[h] = "replay"
    BY <1>7 DEF RecordDeploy
  <2>2. \/ req[h].op # "reload" /\ pc'[h] = "append"
        \/ DeployFailed(h)
    BY <1>00, <1>7 DEF RecordDeploy
  <2> QED
    BY <1>0, <1>1, <2>1, <2>2
<1>8. CASE AppendRecord(h) \/ UndoCheckpoint(h) \/ UndoLog(h) \/ Unwind(h)
  BY <1>0, <1>00, <1>8 DEF AppendRecord, UndoCheckpoint, UndoLog, Unwind
<1> QED
  BY <1>2, <1>3, <1>4, <1>5, <1>6, <1>7, <1>8 DEF Work

\* A handler about to save the log has looked for what it takes out of it.
LEMMA WorkFindable ==
  ASSUME TypeOK, Fits, NEW h \in Handlers, Work(h), pc'[h] = "save"
  PROVE  Findable(req'[h])
<1>0. pc \in [Handlers -> Steps] /\ req \in [Handlers -> Request]
  BY DEF TypeOK
<1> USE DEF At, Goto, Return
<1>1. CASE ReadBaseline(h)
  <2>1. pc[h] = "baseline"
    BY <1>1 DEF ReadBaseline
  <2>2. /\ req[h].op = "plugin_remove"
        /\ checkpoint.meta[req[h].item] # None \/ HasInstall(req[h].log0, req[h].item)
        /\ req' = [req EXCEPT ![h].base = checkpoint.meta[req[h].item]]
    BY <1>0, <1>1 DEF ReadBaseline
  <2>3. /\ req'[h].op = req[h].op /\ req'[h].item = req[h].item
        /\ req'[h].log0 = req[h].log0
        /\ req'[h].base = checkpoint.meta[req[h].item]
    BY <1>0, <2>2 DEF Request
  <2> QED
    BY <2>2, <2>3 DEF Findable
<1>2. CASE LoadLog(h)
  <2>1. pc[h] = "load" /\ req[h].op \in Ops
    BY <1>2 DEF LoadLog, Fits, OpFits
  <2>2. /\ req' = [req EXCEPT ![h].log0 = log]
        /\ \/ req[h].op \in Installs \cup {"reload"}
           \/ req[h].op = "skill_remove" /\ HasInstall(log, req[h].item)
    BY <1>0, <1>2, <2>1 DEF LoadLog, Ops, Installs
  <2>3. req'[h].op = req[h].op /\ req'[h].item = req[h].item /\ req'[h].log0 = log
    BY <1>0, <2>2 DEF Request
  <2> QED
    BY <2>2, <2>3 DEF Findable, EditOps, Installs
<1>3. CASE \/ ReadEffective(h) \/ Backup(h) \/ StagePackage(h) \/ PackPlugin(h)
           \/ InstallPlugin(h) \/ SaveLog(h)
  BY <1>0, <1>3 DEF ReadEffective, Backup, StagePackage, PackPlugin, InstallPlugin, SaveLog
<1>4. CASE \/ Capture(h) \/ LoadPrevious(h) \/ ReadSkills(h) \/ ReadPlugins(h)
           \/ SaveCheckpoint(h) \/ ClearLog(h)
  BY <1>0, <1>4
  DEF Capture, LoadPrevious, ReadSkills, ReadPlugins, SaveCheckpoint, ClearLog
<1>5. CASE \/ LoadBaseline(h) \/ Reset(h) \/ CopySnapshot(h) \/ Up(h)
           \/ LoadReplay(h) \/ RecordDeploy(h)
  BY <1>0, <1>5
  DEF LoadBaseline, Reset, CopySnapshot, Up, LoadReplay, RecordDeploy, DeployFailed
<1>6. CASE ReplayEvent(h) \/ Repack(h) \/ Reinstall(h)
  <2>1. /\ pc[h] \in {"replay", "repack", "reinstall"}
        /\ \/ UNCHANGED pc \/ DeployFailed(h)
           \/ pc'[h] \in {"replay", "repack", "reinstall"}
    BY <1>0, <1>6, ReplayContinues, RepackContinues, ReinstallContinues
    DEF Replayed, Repacking, ReplayEvent
  <2> QED
    BY <1>0, <2>1 DEF DeployFailed
<1>7. CASE AppendRecord(h) \/ UndoCheckpoint(h) \/ UndoLog(h) \/ Unwind(h)
  BY <1>0, <1>7 DEF AppendRecord, UndoCheckpoint, UndoLog, Unwind
<1> QED
  BY <1>1, <1>2, <1>3, <1>4, <1>5, <1>6, <1>7 DEF Work

\* A handler that works has a request.
LEMMA Working ==
  ASSUME NEW h \in Handlers, Work(h)
  PROVE  pc[h] # "idle"
<1> USE DEF At
<1>1. CASE \/ ReadBaseline(h) \/ ReadEffective(h) \/ Backup(h) \/ StagePackage(h)
           \/ PackPlugin(h) \/ InstallPlugin(h) \/ LoadLog(h) \/ SaveLog(h)
  BY <1>1 DEF ReadBaseline, ReadEffective, Backup, StagePackage, PackPlugin,
              InstallPlugin, LoadLog, SaveLog
<1>2. CASE \/ Capture(h) \/ LoadPrevious(h) \/ ReadSkills(h) \/ ReadPlugins(h)
           \/ SaveCheckpoint(h) \/ ClearLog(h)
  BY <1>2 DEF Capture, LoadPrevious, ReadSkills, ReadPlugins, SaveCheckpoint, ClearLog
<1>3. CASE \/ LoadBaseline(h) \/ Reset(h) \/ CopySnapshot(h) \/ Up(h)
           \/ LoadReplay(h) \/ ReplayEvent(h) \/ Repack(h) \/ Reinstall(h)
           \/ RecordDeploy(h)
  BY <1>3 DEF LoadBaseline, Reset, CopySnapshot, Up, LoadReplay, ReplayEvent, Repack,
              Reinstall, RecordDeploy
<1>4. CASE AppendRecord(h) \/ UndoCheckpoint(h) \/ UndoLog(h) \/ Unwind(h)
  BY <1>4 DEF AppendRecord, UndoCheckpoint, UndoLog, Unwind
<1> QED
  BY <1>1, <1>2, <1>3, <1>4 DEF Work

LEMMA FitsKept ==
  ASSUME TypeOK, Fits, NEW h \in Handlers, Begin(h) \/ Work(h)
  PROVE  Fits'
<1>1. ASSUME Begin(h)
      PROVE  pc'[h] # "idle" => /\ OpFits(pc'[h], req'[h].op)
                                /\ ArgumentsFit(req'[h])
                                /\ pc'[h] = "save" => Findable(req'[h])
  BY <1>1, BeginFits
<1>2. ASSUME Work(h), pc'[h] # "idle"
      PROVE  /\ OpFits(pc'[h], req'[h].op)
             /\ ArgumentsFit(req'[h])
             /\ pc'[h] = "save" => Findable(req'[h])
  <2>1. SameRequest(h)
    BY <1>2, RequestKept
  <2>2. pc[h] # "idle"
    BY <1>2, Working
  <2>3. ArgumentsFit(req[h])
    BY <2>2 DEF Fits
  <2>4. ArgumentsFit(req'[h])
    BY <2>1, <2>3 DEF SameRequest, ArgumentsFit
  <2>5. OpFits(pc'[h], req'[h].op)
    BY <1>2, <2>1, WorkFits DEF SameRequest
  <2> QED
    BY <1>2, <2>4, <2>5, WorkFindable
<1>3. ASSUME NEW g \in Handlers, g # h, pc'[g] # "idle"
      PROVE  /\ OpFits(pc'[g], req'[g].op)
             /\ ArgumentsFit(req'[g])
             /\ pc'[g] = "save" => Findable(req'[g])
  <2>1. pc'[g] = pc[g] /\ req'[g] = req[g]
    BY <1>3, OthersAlone
  <2> QED
    BY <1>3, <2>1 DEF Fits
<1> QED
  BY <1>1, <1>2, <1>3 DEF Fits

\* The events left to replay stay events of the log that was loaded.
LEMMA TodoKept ==
  ASSUME TypeOK, TodoInEvents, NEW h \in Handlers, Begin(h) \/ Work(h)
  PROVE  TodoInEvents'
<1>0. req \in [Handlers -> Request]
  BY DEF TypeOK
<1>1. \/ req'[h].events = req[h].events /\ req'[h].todo \subseteq req[h].todo
      \/ req'[h].todo = {}
      \/ req'[h].events = log /\ req'[h].todo = DOMAIN log
  <2>1. CASE Begin(h)
    BY <2>1, BeginFits
  <2> USE DEF Goto, Return, NoRequest, Request, DeployFailed
  <2>2. CASE \/ ReadBaseline(h) \/ ReadEffective(h) \/ Backup(h) \/ StagePackage(h)
             \/ PackPlugin(h) \/ InstallPlugin(h) \/ LoadLog(h) \/ SaveLog(h)
    BY <1>0, <2>2, SMTT(30)
    DEF ReadBaseline, ReadEffective, Backup, StagePackage, PackPlugin,
        InstallPlugin, LoadLog, SaveLog
  <2>3. CASE \/ Capture(h) \/ LoadPrevious(h) \/ ReadSkills(h) \/ ReadPlugins(h)
             \/ SaveCheckpoint(h) \/ ClearLog(h)
    BY <1>0, <2>3
    DEF Capture, LoadPrevious, ReadSkills, ReadPlugins, SaveCheckpoint, ClearLog
  <2>4. CASE LoadBaseline(h) \/ Reset(h) \/ CopySnapshot(h) \/ Up(h) \/ RecordDeploy(h)
    BY <1>0, <2>4 DEF LoadBaseline, Reset, CopySnapshot, Up, RecordDeploy
  <2>5. CASE LoadReplay(h)
    BY <1>0, <2>5 DEF LoadReplay
  <2>6. CASE ReplayEvent(h) \/ Repack(h) \/ Reinstall(h)
    BY <1>0, <2>6, ReplayContinues, RepackContinues, ReinstallContinues
    DEF Replayed, Repacking
  <2>7. CASE AppendRecord(h) \/ UndoCheckpoint(h) \/ UndoLog(h) \/ Unwind(h)
    BY <1>0, <2>7 DEF AppendRecord, UndoCheckpoint, UndoLog, Unwind
  <2> QED
    BY <2>1, <2>2, <2>3, <2>4, <2>5, <2>6, <2>7 DEF Work
<1>2. req'[h].todo \subseteq DOMAIN req'[h].events
  BY <1>1 DEF TodoInEvents
<1>3. ASSUME NEW g \in Handlers, g # h
      PROVE  req'[g].todo \subseteq DOMAIN req'[g].events
  BY <1>3, OthersAlone DEF TodoInEvents
<1> QED
  BY <1>2, <1>3 DEF TodoInEvents

\* The loop turns to the package of an event only when it is the next one.
LEMMA PackingKeeps ==
  ASSUME TypeOK, PackingNext, NEW h \in Handlers, Begin(h) \/ Work(h)
  PROVE  PackingNext'
<1>0. pc \in [Handlers -> Steps]
  BY DEF TypeOK
<1> DEFINE Packs == {"repack", "reinstall"}
<1>1. pc'[h] \notin Packs \/ ReplayEvent(h) \/ Repack(h)
  <2> USE DEF Goto, Return, DeployFailed
  <2>1. CASE Begin(h)
    BY <1>0, <2>1 DEF Begin, FirstStep
  <2>2. CASE \/ ReadBaseline(h) \/ ReadEffective(h) \/ Backup(h) \/ StagePackage(h)
             \/ PackPlugin(h) \/ InstallPlugin(h) \/ LoadLog(h) \/ SaveLog(h)
    BY <1>0, <2>2 DEF ReadBaseline, ReadEffective, Backup, StagePackage, PackPlugin,
                      InstallPlugin, LoadLog, SaveLog
  <2>3. CASE \/ Capture(h) \/ LoadPrevious(h) \/ ReadSkills(h) \/ ReadPlugins(h)
             \/ SaveCheckpoint(h) \/ ClearLog(h)
    BY <1>0, <2>3
    DEF Capture, LoadPrevious, ReadSkills, ReadPlugins, SaveCheckpoint, ClearLog
  <2>4. CASE \/ LoadBaseline(h) \/ Reset(h) \/ CopySnapshot(h) \/ Up(h)
             \/ LoadReplay(h) \/ RecordDeploy(h)
    BY <1>0, <2>4 DEF LoadBaseline, Reset, CopySnapshot, Up, LoadReplay, RecordDeploy
  <2>5. CASE Reinstall(h)
    <3>1. CASE DeployFailed(h)
      BY <1>0, <2>5, <3>1, ReinstallContinues
    <3> QED
      BY <1>0, <2>5, <3>1, ReinstallContinues
  <2>6. CASE AppendRecord(h) \/ UndoCheckpoint(h) \/ UndoLog(h) \/ Unwind(h)
    BY <1>0, <2>6 DEF AppendRecord, UndoCheckpoint, UndoLog, Unwind
  <2> QED
    BY <2>1, <2>2, <2>3, <2>4, <2>5, <2>6 DEF Work
<1>2. ASSUME ReplayEvent(h), pc'[h] \in Packs
      PROVE  \E k \in req'[h].todo :
                /\ NextToReplay(req'[h].events, req'[h].todo, k)
                /\ req'[h].events[k].type = "plugin_install"
  <2>1. PICK k \in req[h].todo :
           /\ NextToReplay(req[h].events, req[h].todo, k)
           /\ ReplaySkill(h, k) \/ ReplayPlugin(h, k) \/ ReplayRemove(h, k)
    BY <1>2 DEF ReplayEvent
  <2>2. ~DeployFailed(h)
    BY <1>0, <1>2 DEF DeployFailed, Return, Goto
  <2>3. pc[h] = "replay"
    BY <1>2 DEF ReplayEvent, At
  <2>4. ~Replayed(h, k)
    BY <1>2, <2>3 DEF Replayed
  <2>5. ReplayPlugin(h, k)
    BY <2>1, <2>2, <2>4 DEF ReplaySkill, ReplayRemove
  <2>6. req[h].events[k].type = "plugin_install" /\ UNCHANGED req
    BY <2>2, <2>4, <2>5 DEF ReplayPlugin
  <2> QED
    BY <2>1, <2>6
<1>3. ASSUME Repack(h), pc'[h] \in Packs
      PROVE  \E k \in req'[h].todo :
                /\ NextToReplay(req'[h].events, req'[h].todo, k)
                /\ req'[h].events[k].type = "plugin_install"
  <2>1. UNCHANGED req
    BY <1>0, <1>3, RepackContinues DEF Repacking, DeployFailed, Return, Goto
  <2>2. pc[h] \in Packs
    BY <1>3, RepackContinues
  <2> QED
    BY <2>1, <2>2 DEF PackingNext
<1>4. ASSUME NEW g \in Handlers, g # h
      PROVE  pc'[g] = pc[g] /\ req'[g] = req[g]
  BY <1>4, OthersAlone
<1> QED
  BY <1>1, <1>2, <1>3, <1>4 DEF PackingNext

-----------------------------------------------------------------------------
(* The invariant *)

LEMMA InitInv == Init => DeployInv
<1> SUFFICES ASSUME Init PROVE DeployInv
  OBVIOUS
<1>1. Empty \in Content /\ NoCheckpoint \in Checkpoint /\ <<>> \in Log
  BY DEF Empty, Content, NoCheckpoint, Checkpoint, Log
<1>2. TypeOK
  BY <1>1, NoRequestType, BoundsAssumption DEF Init, TypeOK, Steps
<1>3. Fits
  BY DEF Init, Fits
<1>4. TodoInEvents
  BY DEF Init, TodoInEvents, NoRequest
<1>5. PackingNext
  BY DEF Init, PackingNext
<1> QED
  BY <1>2, <1>3, <1>4, <1>5 DEF DeployInv

\* A step of a handler keeps the invariant.
LEMMA HandlerInv ==
  ASSUME DeployInv, NEW h \in Handlers, Begin(h) \/ Work(h)
  PROVE  DeployInv'
<1>1. TypeOK /\ Fits /\ TodoInEvents /\ PackingNext
  BY DEF DeployInv
<1>2. TypeOK'
  BY <1>1, CheckpointType, LogType, PackagesType, ComponentType, HistoryType,
     StepTypes, RequestTypes, CounterTypes
  DEF TypeOK
<1> QED
  BY <1>1, <1>2, FitsKept, TodoKept, PackingKeeps DEF DeployInv

\* A kill forgets the requests and leaves the files.
LEMMA CrashInv ==
  ASSUME DeployInv, Crash
  PROVE  DeployInv'
<1>1. TypeOK'
  <2>1. crashes' \in 0..MaxCrashes
    <3>1. /\ crashes \in 0..MaxCrashes /\ MaxCrashes \in Nat
          /\ crashes < MaxCrashes /\ crashes' = crashes + 1
      BY BoundsAssumption DEF DeployInv, TypeOK, Crash
    <3> QED
      BY <3>1
  <2> QED
    BY <2>1, NoRequestType DEF DeployInv, TypeOK, Crash, Steps, stores
<1>2. Fits'
  BY DEF Crash, Fits
<1>3. TodoInEvents'
  BY DEF Crash, TodoInEvents, NoRequest
<1>4. PackingNext'
  BY DEF Crash, PackingNext
<1> QED
  BY <1>1, <1>2, <1>3, <1>4 DEF DeployInv

LEMMA StutterInv ==
  ASSUME DeployInv, UNCHANGED vars
  PROVE  DeployInv'
<1>1. TypeOK'
  BY DEF DeployInv, TypeOK, vars
<1>2. Fits' /\ TodoInEvents' /\ PackingNext'
  BY DEF DeployInv, Fits, TodoInEvents, PackingNext, vars
<1> QED
  BY <1>1, <1>2 DEF DeployInv

THEOREM RuntimeInvariant == Spec => []DeployInv
<1>1. DeployInv /\ [Next]_vars => DeployInv'
  BY HandlerInv, CrashInv, StutterInv DEF Next
<1> QED
  BY InitInv, <1>1, PTL DEF Spec

\* The variables keep their types, whatever fails, overlaps or is killed: an
\* edited log is a log, and nothing but an event of the log is replayed.
THEOREM RuntimeTypeCorrect == Spec => []TypeOK
<1>1. DeployInv => TypeOK
  BY DEF DeployInv
<1> QED
  BY RuntimeInvariant, <1>1, PTL

-----------------------------------------------------------------------------
(* Requests end.  That each is answered (RequestsAnswered) is liveness, for *)
(* TLC.  What it rests on is safety: every step of a request brings it      *)
(* nearer to its end, nothing takes it back, and the one step that looks    *)
(* for something to do, the replay loop, finds it.                          *)

\* How far a step is from the end of its request.  All operations go through
\* the steps in one order, but for their reading of the checkpoint.
Distance(step, op) ==
    CASE step = "idle" -> 0
      [] step = "unwind" -> 1
      [] step = "undo_log" -> 2
      [] step = "undo_cp" -> 3
      [] step = "append" -> 4
      [] step = "reinstall" -> 5
      [] step = "repack" -> 6
      [] step = "replay" -> 7
      [] step = "load_replay" -> 8
      [] step = "up" -> 9
      [] step = "copy" -> 10
      [] step = "reset" -> 11
      [] step = "restore" -> 12
      [] step \in {"save", "clear"} -> 13
      [] step = "save_cp" -> 14
      [] step = "plugins" -> 15
      [] step = "skills" -> 16
      [] step = "load" -> 17
      [] step \in {"effective", "previous"} -> 18
      [] step = "capture" -> 19
      [] step = "install" -> 20
      [] step = "pack" -> 21
      [] step = "stage" -> 22
      [] step = "backup" -> 23
      [] step = "baseline" ->
            IF op = "plugin_remove" THEN 15
            ELSE IF op = "plugin_install" THEN 19 ELSE 24
      [] OTHER -> 25

\* A request takes a step nearer to its end, or has one event less to replay.
MovesOn(h) ==
    \/ Distance(pc'[h], req[h].op) < Distance(pc[h], req[h].op)
    \/ /\ pc[h] \in {"replay", "reinstall"} /\ pc'[h] = "replay"
       /\ req'[h].events = req[h].events
       /\ \E k \in req[h].todo : req'[h].todo = req[h].todo \ {k}

LEMMA WorkMovesOn ==
  ASSUME DeployInv, NEW h \in Handlers, Work(h)
  PROVE  MovesOn(h)
<1>0. /\ pc \in [Handlers -> Steps] /\ req \in [Handlers -> Request]
      /\ pc[h] # "idle" => OpFits(pc[h], req[h].op)
  BY DEF DeployInv, TypeOK, Fits
<1> USE DEF MovesOn, Distance, At, Goto, Return, DeployFailed
<1>1. CASE ReadBaseline(h) \/ ReadEffective(h) \/ LoadLog(h)
  BY <1>0, <1>1 DEF ReadBaseline, ReadEffective, LoadLog, OpFits
<1>2. CASE Backup(h) \/ StagePackage(h) \/ PackPlugin(h) \/ InstallPlugin(h)
  BY <1>0, <1>2 DEF Backup, StagePackage, PackPlugin, InstallPlugin, OpFits
<1>3. CASE \/ SaveLog(h) \/ Capture(h) \/ LoadPrevious(h) \/ ReadSkills(h)
           \/ ReadPlugins(h) \/ SaveCheckpoint(h) \/ ClearLog(h)
  BY <1>0, <1>3 DEF SaveLog, Capture, LoadPrevious, ReadSkills, ReadPlugins,
                    SaveCheckpoint, ClearLog
<1>4. CASE \/ LoadBaseline(h) \/ Reset(h) \/ CopySnapshot(h) \/ Up(h)
           \/ LoadReplay(h) \/ RecordDeploy(h)
  BY <1>0, <1>4 DEF LoadBaseline, Reset, CopySnapshot, Up, LoadReplay, RecordDeploy
<1>5. CASE ReplayEvent(h)
  <2>1. PICK k \in req[h].todo : Replayed(h, k) \/ DeployFailed(h) \/ Repacking(h)
    BY <1>5, ReplayContinues
  <2>2. pc[h] = "replay"
    BY <1>5 DEF ReplayEvent
  <2>3. CASE Replayed(h, k)
    BY <1>0, <2>1, <2>2, <2>3 DEF Replayed, Request
  <2>4. CASE DeployFailed(h) \/ Repacking(h)
    BY <1>0, <2>2, <2>4 DEF Repacking
  <2> QED
    BY <2>1, <2>3, <2>4
<1>7. CASE Repack(h)
  <2>1. /\ pc[h] = "repack"
        /\ DeployFailed(h) \/ pc'[h] = "reinstall"
    <3>1. DeployFailed(h) \/ Goto(h, "reinstall")
      BY <1>7 DEF Repack, RepackPlugin
    <3> QED
      BY <1>0, <1>7, <3>1, RepackContinues
  <2> QED
    BY <1>0, <2>1
<1>8. CASE Reinstall(h)
  <2>1. pc[h] = "reinstall"
    BY <1>8, ReinstallContinues
  <2>2. CASE DeployFailed(h)
    BY <1>0, <2>1, <2>2
  <2>3. ASSUME NEW k \in req[h].todo, req' = [req EXCEPT ![h].todo = @ \ {k}],
               Goto(h, "replay")
        PROVE  MovesOn(h)
    BY <1>0, <2>1, <2>3 DEF Request
  <2> QED
    BY <1>8, <2>2, <2>3, ReinstallContinues
<1>6. CASE AppendRecord(h) \/ UndoCheckpoint(h) \/ UndoLog(h) \/ Unwind(h)
  BY <1>0, <1>6 DEF AppendRecord, UndoCheckpoint, UndoLog, Unwind
<1> QED
  BY <1>1, <1>2, <1>3, <1>4, <1>5, <1>6, <1>7, <1>8 DEF Work

\* Every step of a request brings it nearer to its end, by one step of its
\* operation or one event of the log it loaded; no other request takes it back,
\* and a kill ends it (runtime_state.go).
THEOREM RequestsMoveOn ==
  Spec => [][\A h \in Handlers :
                /\ Work(h) => MovesOn(h)
                /\ pc[h] # "idle" /\ <<pc[h], req[h]>>' # <<pc[h], req[h]>>
                   => MovesOn(h)]_vars
<1> DEFINE OnlyOn ==
      \A h \in Handlers :
          /\ Work(h) => MovesOn(h)
          /\ pc[h] # "idle" /\ <<pc[h], req[h]>>' # <<pc[h], req[h]>> => MovesOn(h)
<1>1. ASSUME DeployInv, Next, NEW h \in Handlers, pc[h] # "idle",
             <<pc[h], req[h]>>' # <<pc[h], req[h]>>
      PROVE  MovesOn(h)
  <2>1. CASE Crash
    <3>1. pc'[h] = "idle" /\ pc[h] \in Steps
      BY <1>1, <2>1 DEF Crash, DeployInv, TypeOK
    <3> QED
      BY <1>1, <3>1 DEF MovesOn, Distance, Steps
  <2>2. ASSUME NEW g \in Handlers, Begin(g) \/ Work(g)
        PROVE  MovesOn(h)
    <3>1. g = h
      BY <1>1, <2>2, OthersAlone DEF DeployInv
    <3>2. ~Begin(h)
      BY <1>1 DEF Begin, At
    <3> QED
      BY <1>1, <2>2, <3>1, <3>2, WorkMovesOn
  <2> QED
    BY <1>1, <2>1, <2>2 DEF Next
<1>2. DeployInv /\ [Next]_vars => [OnlyOn]_vars
  BY <1>1, WorkMovesOn
<1> HIDE DEF OnlyOn
<1>3. Spec => [][OnlyOn]_vars
  BY <1>2, RuntimeInvariant, PTL DEF Spec
<1> QED
  BY <1>3 DEF OnlyOn

\* One of the events left to replay comes before the others.
LEMMA FirstExists ==
  ASSUME NEW events \in Log, NEW todo, todo \subseteq DOMAIN events, todo # {}
  PROVE  \E k \in todo : NextToReplay(events, todo, k)
<1> DEFINE P == {k \in todo : IsPluginEvent(events[k])}
<1>1. todo \subseteq Nat
  BY DEF Log
<1>2. ASSUME NEW T, T # {}, T \subseteq todo
      PROVE  \E m \in T : \A y \in T : m <= y
  <2>1. T \subseteq Nat
    BY <1>1, <1>2
  <2> QED
    BY <1>2, <2>1, Least
<1>3. CASE P # {}
  <2>1. PICK m \in P : \A y \in P : m <= y
    BY <1>2, <1>3
  <2>2. \A j \in todo \ {m} : Before(events, m, j)
    BY <1>1, <2>1 DEF Before
  <2> QED
    BY <2>1, <2>2 DEF NextToReplay
<1>4. CASE P = {}
  <2>1. PICK m \in todo : \A y \in todo : m <= y
    BY <1>2
  <2>2. \A j \in todo \ {m} : Before(events, m, j)
    BY <1>1, <1>4, <2>1 DEF Before
  <2> QED
    BY <2>1, <2>2 DEF NextToReplay
<1> QED
  BY <1>3, <1>4

\* The replay loop is never stuck: as long as events are left, one comes first,
\* and it is of a kind the loop knows, whatever other requests have done to the
\* log since it was loaded (orderedRuntimeReplayEvents); and the plugin being
\* packed and installed stays the one whose turn it is.
THEOREM ReplayGoesOn ==
  Spec => [](\A h \in Handlers :
               /\ req[h].todo # {} =>
                     \E k \in req[h].todo :
                        /\ NextToReplay(req[h].events, req[h].todo, k)
                        /\ req[h].events[k].type \in EventTypes
               /\ pc[h] \in {"repack", "reinstall"} =>
                     \E k \in req[h].todo :
                        /\ NextToReplay(req[h].events, req[h].todo, k)
                        /\ req[h].events[k].type = "plugin_install")
<1> DEFINE GoesOn ==
      \A h \in Handlers :
         req[h].todo # {} =>
            \E k \in req[h].todo :
               /\ NextToReplay(req[h].events, req[h].todo, k)
               /\ req[h].events[k].type \in EventTypes
<1>1. DeployInv => GoesOn
  <2> SUFFICES ASSUME DeployInv, NEW h \in Handlers, req[h].todo # {}
               PROVE  \E k \in req[h].todo :
                         /\ NextToReplay(req[h].events, req[h].todo, k)
                         /\ req[h].events[k].type \in EventTypes
    OBVIOUS
  <2>1. req[h].events \in Log /\ req[h].todo \subseteq DOMAIN req[h].events
    BY DEF DeployInv, TypeOK, TodoInEvents, Request
  <2>2. PICK k \in req[h].todo : NextToReplay(req[h].events, req[h].todo, k)
    BY <2>1, FirstExists
  <2>3. req[h].events[k] \in Event
    BY <2>1, <2>2 DEF Log
  <2> QED
    BY <2>2, <2>3, EventFields
<1>2. DeployInv => GoesOn /\ PackingNext
  BY <1>1 DEF DeployInv
<1> HIDE DEF GoesOn
<1>3. Spec => [](GoesOn /\ PackingNext)
  BY <1>2, RuntimeInvariant, PTL
<1>4. GoesOn /\ PackingNext <=>
        \A h \in Handlers :
            /\ req[h].todo # {} =>
                  \E k \in req[h].todo :
                     /\ NextToReplay(req[h].events, req[h].todo, k)
                     /\ req[h].events[k].type \in EventTypes
            /\ pc[h] \in {"repack", "reinstall"} =>
                  \E k \in req[h].todo :
                     /\ NextToReplay(req[h].events, req[h].todo, k)
                     /\ req[h].events[k].type = "plugin_install"
  BY DEF GoesOn, PackingNext
<1> QED
  BY <1>3, <1>4, PTL

-----------------------------------------------------------------------------
(* The rebuilt runtime.  The core is the replay loop.  It takes plugin      *)
(* events before skill events, while the rebuilt state is defined by the   *)
(* last event of each item in the log.  The two agree because all events   *)
(* of one item are of one kind, so each item's events are taken in the     *)
(* order of the log.                                                       *)


\* At most one request runs.
Single == \A g, h \in Handlers : pc[g] # "idle" /\ pc[h] # "idle" => g = h

Done(r) == DOMAIN r.events \ r.todo

\* The events of an item that are still to come are later than those replayed,
\* and the directory has what the last replayed one left.
Progress(r, dir) ==
    \A i \in Items :
        /\ \A k \in Done(r), j \in r.todo :
              r.events[k].item = i /\ r.events[j].item = i => k < j
        /\ \A k \in Done(r) :
              /\ r.events[k].item = i
              /\ \A j \in Done(r) : j > k => r.events[j].item # i
              => dir[i] = r.events[k].version
        /\ (\A k \in Done(r) : r.events[k].item # i) => dir[i] = r.snapshot[i]

ReplaySteps == {"replay", "repack", "reinstall"}

RebuildSteps == {"reset", "copy", "up", "load_replay"} \cup ReplaySteps

\* What the steps of DeployService have established.
Rebuilding(h) ==
    /\ pc[h] \in RebuildSteps => req[h].snapshot = checkpoint.snapshot
    /\ pc[h] = "copy" => component = Empty
    /\ pc[h] \in {"up", "load_replay"} => component = req[h].snapshot
    /\ pc[h] \in ReplaySteps => req[h].events = log /\ Progress(req[h], component)

RebuildInv == Single /\ \A h \in Handlers : Rebuilding(h)

-----------------------------------------------------------------------------
(* One request at a time *)

LEMMA SingleKept ==
  ASSUME TypeOK, Single, ~Overlap, NEW h \in Handlers, Begin(h) \/ Work(h)
  PROVE  Single' /\ \A g \in Handlers : g # h => pc[g] = "idle" /\ pc'[g] = "idle"
<1>1. ASSUME NEW g \in Handlers, g # h
      PROVE  pc[g] = "idle"
  <2>1. CASE Begin(h)
    BY <2>1 DEF Begin, At
  <2>2. CASE Work(h)
    BY <1>1, <2>2, Working DEF Single
  <2> QED
    BY <2>1, <2>2
<1>2. ASSUME NEW g \in Handlers, g # h
      PROVE  pc'[g] = "idle"
  BY <1>1, <1>2, OthersAlone
<1> QED
  BY <1>1, <1>2 DEF Single

-----------------------------------------------------------------------------
(* The replay loop *)

\* Copying a snapshot into an empty directory gives the snapshot.
LEMMA CopyIntoEmpty ==
  ASSUME NEW source \in Content
  PROVE  Overlay(Empty, source, Items) = source
  BY DEF Overlay, Empty, Content

\* Nothing replayed yet.
LEMMA ProgressStart ==
  ASSUME NEW r, r.todo = DOMAIN r.events
  PROVE  Progress(r, r.snapshot)
  BY DEF Progress, Done

\* The next event of the loop.
LEMMA ProgressStep ==
  ASSUME NEW r \in Request, r.todo \subseteq DOMAIN r.events,
         NEW k \in r.todo, NextToReplay(r.events, r.todo, k),
         NEW dir \in Content, Progress(r, dir),
         NEW s, s.events = r.events, s.todo = r.todo \ {k}, s.snapshot = r.snapshot
  PROVE  Progress(s, [dir EXCEPT ![r.events[k].item] = r.events[k].version])
<1> DEFINE ev == r.events
           new == [dir EXCEPT ![ev[k].item] = ev[k].version]
<1>1. /\ ev \in Log /\ k \in DOMAIN ev
      /\ DOMAIN ev \subseteq Nat
      /\ \A j \in DOMAIN ev : ev[j] \in Event
  BY DEF Request, Log
<1>2. Done(s) = Done(r) \cup {k} /\ k \notin Done(r) /\ Done(r) \subseteq DOMAIN ev
  BY DEF Done
<1>3. ASSUME NEW j \in r.todo \ {k}, ev[j].item = ev[k].item
      PROVE  k < j
  <2>1. Before(ev, k, j)
    BY DEF NextToReplay
  <2>2. ev[j] \in Event /\ ev[k] \in Event
    BY <1>1
  <2>3. IsPluginEvent(ev[j]) <=> IsPluginEvent(ev[k])
    BY <1>3, <2>2, EventFields
  <2> QED
    BY <2>1, <2>3 DEF Before
<1> HIDE DEF ev
<1>4. ASSUME NEW i \in Items
      PROVE  /\ \A m \in Done(s), j \in s.todo :
                   ev[m].item = i /\ ev[j].item = i => m < j
             /\ \A m \in Done(s) :
                   /\ ev[m].item = i
                   /\ \A j \in Done(s) : j > m => ev[j].item # i
                   => new[i] = ev[m].version
             /\ (\A m \in Done(s) : ev[m].item # i) => new[i] = s.snapshot[i]
  <2>0. /\ \A m \in Done(r), j \in r.todo :
              ev[m].item = i /\ ev[j].item = i => m < j
        /\ \A m \in Done(r) :
              /\ ev[m].item = i
              /\ \A j \in Done(r) : j > m => ev[j].item # i
              => dir[i] = ev[m].version
        /\ (\A m \in Done(r) : ev[m].item # i) => dir[i] = r.snapshot[i]
    BY DEF Progress, ev
  <2>1. ASSUME NEW m \in Done(s), NEW j \in s.todo, ev[m].item = i, ev[j].item = i
        PROVE  m < j
    <3>1. CASE m = k
      BY <1>3, <2>1, <3>1
    <3>2. CASE m # k
      BY <1>2, <2>0, <2>1, <3>2
    <3> QED
      BY <3>1, <3>2
  <2>2. ASSUME NEW m \in Done(s), ev[m].item = i,
               \A j \in Done(s) : j > m => ev[j].item # i
        PROVE  new[i] = ev[m].version
    <3>1. CASE ev[k].item = i
      <4>1. m = k
        <5>1. CASE m \in Done(r)
          <6>1. m < k
            BY <2>0, <2>2, <3>1, <5>1
          <6> QED
            BY <1>2, <2>2, <3>1, <6>1
        <5> QED
          BY <1>2, <2>2, <5>1
      <4> QED
        BY <3>1, <4>1 DEF Content
    <3>2. CASE ev[k].item # i
      <4>1. m \in Done(r) /\ \A j \in Done(r) : j > m => ev[j].item # i
        BY <1>2, <2>2, <3>2
      <4>2. dir[i] = ev[m].version
        BY <2>0, <2>2, <4>1
      <4> QED
        BY <3>2, <4>2 DEF Content
    <3> QED
      BY <3>1, <3>2
  <2>3. ASSUME \A m \in Done(s) : ev[m].item # i
        PROVE  new[i] = s.snapshot[i]
    <3>1. ev[k].item # i /\ \A m \in Done(r) : ev[m].item # i
      BY <1>2, <2>3
    <3> QED
      BY <2>0, <3>1 DEF Content
  <2> QED
    BY <2>1, <2>2, <2>3
<1> QED
  BY <1>4 DEF Progress, ev

\* Everything replayed.
LEMMA ProgressEnd ==
  ASSUME NEW r \in Request, r.todo = {}, NEW dir \in Content, Progress(r, dir)
  PROVE  dir = Effective(r.snapshot, r.events)
<1>1. r.events \in Log /\ r.snapshot \in Content
  BY DEF Request
<1>2. Done(r) = DOMAIN r.events
  BY DEF Done
<1>3. ASSUME NEW i \in Items
      PROVE  dir[i] = Effective(r.snapshot, r.events)[i]
  <2>1. CASE \E k \in DOMAIN r.events : IsLast(r.events, i, k)
    <3>1. PICK k \in DOMAIN r.events : IsLast(r.events, i, k)
      BY <2>1
    <3>2. dir[i] = r.events[k].version
      BY <1>2, <3>1 DEF Progress, IsLast
    <3> QED
      BY <1>1, <3>1, <3>2, LastDecides
  <2>2. CASE ~\E k \in DOMAIN r.events : IsLast(r.events, i, k)
    <3>1. \A k \in DOMAIN r.events : r.events[k].item # i
      BY <1>1, <2>2, LastExists
    <3>2. dir[i] = r.snapshot[i]
      BY <1>2, <3>1 DEF Progress
    <3> QED
      BY <1>1, <2>2, <3>2, NoneDecides
  <2> QED
    BY <2>1, <2>2
<1>4. Effective(r.snapshot, r.events) \in Content
  BY <1>1, EffectiveType
<1> QED
  BY <1>3, <1>4 DEF Content

-----------------------------------------------------------------------------
(* The invariant *)

\* Only DeployService reaches the steps of the rebuild.
LEMMA RebuildActions ==
  ASSUME TypeOK, NEW h \in Handlers, Begin(h) \/ Work(h), pc'[h] \in RebuildSteps
  PROVE  \/ LoadBaseline(h) \/ Reset(h) \/ CopySnapshot(h) \/ Up(h)
         \/ LoadReplay(h) \/ ReplayEvent(h) \/ Repack(h) \/ Reinstall(h)
<1> USE DEF TypeOK, Goto, Return, RebuildSteps, ReplaySteps
<1>1. CASE Begin(h)
  BY <1>1 DEF Begin, FirstStep
<1>2. CASE \/ ReadBaseline(h) \/ ReadEffective(h) \/ Backup(h) \/ StagePackage(h)
           \/ PackPlugin(h) \/ InstallPlugin(h) \/ LoadLog(h) \/ SaveLog(h)
  BY <1>2 DEF ReadBaseline, ReadEffective, Backup, StagePackage, PackPlugin,
              InstallPlugin, LoadLog, SaveLog
<1>3. CASE \/ Capture(h) \/ LoadPrevious(h) \/ ReadSkills(h) \/ ReadPlugins(h)
           \/ SaveCheckpoint(h) \/ ClearLog(h)
  BY <1>3 DEF Capture, LoadPrevious, ReadSkills, ReadPlugins, SaveCheckpoint, ClearLog
<1>4. CASE RecordDeploy(h)
  BY <1>4 DEF RecordDeploy, DeployFailed
<1>5. CASE AppendRecord(h) \/ UndoCheckpoint(h) \/ UndoLog(h) \/ Unwind(h)
  BY <1>5 DEF AppendRecord, UndoCheckpoint, UndoLog, Unwind
<1> QED
  BY <1>1, <1>2, <1>3, <1>4, <1>5 DEF Work

\* One event replayed.
LEMMA EventReplayed ==
  ASSUME DeployInv, NEW h \in Handlers, Rebuilding(h), pc[h] \in ReplaySteps,
         NEW k \in req[h].todo, NextToReplay(req[h].events, req[h].todo, k),
         req' = [req EXCEPT ![h].todo = @ \ {k}], pc'[h] = "replay",
         component' = [component EXCEPT ![req[h].events[k].item] = req[h].events[k].version],
         UNCHANGED <<checkpoint, log>>
  PROVE  Rebuilding(h)'
<1>0. /\ TodoInEvents
      /\ req[h] \in Request /\ component \in Content
      /\ req \in [Handlers -> Request]
  BY DEF DeployInv, TypeOK
<1>6. /\ req'[h].events = req[h].events /\ req'[h].todo = req[h].todo \ {k}
      /\ req'[h].snapshot = req[h].snapshot
  BY <1>0 DEF Request
<1>7. Progress(req[h], component) /\ req[h].events = log /\ req[h].snapshot = checkpoint.snapshot
  BY DEF Rebuilding, RebuildSteps
<1>8. req[h].todo \subseteq DOMAIN req[h].events
  BY <1>0 DEF TodoInEvents
<1>9. Progress(req'[h], component')
  <2> DEFINE s == req'[h]
  <2>1. s.events = req[h].events /\ s.todo = req[h].todo \ {k} /\ s.snapshot = req[h].snapshot
    BY <1>6
  <2> HIDE DEF s
  <2>2. Progress(s, [component EXCEPT ![req[h].events[k].item] = req[h].events[k].version])
    BY <1>0, <1>7, <1>8, <2>1, ProgressStep
  <2> QED
    BY <2>2 DEF s
<1> QED
  BY <1>6, <1>7, <1>9 DEF Rebuilding, ReplaySteps, RebuildSteps

\* A step of the replay loop that touches neither the events nor the directory.
LEMMA PackingKept ==
  ASSUME NEW h \in Handlers, Rebuilding(h), pc[h] \in ReplaySteps, pc'[h] \in ReplaySteps,
         UNCHANGED <<req, checkpoint, log, component>>
  PROVE  Rebuilding(h)'
  BY DEF Rebuilding, ReplaySteps, RebuildSteps, Progress, Done

LEMMA ReplayKept ==
  ASSUME DeployInv, NEW h \in Handlers, Rebuilding(h), pc'[h] \in RebuildSteps,
         ReplayEvent(h) \/ Repack(h) \/ Reinstall(h)
  PROVE  Rebuilding(h)'
<1>0. /\ TypeOK /\ TodoInEvents
      /\ component \in Content /\ pc \in [Handlers -> Steps]
      /\ req \in [Handlers -> Request]
  BY DEF DeployInv, TypeOK
<1>1. ~DeployFailed(h)
  BY <1>0 DEF DeployFailed, Return, Goto, RebuildSteps, ReplaySteps
<1>2. ASSUME ReplayEvent(h) PROVE Rebuilding(h)'
  <2>1. PICK k \in req[h].todo :
           /\ NextToReplay(req[h].events, req[h].todo, k)
           /\ ReplaySkill(h, k) \/ ReplayPlugin(h, k) \/ ReplayRemove(h, k)
    BY <1>2 DEF ReplayEvent
  <2> DEFINE e == req[h].events[k]
  <2>2. pc[h] = "replay" /\ pc[h] \in ReplaySteps /\ UNCHANGED <<checkpoint, log>>
    BY <1>2 DEF ReplayEvent, At, ReplaySteps
  <2>3. e \in Event
    BY <1>0, ReplayedEvent
  <2>4. \/ Replayed(h, k) /\ component' = [component EXCEPT ![e.item] = e.version]
        \/ Repacking(h) /\ UNCHANGED component
    <3>1. CASE ReplaySkill(h, k)
      BY <1>1, <3>1 DEF ReplaySkill
    <3>2. CASE ReplayRemove(h, k)
      <4>1. e.version = None
        BY <2>3, <3>2, EventFields DEF ReplayRemove
      <4> QED
        BY <1>1, <3>2, <4>1 DEF ReplayRemove
    <3>3. CASE ReplayPlugin(h, k)
      <4>1. component[e.item] = e.version
               => component = [component EXCEPT ![e.item] = e.version]
        BY <1>0 DEF Content
      <4> QED
        BY <1>1, <3>3, <4>1 DEF ReplayPlugin, Repacking
    <3> QED
      BY <2>1, <3>1, <3>2, <3>3
  <2>5. CASE Replayed(h, k) /\ component' = [component EXCEPT ![e.item] = e.version]
    <3>1. req' = [req EXCEPT ![h].todo = @ \ {k}] /\ pc'[h] = "replay"
      BY <2>2, <2>5 DEF Replayed
    <3> QED
      BY <2>1, <2>2, <2>5, <3>1, EventReplayed
  <2>6. CASE Repacking(h) /\ UNCHANGED component
    <3>1. pc'[h] \in ReplaySteps /\ UNCHANGED req
      BY <1>0, <2>6 DEF Repacking, Goto, ReplaySteps
    <3> QED
      BY <2>2, <2>6, <3>1, PackingKept
  <2> QED
    BY <2>4, <2>5, <2>6
<1>3. ASSUME Repack(h) PROVE Rebuilding(h)'
  <2>1. Repacking(h) /\ pc[h] \in ReplaySteps /\ UNCHANGED <<checkpoint, log, component>>
    BY <1>1, <1>3, RepackContinues DEF ReplaySteps
  <2>2. pc'[h] \in ReplaySteps /\ UNCHANGED req
    BY <1>0, <2>1 DEF Repacking, Goto, ReplaySteps
  <2> QED
    BY <2>1, <2>2, PackingKept
<1>4. ASSUME Reinstall(h) PROVE Rebuilding(h)'
  <2>1. PICK k \in req[h].todo :
           NextToReplay(req[h].events, req[h].todo, k) /\ ReinstallPlugin(h, k)
    BY <1>4 DEF Reinstall
  <2>2. pc[h] \in ReplaySteps /\ UNCHANGED <<checkpoint, log>>
    BY <1>4, ReinstallContinues DEF ReplaySteps
  <2>3. /\ req' = [req EXCEPT ![h].todo = @ \ {k}] /\ Goto(h, "replay")
        /\ component' = [component EXCEPT ![req[h].events[k].item] = req[h].events[k].version]
    BY <1>1, <2>1 DEF ReinstallPlugin
  <2>4. pc'[h] = "replay"
    BY <1>0, <2>3 DEF Goto
  <2> QED
    BY <2>1, <2>2, <2>3, <2>4, EventReplayed
<1> QED
  BY <1>2, <1>3, <1>4

\* A step of DeployService establishes what the next one needs.
LEMMA StepKept ==
  ASSUME DeployInv, NEW h \in Handlers, Rebuilding(h), Begin(h) \/ Work(h)
  PROVE  Rebuilding(h)'
<1>0. /\ TypeOK /\ pc \in [Handlers -> Steps] /\ req \in [Handlers -> Request]
      /\ req[h].snapshot \in Content
  BY DEF DeployInv, TypeOK, Request
<1>1. CASE pc'[h] \notin RebuildSteps
  BY <1>1 DEF Rebuilding, RebuildSteps, ReplaySteps
<1>2. CASE pc'[h] \in RebuildSteps
  <2> USE DEF At, Goto, Rebuilding, RebuildSteps, ReplaySteps, stores
  <2>0. ~DeployFailed(h)
    BY <1>0, <1>2 DEF DeployFailed, Return
  <2>1. CASE LoadBaseline(h)
    <3>1. pc'[h] = "reset" /\ req'[h].snapshot = checkpoint.snapshot /\ UNCHANGED checkpoint
      BY <1>0, <2>1 DEF LoadBaseline, Request
    <3> QED
      BY <3>1
  <2>2. CASE Reset(h)
    BY <1>0, <2>0, <2>2 DEF Reset
  <2>3. CASE CopySnapshot(h)
    <3>1. /\ pc[h] = "copy" /\ pc'[h] = "up" /\ UNCHANGED <<req, checkpoint>>
          /\ component' = Overlay(component, req[h].snapshot, Items)
      BY <1>0, <2>0, <2>3 DEF CopySnapshot
    <3>2. component' = req[h].snapshot
      BY <1>0, <3>1, CopyIntoEmpty
    <3> QED
      BY <3>1, <3>2
  <2>4. CASE Up(h)
    BY <1>0, <2>0, <2>4 DEF Up
  <2>5. CASE LoadReplay(h)
    <3>1. /\ pc[h] = "load_replay" /\ pc'[h] = "replay" /\ UNCHANGED <<checkpoint, log, component>>
          /\ req'[h].snapshot = req[h].snapshot
          /\ req'[h].events = log /\ req'[h].todo = DOMAIN log
      BY <1>0, <2>5 DEF LoadReplay, Request
    <3>2. Progress(req'[h], req'[h].snapshot)
      <4> DEFINE r == req'[h]
      <4>1. r.todo = DOMAIN r.events
        BY <3>1
      <4> HIDE DEF r
      <4>2. Progress(r, r.snapshot)
        BY <4>1, ProgressStart
      <4> QED
        BY <4>2 DEF r
    <3>3. component' = req'[h].snapshot
      BY <3>1
    <3> QED
      BY <3>1, <3>2, <3>3
  <2>6. CASE ReplayEvent(h) \/ Repack(h) \/ Reinstall(h)
    BY <1>2, <2>6, ReplayKept
  <2> QED
    BY <1>0, <1>2, <2>1, <2>2, <2>3, <2>4, <2>5, <2>6, RebuildActions
<1> QED
  BY <1>1, <1>2

\* What a step that is not of the rebuild needs.
LEMMA IdleRebuilds ==
  ASSUME NEW h \in Handlers, pc[h] = "idle"
  PROVE  Rebuilding(h)
  BY DEF Rebuilding, RebuildSteps, ReplaySteps

LEMMA RebuildKept ==
  ASSUME DeployInv, RebuildInv, ~Overlap, [Next]_vars
  PROVE  RebuildInv'
<1>1. TypeOK
  BY DEF DeployInv
<1>2. ASSUME NEW h \in Handlers, Begin(h) \/ Work(h)
      PROVE  RebuildInv'
  <2>1. Single' /\ \A g \in Handlers : g # h => pc'[g] = "idle"
    BY <1>1, <1>2, SingleKept DEF RebuildInv
  <2>2. Rebuilding(h)'
    BY <1>2, StepKept DEF RebuildInv
  <2>3. \A g \in Handlers : g # h => Rebuilding(g)'
    BY <2>1 DEF Rebuilding, RebuildSteps, ReplaySteps
  <2> QED
    BY <2>1, <2>2, <2>3 DEF RebuildInv
<1>3. CASE Crash
  <2>1. \A g \in Handlers : pc'[g] = "idle"
    BY <1>3 DEF Crash
  <2> QED
    BY <2>1 DEF RebuildInv, Single, Rebuilding, RebuildSteps, ReplaySteps
<1>4. CASE UNCHANGED vars
  BY <1>4 DEF vars, RebuildInv, Single, Rebuilding, Progress, Done
<1> QED
  BY <1>2, <1>3, <1>4 DEF Next

LEMMA InitRebuild == Init => RebuildInv
  BY DEF Init, RebuildInv, Single, Rebuilding, RebuildSteps, ReplaySteps

-----------------------------------------------------------------------------
\* When DeployService reports success, the runtime's directory is the log over
\* the snapshot, in the order that defines it, whatever earlier failures or
\* kills had left there.  Requests do not overlap.
THEOREM DeployRebuilds ==
  ASSUME ~Overlap
  PROVE  Spec => DeploySucceedsRebuilt
<1> DEFINE Rebuilt == \A id \in RequestIds :
              <<id, "deployed">> \in history' \ history => component' = RebuiltState
<1>1. ASSUME DeployInv, RebuildInv, Next
      PROVE  Rebuilt
  <2>1. SUFFICES ASSUME NEW id \in RequestIds, <<id, "deployed">> \in history' \ history
                 PROVE  component' = RebuiltState
    OBVIOUS
  <2>2. PICK h \in Handlers : Begin(h) \/ Work(h)
    BY <1>1, <2>1 DEF Next, Crash, stores
  <2>3. RecordDeploy(h)
    <3>1. ~(UNCHANGED history) /\ ~AppendRecord(h)
      BY <2>1 DEF AppendRecord
    <3> QED
      BY <2>2, <3>1, HistoryWriters
  <2>4. pc[h] = "replay" /\ req[h].todo = {} /\ UNCHANGED component
    BY <2>3 DEF RecordDeploy, At
  <2>5. /\ req[h].snapshot = checkpoint.snapshot /\ req[h].events = log
        /\ Progress(req[h], component)
    BY <1>1, <2>4 DEF RebuildInv, Rebuilding, RebuildSteps, ReplaySteps
  <2>6. req[h] \in Request /\ component \in Content
    BY <1>1 DEF DeployInv, TypeOK
  <2>7. component = Effective(req[h].snapshot, req[h].events)
    BY <2>4, <2>5, <2>6, ProgressEnd
  <2> QED
    BY <2>4, <2>5, <2>7 DEF RebuiltState
<1>2. DeployInv /\ RebuildInv /\ [Next]_vars => RebuildInv'
  BY RebuildKept
<1>3. DeployInv /\ RebuildInv /\ [Next]_vars => [Rebuilt]_history
  BY <1>1 DEF vars
<1>4. Spec => []RebuildInv
  BY InitRebuild, RuntimeInvariant, <1>2, PTL DEF Spec
<1> QED
  BY RuntimeInvariant, <1>3, <1>4, PTL DEF Spec, DeploySucceedsRebuilt

=============================================================================
