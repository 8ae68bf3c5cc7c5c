---------------------------- MODULE RuntimeAudit ----------------------------
(***************************************************************************)
(* RuntimeDeploy with a history variable: the deploy state and the runtime  *)
(* directory as they were when the running request began.  It serves to    *)
(* state what a failed request must leave behind.  Requests do not overlap;  *)
(* the gateway may have been killed before, with half a request done.       *)
(***************************************************************************)
EXTENDS RuntimeDeploy

VARIABLE before

auditVars == <<vars, before>>

Now == [checkpoint |-> checkpoint, log |-> log, component |-> component]

AuditInit == Init /\ before = Now

AuditNext ==
    \/ \E h \in Handlers : Begin(h) /\ before' = Now
    \/ \E h \in Handlers : Work(h) /\ UNCHANGED before
    \/ Crash /\ UNCHANGED before

AuditSpec == AuditInit /\ [][AuditNext]_auditVars

\* A request whose deploy failed puts back exactly the checkpoint and the log
\* it found, also when the deploy fails because of what an earlier failure left in
\* the staged packages.  Store writes do not fail.
FailedDeployRestoresState ==
    [][\A h \in Handlers :
          At(h, "undo_log") /\ pc'[h] # "undo_log" /\ crashes' = crashes
          => checkpoint' = before.checkpoint /\ log' = before.log]_pc

\* A plugin install that ends without a recorded success leaves the runtime's
\* directory as it found it.
UnfinishedInstallRestoresRuntime ==
    [][\A h \in Handlers :
          At(h, "unwind") /\ pc'[h] = "idle" /\ failures' = failures
          /\ crashes' = crashes
          => component' = before.component]_pc
=============================================================================
