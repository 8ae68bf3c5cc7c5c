---------------------------- MODULE ToolsServer ----------------------------
(***************************************************************************)
(* `moltbox tools serve` of the first MoltBox CLI (service.py, http_app.py,*)
(* runtime_state.py, health.py): the process, its pid file and its state   *)
(* file, and the health answer made from them.                             *)
(*                                                                         *)
(* A server checks that the port is free, writes both files, starts up,    *)
(* says it is ready and only then listens.  uvicorn is modelled from how   *)
(* service.py uses it: a port that cannot be bound ends the server through *)
(* its shutdown and an application that fails to start ends it at once,    *)
(* neither through the exception service.py catches.                       *)
(***************************************************************************)
EXTENDS Integers

CONSTANTS
    Pids,          \* process identifiers, used again after a process is gone
    MaxServes,     \* bound: servers started
    MaxKills       \* bound: servers killed

VARIABLES
    pc,            \* the step each process is about to take
    pidfile,       \* the pid recorded, or NoPid
    state,         \* serve_state of the state file
    served, kills, \* how much of each bound is used up
    alongside,     \* history: a server was started while one was running
    reused         \* history: a server got the pid a killed one had recorded

vars == <<pc, pidfile, state, served, kills, alongside, reused>>

NoPid == 0

Steps == {"gone", "check", "write_pid", "write_starting", "startup", "bind",
          "serving", "stopped", "clear", "failed", "clear_failed"}

States == {"none", "starting", "ready", "stopped", "failed"}

Running == {p \in Pids : pc[p] # "gone"}
Listening == {p \in Pids : pc[p] = "serving"}

-----------------------------------------------------------------------------

Goto(p, step) == pc' = [pc EXCEPT ![p] = step]

Start(p) ==
    /\ pc[p] = "gone" /\ served < MaxServes
    /\ served' = served + 1
    /\ alongside' = (alongside \/ Running # {})
    /\ reused' = (reused \/ pidfile = p)
    /\ Goto(p, "check")
    /\ UNCHANGED <<pidfile, state, kills>>

\* A port that is taken ends the command before it has written anything.
Check(p) ==
    /\ pc[p] = "check"
    /\ Goto(p, IF Listening = {} THEN "write_pid" ELSE "gone")
    /\ UNCHANGED <<pidfile, state, served, kills, alongside, reused>>

\* Mutant: a pid file that is there is left.
WritePidOnce(p) ==
    /\ pc[p] = "write_pid"
    /\ pidfile' = IF pidfile = NoPid THEN p ELSE pidfile
    /\ Goto(p, "write_starting")
    /\ UNCHANGED <<state, served, kills, alongside, reused>>

WritePid(p) ==
    /\ pc[p] = "write_pid"
    /\ pidfile' = p
    /\ Goto(p, "write_starting")
    /\ UNCHANGED <<state, served, kills, alongside, reused>>

WriteStarting(p) ==
    /\ pc[p] = "write_starting"
    /\ state' = "starting"
    /\ Goto(p, "startup")
    /\ UNCHANGED <<pidfile, served, kills, alongside, reused>>

\* The application starts; or cannot be made or started, which ends the process
\* with both files as they are; or uvicorn raises what service.py catches.
Startup(p) ==
    /\ pc[p] = "startup"
    /\ \/ state' = "ready" /\ Goto(p, "bind")
       \/ UNCHANGED state /\ Goto(p, "gone")
       \/ UNCHANGED state /\ Goto(p, "failed")
    /\ UNCHANGED <<pidfile, served, kills, alongside, reused>>

\* Another server may have bound the port since it was checked.
Bind(p) ==
    /\ pc[p] = "bind"
    /\ Goto(p, IF Listening = {} THEN "serving" ELSE "stopped")
    /\ UNCHANGED <<pidfile, state, served, kills, alongside, reused>>

\* It is told to stop.
Stop(p) ==
    /\ pc[p] = "serving"
    /\ Goto(p, "stopped")
    /\ UNCHANGED <<pidfile, state, served, kills, alongside, reused>>

WriteStopped(p) ==
    /\ pc[p] = "stopped"
    /\ state' = "stopped"
    /\ Goto(p, "clear")
    /\ UNCHANGED <<pidfile, served, kills, alongside, reused>>

WriteFailed(p) ==
    /\ pc[p] = "failed"
    /\ state' = "failed"
    /\ Goto(p, "clear_failed")
    /\ UNCHANGED <<pidfile, served, kills, alongside, reused>>

\* The pid file is removed, whoever wrote it.
ClearPid(p) ==
    /\ pc[p] \in {"clear", "clear_failed"}
    /\ pidfile' = NoPid
    /\ Goto(p, "gone")
    /\ UNCHANGED <<state, served, kills, alongside, reused>>

Kill(p) ==
    /\ pc[p] # "gone" /\ kills < MaxKills
    /\ kills' = kills + 1
    /\ Goto(p, "gone")
    /\ UNCHANGED <<pidfile, state, served, alongside, reused>>

Init ==
    /\ pc = [p \in Pids |-> "gone"]
    /\ pidfile = NoPid /\ state = "none"
    /\ served = 0 /\ kills = 0
    /\ alongside = FALSE /\ reused = FALSE

Work(p) ==
    \/ Check(p) \/ WritePid(p) \/ WriteStarting(p) \/ Startup(p) \/ Bind(p)
    \/ WriteStopped(p) \/ WriteFailed(p) \/ ClearPid(p)

Next == \E p \in Pids : Start(p) \/ Work(p) \/ Stop(p) \/ Kill(p)

Spec == Init /\ [][Next]_vars

-----------------------------------------------------------------------------

\* What the health command makes of the two files.
Health ==
    IF pidfile \in Running
    THEN IF state = "none" THEN "ready" ELSE state
    ELSE "down"

\* The types of the variables; at most one process listens.
ServerTypeOK ==
    /\ pc \in [Pids -> Steps]
    /\ pidfile \in Pids \cup {NoPid} /\ state \in States
    /\ served \in 0..MaxServes /\ kills \in 0..MaxKills
    /\ \A p, q \in Listening : p = q

\* A server that listens is reported ready, if none was started beside it:
\* whatever was killed before it, and with whatever pid.
ServingIsReported == (Listening # {} /\ ~alongside) => Health = "ready"

\* A server that is reported ready is about to listen, listens or is told to
\* stop, or has just put its pid beside the state a killed one left; unless it
\* has that one's pid.
ReadyIsAlive ==
    (Health = "ready" /\ ~alongside /\ ~reused) =>
        \E p \in Pids : pc[p] \in {"write_starting", "bind", "serving", "stopped"}

=============================================================================
