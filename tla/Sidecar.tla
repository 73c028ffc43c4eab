------------------------------- MODULE Sidecar -------------------------------
(***************************************************************************)
(* Operating-system processes that run `sera serve` (sera/rpc/server.py):  *)
(* the PID-file lock of boot_sidecar, the port the HTTP API binds, and the *)
(* shutdown on SIGTERM.  A process is named by its pid, which the system   *)
(* gives out again once the process is gone (and, a supervised child,      *)
(* reaped).  Every step is what happens between two file-system or socket  *)
(* calls.                                                                  *)
(***************************************************************************)
EXTENDS Integers, Sequences, FiniteSets

CONSTANTS Pids,       \* process ids
          Ports,      \* ports `sera serve --port` is run with
          ServePort,  \* the port of the supervised sidecar
          MaxCrashes  \* bound: processes that die on their own

ASSUME PidsAssumption == Pids \subseteq Nat \ {0}
ASSUME PortsAssumption == ServePort \in Ports
ASSUME CrashesAssumption == MaxCrashes \in Nat

VARIABLES
  stage,    \* stage[p]: where process p is in boot_sidecar and run_server
  port,     \* port[p]: the port p was told to use
  pidFile,  \* the pid in sidecar.pid, 0 when there is no file
  term,     \* processes with a SIGTERM on the way
  crashes,  \* processes that died on their own
  rivals,   \* history: live processes the supervisor did not start
  overlap   \* history: two processes were before the write of the lock at once

sidecarVars == <<stage, port, pidFile, term, crashes, rivals, overlap>>

Booting == {"check", "write", "bind"}
Stages == Booting \union {"free", "serve", "closing", "unlink", "zombie"}

\* os.kill(pid, 0) finds a process, a zombie included.
PidAlive(p) == stage[p] # "free"
Serving == {p \in Pids : stage[p] \in {"serve", "closing"}}

SidecarInit ==
  /\ stage = [p \in Pids |-> "free"]
  /\ port = [p \in Pids |-> ServePort]
  /\ pidFile = 0
  /\ term = {}
  /\ crashes = 0
  /\ rivals = {}
  /\ overlap = "no"

\* The system starts `sera serve --port n` as process p.
Fork(p, n) ==
  /\ stage[p] = "free"
  /\ stage' = [stage EXCEPT ![p] = "check"]
  /\ port' = [port EXCEPT ![p] = n]
  /\ overlap' = IF \E q \in Pids : stage[q] \in {"check", "write"} THEN "yes" ELSE overlap
  /\ UNCHANGED <<pidFile, term, crashes>>

\* A user, or another supervisor, starts a second sidecar.
StartRival(p) ==
  /\ rivals = {}
  /\ rivals' = {p}
  /\ \E n \in Ports : Fork(p, n)

\* p is gone.  A child of the supervisor stays a zombie until it is polled.
Gone(p) ==
  /\ stage' = [stage EXCEPT ![p] = IF p \in rivals THEN "free" ELSE "zombie"]
  /\ rivals' = rivals \ {p}
  /\ term' = term \ {p}

MoveTo(p, s) == stage' = [stage EXCEPT ![p] = s] /\ UNCHANGED <<rivals, term>>

(* (mutant) a lock whose process is alive is reclaimed too. *)
CheckLockNever(p) ==
  /\ stage[p] = "check"
  /\ MoveTo(p, "write")
  /\ UNCHANGED <<port, pidFile, crashes, overlap>>

\* acquire_pid_lock up to the decision: AlreadyRunning, or go on.
CheckLock(p) ==
  /\ stage[p] = "check"
  /\ IF pidFile \notin {0, p} /\ PidAlive(pidFile) THEN Gone(p) ELSE MoveTo(p, "write")
  /\ UNCHANGED <<port, pidFile, crashes, overlap>>

WriteLock(p) ==
  /\ stage[p] = "write"
  /\ pidFile' = p
  /\ MoveTo(p, "bind")
  /\ UNCHANGED <<port, crashes, overlap>>

\* api.start(): the port is free, or boot_sidecar raises and the file stays.
Bind(p) ==
  /\ stage[p] = "bind"
  /\ IF \E q \in Serving : port[q] = port[p] THEN Gone(p) ELSE MoveTo(p, "serve")
  /\ UNCHANGED <<port, pidFile, crashes, overlap>>

\* SIGTERM: run_server's handler once it serves, the default before.
Terminated(p) ==
  /\ p \in term
  /\ \/ stage[p] \in Booting /\ Gone(p)
     \/ /\ stage[p] = "serve"
        /\ stage' = [stage EXCEPT ![p] = "closing"]
        /\ term' = term \ {p}
        /\ UNCHANGED rivals
  /\ UNCHANGED <<port, pidFile, crashes, overlap>>

\* SidecarHandle.stop: the API stops, then release_pid_lock reads the file ...
Close(p) ==
  /\ stage[p] = "closing"
  /\ IF pidFile = p THEN MoveTo(p, "unlink") ELSE Gone(p)
  /\ UNCHANGED <<port, pidFile, crashes, overlap>>

\* ... and removes it.
Unlink(p) ==
  /\ stage[p] = "unlink"
  /\ pidFile' = 0
  /\ Gone(p)
  /\ UNCHANGED <<port, crashes, overlap>>

Crash(p) ==
  /\ crashes < MaxCrashes
  /\ crashes' = crashes + 1
  /\ stage[p] \notin {"free", "zombie"}
  /\ Gone(p)
  /\ UNCHANGED <<port, pidFile, overlap>>

\* The user stops the rival.
StopRival(p) ==
  /\ p \in rivals
  /\ term' = term \union {p}
  /\ UNCHANGED <<stage, port, pidFile, crashes, rivals, overlap>>

Progress(p) == CheckLock(p) \/ WriteLock(p) \/ Bind(p) \/ Terminated(p) \/ Close(p) \/ Unlink(p)
=============================================================================
