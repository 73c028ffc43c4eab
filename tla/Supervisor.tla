----------------------------- MODULE Supervisor -----------------------------
(***************************************************************************)
(* `sera serve --supervised`: Supervisor.run (sera/rpc/supervisor.py)      *)
(* spawns a sidecar, respawns it with exponential backoff, opens a circuit *)
(* breaker after a storm of restarts, and stops it on a signal.            *)
(*                                                                         *)
(* The signal handler runs on the thread of run(), between any two of its  *)
(* steps, and run() waits for it.  Time is counted in ticks: the restart   *)
(* times are kept as ages, the sleep as what is left of it.  sleep() may   *)
(* take longer than asked, which covers the jitter of delay_for.           *)
(***************************************************************************)
EXTENDS Sidecar

CONSTANTS
  BackoffMax,  \* backoff_max_s; base 1, factor 2
  Threshold,   \* storm_threshold
  Window,      \* storm_window_s
  MaxPower     \* largest exponent of backoff_factor that is a float: 1023

ASSUME PolicyAssumption == /\ BackoffMax \in Nat \ {0} /\ Threshold \in Nat \ {0}
                           /\ Window \in Nat /\ MaxPower \in Nat

VARIABLES
  pc,        \* where run() is
  state,     \* SupervisorState
  child,     \* the live or unreaped child of _child, 0 when none or reaped
  spawned,   \* the process Popen started, before it is assigned to _child
  failures,  \* _consecutive_failures: mark_healthy has no caller
  ages,      \* the ages of _restart_times, oldest first
  left,      \* what is left of the sleep
  stopping,  \* _stop_requested, and the handler: "no", "waiting", "yes"
  recent,    \* history: the ages of all restarts not older than Window
  signalAt   \* history: where run() was when the signal came

superVars == <<pc, state, child, spawned, failures, ages, left, stopping, recent, signalAt>>
vars == <<sidecarVars, superVars>>

\* RestartPolicy.delay_for without the jitter.
DelayFor(n) == IF 2 ^ (n - 1) < BackoffMax THEN 2 ^ (n - 1) ELSE BackoffMax

Init ==
  /\ SidecarInit
  /\ pc = "start"
  /\ state = "stopped"
  /\ child = 0
  /\ spawned = 0
  /\ failures = 0
  /\ ages = <<>>
  /\ left = 0
  /\ stopping = "no"
  /\ recent = <<>>
  /\ signalAt = "none"

\* run() moves only while no handler runs on its thread.
At(label) == pc = label /\ stopping # "waiting"

Start ==
  /\ At("start")
  /\ pc' = IF stopping = "no" THEN "spawn" ELSE "decide"
  /\ UNCHANGED <<sidecarVars, state, child, spawned, failures, ages, left, stopping, recent, signalAt>>

\* start_once: Popen ...
Spawn ==
  /\ At("spawn")
  /\ \E p \in Pids : Fork(p, ServePort) /\ spawned' = p
  /\ pc' = "assign"
  /\ UNCHANGED <<rivals, state, child, failures, ages, left, stopping, recent, signalAt>>

\* ... then the assignment to _child.
Assign ==
  /\ At("assign")
  /\ child' = spawned
  /\ spawned' = 0
  /\ state' = "running"
  /\ pc' = "decide"
  /\ UNCHANGED <<sidecarVars, failures, ages, left, stopping, recent, signalAt>>

(* (mutant) the child is never polled. *)
ChildAliveUnpolled == child # 0

ChildAlive == child # 0 /\ stage[child] # "zombie"

(* (mutant) a dead child is dropped without a wait. *)
PollUnreaped == UNCHANGED stage /\ child' = IF ChildAlive THEN child ELSE 0

\* poll(): a dead child is reaped.
Poll ==
  IF ChildAlive \/ child = 0
  THEN UNCHANGED <<stage, child>>
  ELSE stage' = [stage EXCEPT ![child] = "free"] /\ child' = 0

(* (mutant) one restart too many is let through. *)
StormTrippedLate == Len(ages) > Threshold

\* _storm_tripped: the deque is pruned only when a restart is recorded.
StormTripped == Len(ages) >= Threshold

Keep ==
  /\ At("decide") /\ stopping = "no" /\ ChildAlive
  /\ state' = "running"
  /\ UNCHANGED <<sidecarVars, pc, child, spawned, failures, ages, left, stopping, recent, signalAt>>

(* (mutant) a stop waits in the loop for the child to be dead. *)
BreakWhenDead ==
  /\ At("decide") /\ ~ChildAlive
  /\ \/ stopping = "yes" /\ state' = "stopped" /\ UNCHANGED <<stage, child>>
     \/ stopping = "no" /\ StormTripped /\ state' = "circuit_open" /\ Poll
  /\ pc' = "returned"
  /\ UNCHANGED <<port, pidFile, term, crashes, rivals, overlap,
                 spawned, failures, ages, left, stopping, recent, signalAt>>

Break ==
  /\ At("decide")
  /\ \/ stopping = "yes" /\ state' = "stopped" /\ UNCHANGED <<stage, child>>
     \/ stopping = "no" /\ ~ChildAlive /\ StormTripped /\ state' = "circuit_open" /\ Poll
  /\ pc' = "returned"
  /\ UNCHANGED <<port, pidFile, term, crashes, rivals, overlap,
                 spawned, failures, ages, left, stopping, recent, signalAt>>

\* delay_for raises OverflowError: the power is taken before the maximum.
Overflow ==
  /\ At("decide") /\ stopping = "no" /\ ~ChildAlive /\ ~StormTripped
  /\ failures > MaxPower
  /\ Poll
  /\ pc' = "raised"
  /\ UNCHANGED <<port, pidFile, term, crashes, rivals, overlap,
                 state, spawned, failures, ages, left, stopping, recent, signalAt>>

Backoff ==
  /\ At("decide") /\ stopping = "no" /\ ~ChildAlive /\ ~StormTripped
  /\ failures <= MaxPower
  /\ Poll
  /\ state' = "backoff"
  /\ failures' = failures + 1
  /\ left' = DelayFor(failures + 1)
  /\ pc' = "sleep"
  /\ UNCHANGED <<port, pidFile, term, crashes, rivals, overlap,
                 spawned, ages, stopping, recent, signalAt>>

\* _record_restart: append, then pop from the left what is older than the
\* window, up to the first that is not.
Fresh(seq) ==
  LET first == CHOOSE i \in 1 .. Len(seq) + 1 :
                 /\ i <= Len(seq) => seq[i] <= Window
                 /\ \A j \in 1 .. i - 1 : seq[j] > Window
  IN SubSeq(seq, first, Len(seq))

Wake ==
  /\ At("sleep") /\ left = 0
  /\ IF stopping = "yes"
     THEN pc' = "returned" /\ state' = "stopped" /\ UNCHANGED <<ages, recent>>
     ELSE /\ pc' = "spawn"
          /\ ages' = Fresh(Append(ages, 0))
          /\ recent' = Append(recent, 0)
          /\ UNCHANGED state
  /\ UNCHANGED <<sidecarVars, child, spawned, failures, left, stopping, signalAt>>

\* SIGTERM or SIGINT: the handler calls stop().
Signal ==
  /\ stopping = "no" /\ pc \notin {"returned", "raised"}
  /\ signalAt' = pc
  /\ IF ChildAlive
     THEN stopping' = "waiting" /\ term' = term \union {child} /\ UNCHANGED <<stage, child, state>>
     ELSE stopping' = "yes" /\ state' = "stopped" /\ Poll /\ UNCHANGED term
  /\ UNCHANGED <<port, pidFile, crashes, rivals, overlap,
                 pc, spawned, failures, ages, left, recent>>

(* (mutant) stop() does not wait for the child. *)
ChildStopsUnwaited ==
  /\ stopping = "waiting"
  /\ stopping' = "yes" /\ state' = "stopped"
  /\ UNCHANGED <<stage, child>>
  /\ UNCHANGED <<port, pidFile, term, crashes, rivals, overlap,
                 pc, spawned, failures, ages, left, recent, signalAt>>

\* child.wait() returns ...
ChildStops ==
  /\ stopping = "waiting" /\ ~ChildAlive
  /\ stopping' = "yes" /\ state' = "stopped"
  /\ Poll
  /\ UNCHANGED <<port, pidFile, term, crashes, rivals, overlap,
                 pc, spawned, failures, ages, left, recent, signalAt>>

\* ... or times out, and the child is killed without another wait.
KillChild ==
  /\ stopping = "waiting" /\ ChildAlive
  /\ stopping' = "yes" /\ state' = "stopped"
  /\ stage' = [stage EXCEPT ![child] = "zombie"]
  /\ term' = term \ {child}
  /\ UNCHANGED <<port, pidFile, crashes, rivals, overlap,
                 pc, child, spawned, failures, ages, left, recent, signalAt>>

\* Ages above Window are all alike.
Older(seq) == [i \in DOMAIN seq |-> IF seq[i] > Window THEN seq[i] ELSE seq[i] + 1]

Tick ==
  /\ ages' = Older(ages)
  /\ recent' = Fresh(Older(recent))
  /\ left' = IF left > 0 THEN left - 1 ELSE 0
  /\ UNCHANGED <<sidecarVars, pc, state, child, spawned, failures, stopping, signalAt>>

RunStep == Start \/ Spawn \/ Assign \/ Keep \/ Break \/ Overflow \/ Backoff \/ Wake
Handler == ChildStops \/ KillChild

Next ==
  \/ RunStep \/ Handler \/ Signal \/ Tick
  \/ \E p \in Pids : /\ Progress(p) \/ Crash(p) \/ StartRival(p) \/ StopRival(p)
                     /\ UNCHANGED superVars

(***************************************************************************)
(* The system runs every process that can run, and time passes.            *)
(***************************************************************************)
Fairness == /\ WF_vars(RunStep) /\ WF_vars(Handler) /\ WF_vars(Tick)
            /\ \A p \in Pids : WF_vars(Progress(p) /\ UNCHANGED superVars)

Spec == Init /\ [][Next]_vars /\ Fairness

-----------------------------------------------------------------------------
ProcessTypes ==
  /\ stage \in [Pids -> Stages] /\ port \in [Pids -> Ports]
  /\ pidFile \in Pids \union {0} /\ term \subseteq Pids /\ rivals \subseteq Pids
  /\ overlap \in {"no", "yes"}

LoopTypes ==
  /\ pc \in {"start", "spawn", "assign", "decide", "sleep", "returned", "raised"}
  /\ state \in {"stopped", "running", "backoff", "circuit_open"}
  /\ child \in Pids \union {0} /\ spawned \in Pids \union {0}
  /\ stopping \in {"no", "waiting", "yes"}
  /\ signalAt \in {"none", "start", "spawn", "assign", "decide", "sleep"}

TypeOK ==
  /\ ProcessTypes /\ LoopTypes
  /\ crashes \in 0 .. MaxCrashes /\ failures \in Nat /\ left \in Nat
  /\ ages \in Seq(Nat) /\ recent \in Seq(Nat)

\* The processes the supervisor started and has not reaped.
Children == {p \in Pids : stage[p] # "free" /\ p \notin rivals}

(***************************************************************************)
(* Crash-only restart (supervisor.py:14): there is never a second child,   *)
(* alive or a zombie, whatever crashes, refuses to boot or is signalled.   *)
(***************************************************************************)
OneChild == \A p, q \in Children : p = q

(***************************************************************************)
(* supervisor.py:315 "the child is terminated before the supervisor        *)
(* exits": it can stay alive only when the signal came while a child was   *)
(* being spawned.                                                          *)
(***************************************************************************)
OrphanOnlyFromSpawn ==
  pc = "returned" /\ ChildAlive => signalAt \in {"spawn", "assign"}

(***************************************************************************)
(* The supervisor has one child at most and takes it along when it ends,   *)
(* but for a signal during a spawn (supervisor.py:14 and 315).             *)
(***************************************************************************)
ChildIsLookedAfter == OneChild /\ OrphanOnlyFromSpawn

(***************************************************************************)
(* supervisor.py:18 "stop burning CPU": no window of Window ticks holds    *)
(* more than Threshold restarts.                                           *)
(***************************************************************************)
RestartsAreRateLimited == Len(recent) <= Threshold

(***************************************************************************)
(* server.py:67 "single-instance guarantee", as far as it goes: two        *)
(* sidecars serve at once only if their boots overlapped, on any ports,    *)
(* whatever crashes and whatever pid is given out again.                   *)
(***************************************************************************)
SingleInstanceWithoutOverlap == overlap = "no" => \A p, q \in Serving : p = q

(***************************************************************************)
(* A stop request ends run(), from the middle of a backoff or a boot too.  *)
(***************************************************************************)
StopReturns == stopping # "no" ~> pc = "returned"

(***************************************************************************)
(* supervisor.py:10 "start is the only recovery path": a child that died   *)
(* is followed by a serving one, or the supervisor ends.                   *)
(***************************************************************************)
Recovers == (child = 0 \/ stage[child] = "zombie") ~> (child \in Serving \/ pc \in {"returned", "raised"})

(***************************************************************************)
(* The loop neither hangs on a stop nor leaves a dead child unreplaced.    *)
(***************************************************************************)
SupervisionGoesOn == StopReturns /\ Recovers
=============================================================================
