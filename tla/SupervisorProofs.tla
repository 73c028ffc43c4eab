-------------------------- MODULE SupervisorProofs --------------------------
(***************************************************************************)
(* Proofs about Supervisor for every policy, every set of pids and ports,  *)
(* and any number of crashes; behind them about what the sidecar leaves at *)
(* night (DreamJournal), for every number of dreams, exports and recorders,*)
(* with the lemmas about folds that those rest on; about the scrubber of   *)
(* what it streams (StreamScrubber), for every text and every way of       *)
(* cutting it into chunks; and about the chunks its memory cuts documents  *)
(* into (Chunker), for every document, limit and overlap.                  *)
(***************************************************************************)
EXTENDS Supervisor, DreamJournal, StreamScrubber, Chunker,
        FiniteSetTheorems, SequenceTheorems, WellFoundedInduction, TLAPS

\* Where run() is says whether there is a child and whose it is.
Handles ==
  /\ Children \subseteq {child, spawned}
  /\ child # 0 => child \in Children
  /\ spawned # 0 => pc = "assign" /\ spawned \in Children
  /\ pc \in {"start", "spawn", "assign", "sleep"} => child = 0
  /\ \A p \in rivals : stage[p] \notin {"free", "zombie"}

\* The signal is handled once, and what it left is what it found.
Signalled ==
  /\ signalAt = "none" <=> stopping = "no"
  /\ stopping = "waiting" => pc = "decide" /\ child # 0
  /\ pc = "returned" /\ stopping = "no" => child = 0
  /\ stopping = "yes" /\ signalAt \notin {"spawn", "assign"} =>
       ~ChildAlive /\ pc \notin {"spawn", "assign"}

Past == {"bind", "serve", "closing", "unlink"}

\* While boots do not overlap, the PID file names whoever is past the lock.
Locked ==
  overlap = "no" =>
    /\ \A p, q \in Pids : stage[p] \in {"check", "write"} /\ stage[q] \in {"check", "write"} => p = q
    /\ \A p \in Pids : stage[p] \in Past => pidFile = p
    /\ \A p, q \in Pids : stage[p] = "write" => stage[q] \notin Past

Types == ProcessTypes /\ LoopTypes
IInv == Types /\ Handles /\ Signalled /\ Locked

LEMMA PidsArePositive == 0 \notin Pids
BY PidsAssumption

LEMMA InitIInv == Init => IInv
BY PidsArePositive, PortsAssumption
DEF Init, SidecarInit, IInv, Types, ProcessTypes, LoopTypes, Handles, Signalled, Locked, Children,
    ChildAlive, Stages, Booting, Past

(***************************************************************************)
(* The steps of the processes.                                             *)
(***************************************************************************)
\* What a process may do to itself, as far as the supervisor can tell.
Moves(p) ==
  /\ UNCHANGED superVars
  /\ stage[p] \notin {"free", "zombie"}
  /\ \/ /\ rivals' = rivals
        /\ \E s \in Stages \ {"free"} : stage' = [stage EXCEPT ![p] = s]
        /\ p \in rivals => stage'[p] # "zombie"
     \/ /\ p \in rivals /\ rivals' = rivals \ {p}
        /\ stage' = [stage EXCEPT ![p] = "free"]

LEMMA ProgressMoves ==
  ASSUME IInv, NEW p \in Pids, Progress(p) \/ Crash(p), UNCHANGED superVars
  PROVE  Moves(p) /\ ProcessTypes'
<1> USE DEF Stages, Booting, MoveTo, Gone, IInv, Types, ProcessTypes, Moves
<1>1. ASSUME CheckLock(p) \/ Bind(p) \/ WriteLock(p) \/ Close(p) \/ Unlink(p)
      PROVE  Moves(p) /\ ProcessTypes'
  BY <1>1 DEF CheckLock, Bind, WriteLock, Close, Unlink
<1>2. CASE Terminated(p)
  BY <1>2 DEF Terminated
<1>3. CASE Crash(p)
  BY <1>3 DEF Crash
<1> QED BY <1>1, <1>2, <1>3 DEF Progress

LEMMA MovesKeepHandles ==
  ASSUME IInv, NEW p \in Pids, Moves(p)
  PROVE  Handles' /\ Signalled'
<1>1. Handles'
  BY DEF Moves, superVars, IInv, Types, ProcessTypes, LoopTypes, Handles, Children
<1>2. ChildAlive' => ChildAlive
  BY DEF Moves, superVars, IInv, Types, ProcessTypes, LoopTypes, ChildAlive
<1>3. Signalled'
  BY <1>2 DEF Moves, superVars, IInv, Signalled
<1> QED BY <1>1, <1>3

LEMMA ProgressKeepsLocked ==
  ASSUME IInv, NEW p \in Pids, Progress(p) \/ Crash(p)
  PROVE  Locked'
<1> USE PidsArePositive DEF Gone, MoveTo, IInv, Types, ProcessTypes, Locked, Past
<1>1. CASE CheckLock(p)
  BY <1>1 DEF CheckLock, PidAlive
<1>2. CASE WriteLock(p)
  BY <1>2 DEF WriteLock
<1>3. CASE Bind(p)
  BY <1>3 DEF Bind
<1>4. CASE Terminated(p)
  BY <1>4 DEF Terminated, Booting
<1>5. CASE Close(p)
  BY <1>5 DEF Close
<1>6. CASE Unlink(p)
  BY <1>6 DEF Unlink
<1>7. CASE Crash(p)
  BY <1>7 DEF Crash
<1> QED BY <1>1, <1>2, <1>3, <1>4, <1>5, <1>6, <1>7 DEF Progress

\* A new process is at the check, and no other one was there if boots do not overlap.
LEMMA ForkKeeps ==
  ASSUME IInv, NEW p \in Pids, NEW n \in Ports, Fork(p, n)
  PROVE  Locked' /\ stage' = [stage EXCEPT ![p] = "check"] /\ stage[p] = "free"
         /\ port' \in [Pids -> Ports] /\ overlap' \in {"no", "yes"}
         /\ UNCHANGED <<pidFile, term>>
BY PidsArePositive DEF Fork, IInv, Types, ProcessTypes, Locked, Past

LEMMA RivalKeeps ==
  ASSUME IInv, NEW p \in Pids, StartRival(p) \/ StopRival(p), UNCHANGED superVars
  PROVE  IInv'
<1>1. CASE StopRival(p)
  BY <1>1 DEF StopRival, superVars, IInv, Types, ProcessTypes, LoopTypes, Handles, Signalled, Locked,
     Children, ChildAlive
<1>2. CASE StartRival(p)
  <2>1. PICK n \in Ports : Fork(p, n) /\ rivals = {} /\ rivals' = {p}
    BY <1>2 DEF StartRival
  <2>2. /\ Locked' /\ stage' = [stage EXCEPT ![p] = "check"] /\ stage[p] = "free"
        /\ port' \in [Pids -> Ports] /\ overlap' \in {"no", "yes"} /\ UNCHANGED <<pidFile, term>>
    BY <2>1, ForkKeeps
  <2>3. Types'
    BY <2>1, <2>2 DEF superVars, IInv, Types, ProcessTypes, LoopTypes, Stages, Booting
  <2>4. Handles'
    BY <2>1, <2>2 DEF superVars, IInv, Types, ProcessTypes, LoopTypes, Handles, Children
  <2>5. child # p
    BY <2>2, PidsArePositive DEF IInv, Handles, Children
  <2>6. Signalled'
    BY <2>2, <2>5 DEF superVars, IInv, Types, ProcessTypes, LoopTypes, Signalled, ChildAlive
  <2> QED BY <2>2, <2>3, <2>4, <2>6 DEF IInv
<1> QED BY <1>1, <1>2

(***************************************************************************)
(* The steps of the supervisor.                                            *)
(***************************************************************************)
\* poll() reaps a dead child: it leaves the stages of all others alone.
LEMMA PollKeeps ==
  ASSUME IInv, Poll, UNCHANGED <<port, pidFile, rivals, overlap>>, term' \subseteq Pids
  PROVE  /\ Locked' /\ ProcessTypes'
         /\ child' \in {child, 0} /\ (~ChildAlive => child' = 0)
         /\ child' # 0 => child' \in Children' /\ stage'[child'] = stage[child]
         /\ Children' \subseteq {child', spawned}
         /\ \A p \in rivals : stage'[p] \notin {"free", "zombie"}
<1>1. CASE ChildAlive \/ child = 0
  BY <1>1 DEF Poll, ChildAlive, IInv, Types, ProcessTypes, Handles, Children, Locked
<1>2. CASE ~ChildAlive /\ child # 0
  <2>1. child \in Pids /\ stage[child] = "zombie" /\ child' = 0
        /\ stage' = [stage EXCEPT ![child] = "free"]
    BY <1>2 DEF Poll, ChildAlive, IInv, Types, LoopTypes
  <2> QED BY <2>1, PidsArePositive
      DEF IInv, Types, ProcessTypes, Handles, Children, Locked, Stages, Past, Booting
<1> QED BY <1>1, <1>2

LEMMA QuietKeeps ==
  ASSUME IInv, Start \/ Keep \/ Wake \/ Tick \/ UNCHANGED vars
  PROVE  IInv'
<1>1. UNCHANGED <<stage, port, pidFile, term, rivals, overlap, child, spawned, stopping, signalAt>>
  BY DEF Start, Keep, Wake, Tick, vars, sidecarVars, superVars
<1>2. /\ pc' = pc \/ pc = "start" \/ pc = "sleep"
      /\ pc = "start" /\ pc' # pc => pc' = IF stopping = "no" THEN "spawn" ELSE "decide"
      /\ pc = "sleep" /\ pc' # pc => pc' = IF stopping = "yes" THEN "returned" ELSE "spawn"
      /\ state' \in {"stopped", "running", "backoff", "circuit_open"}
  BY DEF Start, Keep, Wake, Tick, At, vars, superVars, IInv, Types, LoopTypes
<1>3. Types'
  BY <1>1, <1>2 DEF IInv, Types, ProcessTypes, LoopTypes
<1>4. Handles'
  BY <1>1, <1>2 DEF IInv, Types, LoopTypes, Handles, Children
<1>5. Signalled'
  BY <1>1, <1>2 DEF IInv, Types, LoopTypes, Handles, Signalled, ChildAlive
<1>6. Locked'
  BY <1>1 DEF IInv, Locked
<1> QED BY <1>3, <1>4, <1>5, <1>6 DEF IInv

LEMMA SpawnKeeps ==
  ASSUME IInv, Spawn \/ Assign
  PROVE  IInv'
<1>1. CASE Spawn
  <2>1. PICK p \in Pids : Fork(p, ServePort) /\ spawned' = p
    BY <1>1 DEF Spawn
  <2>2. /\ Locked' /\ stage' = [stage EXCEPT ![p] = "check"] /\ stage[p] = "free"
        /\ port' \in [Pids -> Ports] /\ overlap' \in {"no", "yes"} /\ UNCHANGED <<pidFile, term>>
    BY <2>1, ForkKeeps, PortsAssumption
  <2>3. /\ pc = "spawn" /\ pc' = "assign" /\ UNCHANGED <<rivals, state, child, stopping, signalAt>>
        /\ child = 0 /\ spawned = 0
    BY <1>1 DEF Spawn, At, IInv, Handles
  <2>4. Types'
    BY <2>1, <2>2, <2>3 DEF IInv, Types, ProcessTypes, LoopTypes, Stages, Booting
  <2>5. Handles'
    BY <2>1, <2>2, <2>3 DEF IInv, Types, ProcessTypes, Handles, Children
  <2>6. Signalled'
    BY <2>3 DEF IInv, Signalled, ChildAlive
  <2> QED BY <2>2, <2>4, <2>5, <2>6 DEF IInv
<1>2. CASE Assign
  <2>1. /\ pc = "assign" /\ pc' = "decide" /\ stopping # "waiting" /\ state' = "running"
        /\ child' = spawned /\ spawned' = 0 /\ UNCHANGED <<stopping, signalAt>>
        /\ UNCHANGED <<stage, port, pidFile, term, rivals, overlap>> /\ child = 0
    BY <1>2 DEF Assign, At, sidecarVars, IInv, Handles
  <2>2. Types'
    BY <2>1 DEF IInv, Types, ProcessTypes, LoopTypes
  <2>3. Children' = Children /\ (spawned # 0 => spawned \in Children)
    BY <2>1 DEF IInv, Handles, Children
  <2>4. Handles'
    BY <2>1, <2>3 DEF IInv, Types, LoopTypes, Handles, Children
  <2>5. Signalled'
    BY <2>1 DEF IInv, Types, LoopTypes, Signalled, ChildAlive
  <2>6. Locked'
    BY <2>1 DEF IInv, Locked
  <2> QED BY <2>2, <2>4, <2>5, <2>6 DEF IInv
<1> QED BY <1>1, <1>2

LEMMA DecisionKeeps ==
  ASSUME IInv, Break \/ Overflow \/ Backoff
  PROVE  IInv'
<1>1. /\ UNCHANGED <<port, pidFile, term, rivals, overlap, spawned, stopping, signalAt>>
      /\ pc = "decide" /\ pc' \in {"returned", "raised", "sleep"}
      /\ state' \in {"stopped", "running", "backoff", "circuit_open"}
      /\ \/ stopping = "no" /\ ~ChildAlive /\ Poll
         \/ stopping = "yes" /\ pc' = "returned" /\ UNCHANGED <<stage, child>>
  <2>1. CASE Break
    BY <2>1 DEF Break, At
  <2>2. CASE Overflow
    BY <2>2 DEF Overflow, At, IInv, Types, LoopTypes
  <2>3. CASE Backoff
    BY <2>3 DEF Backoff, At
  <2> QED BY <2>1, <2>2, <2>3
<1>2. spawned = 0
  BY <1>1 DEF IInv, Handles
<1>3. CASE stopping = "no" /\ ~ChildAlive /\ Poll
  <2>1. Locked' /\ ProcessTypes' /\ child' = 0 /\ Children' \subseteq {child', spawned}
        /\ \A p \in rivals : stage'[p] \notin {"free", "zombie"}
    BY <1>1, <1>3, PollKeeps DEF IInv, Types, ProcessTypes
  <2>2. LoopTypes'
    BY <1>1, <2>1 DEF IInv, Types, LoopTypes
  <2>3. Handles'
    BY <1>1, <1>2, <2>1 DEF IInv, Handles
  <2>4. Signalled'
    BY <1>1, <1>3, <2>1 DEF IInv, Signalled
  <2> QED BY <2>1, <2>2, <2>3, <2>4 DEF IInv, Types
<1>4. CASE stopping = "yes" /\ pc' = "returned" /\ UNCHANGED <<stage, child>>
  <2>1. Types' /\ Locked'
    BY <1>1, <1>4 DEF IInv, Types, ProcessTypes, LoopTypes, Locked
  <2>2. Handles'
    BY <1>1, <1>2, <1>4 DEF IInv, Handles, Children
  <2>3. Signalled'
    BY <1>1, <1>4 DEF IInv, Signalled, ChildAlive
  <2> QED BY <2>1, <2>2, <2>3 DEF IInv
<1> QED BY <1>1, <1>3, <1>4

LEMMA StopKeeps ==
  ASSUME IInv, Signal \/ ChildStops \/ KillChild
  PROVE  IInv'
<1>1. CASE Signal /\ ChildAlive
  <2>1. /\ stopping = "no" /\ pc \notin {"returned", "raised"} /\ signalAt' = pc /\ stopping' = "waiting"
        /\ term' = term \union {child} /\ child # 0
        /\ UNCHANGED <<stage, child, state, port, pidFile, rivals, overlap, pc, spawned>>
    BY <1>1 DEF Signal, ChildAlive
  <2>2. pc = "decide"
    BY <2>1 DEF IInv, Types, LoopTypes, Handles, Signalled, Children
  <2>3. Types' /\ Handles' /\ Locked'
    BY <2>1, <2>2 DEF IInv, Types, ProcessTypes, LoopTypes, Handles, Children, Locked
  <2>4. Signalled'
    BY <2>1, <2>2 DEF IInv, Signalled
  <2> QED BY <2>3, <2>4 DEF IInv
<1>2. CASE Signal /\ ~ChildAlive
  <2>1. /\ stopping = "no" /\ pc \notin {"returned", "raised"} /\ signalAt' = pc /\ stopping' = "yes"
        /\ state' = "stopped" /\ Poll
        /\ UNCHANGED <<term, port, pidFile, rivals, overlap, pc, spawned>>
    BY <1>2 DEF Signal
  <2>2. Locked' /\ ProcessTypes' /\ child' = 0 /\ Children' \subseteq {child', spawned}
        /\ \A p \in rivals : stage'[p] \notin {"free", "zombie"}
    BY <1>2, <2>1, PollKeeps DEF IInv, Types, ProcessTypes
  <2>3. Types'
    BY <2>1, <2>2 DEF IInv, Types, LoopTypes
  <2>4. spawned # 0 => spawned \in Children'
    <3>1. SUFFICES ASSUME spawned # 0 PROVE spawned \in Children'
      OBVIOUS
    <3>2. pc = "assign" /\ child = 0 /\ spawned \in Children
      BY <3>1 DEF IInv, Handles
    <3>3. stage' = stage
      BY <2>1, <3>2 DEF Poll
    <3> QED BY <2>1, <3>2, <3>3 DEF Children
  <2>5. Handles'
    BY <2>1, <2>2, <2>4 DEF IInv, Handles
  <2>6. Signalled'
    BY <2>1, <2>2 DEF IInv, Types, LoopTypes, Signalled, ChildAlive
  <2> QED BY <2>2, <2>3, <2>5, <2>6 DEF IInv
<1>3. CASE ChildStops
  <2>1. /\ stopping = "waiting" /\ ~ChildAlive /\ stopping' = "yes" /\ state' = "stopped" /\ Poll
        /\ UNCHANGED <<term, port, pidFile, rivals, overlap, pc, spawned, signalAt>>
    BY <1>3 DEF ChildStops
  <2>2. Locked' /\ ProcessTypes' /\ child' = 0 /\ Children' \subseteq {child', spawned}
        /\ \A p \in rivals : stage'[p] \notin {"free", "zombie"}
    BY <2>1, PollKeeps DEF IInv, Types, ProcessTypes
  <2>3. Types' /\ spawned = 0 /\ pc = "decide"
    BY <2>1, <2>2 DEF IInv, Types, LoopTypes, Handles, Signalled
  <2>4. Handles'
    BY <2>1, <2>2, <2>3 DEF IInv, Handles
  <2>5. Signalled'
    BY <2>1, <2>2, <2>3 DEF IInv, Signalled, ChildAlive
  <2> QED BY <2>2, <2>3, <2>4, <2>5 DEF IInv
<1>4. CASE KillChild
  <2>1. /\ stopping = "waiting" /\ ChildAlive /\ stopping' = "yes" /\ state' = "stopped"
        /\ stage' = [stage EXCEPT ![child] = "zombie"] /\ term' = term \ {child}
        /\ UNCHANGED <<port, pidFile, rivals, overlap, pc, child, spawned, signalAt>>
    BY <1>4 DEF KillChild
  <2>2. pc = "decide" /\ child \in Children /\ spawned = 0
    BY <2>1 DEF IInv, Handles, Signalled
  <2>3. Types'
    BY <2>1 DEF IInv, Types, ProcessTypes, LoopTypes, Stages
  <2>4. Handles'
    BY <2>1, <2>2 DEF IInv, Types, ProcessTypes, Handles, Children
  <2>5. stage'[child] = "zombie"
    BY <2>1, <2>2 DEF Children, IInv, Types, ProcessTypes
  <2>6. Signalled'
    BY <2>1, <2>2, <2>5 DEF IInv, Signalled, ChildAlive
  <2>7. Locked'
    BY <2>1, <2>2 DEF IInv, Types, ProcessTypes, Locked, Past
  <2> QED BY <2>3, <2>4, <2>6, <2>7 DEF IInv
<1> QED BY <1>1, <1>2, <1>3, <1>4

LEMMA StepIInv == IInv /\ [Next]_vars => IInv'
<1> SUFFICES ASSUME IInv, [Next]_vars PROVE IInv'
  OBVIOUS
<1>1. ASSUME NEW p \in Pids, Progress(p) \/ Crash(p), UNCHANGED superVars
      PROVE  IInv'
  <2>1. LoopTypes'
    BY <1>1 DEF superVars, IInv, Types, LoopTypes
  <2> QED BY <1>1, <2>1, ProgressMoves, MovesKeepHandles, ProgressKeepsLocked DEF IInv, Types
<1>2. CASE Tick \/ RunStep \/ UNCHANGED vars
  BY <1>2, QuietKeeps, SpawnKeeps, DecisionKeeps DEF RunStep
<1>3. CASE Signal \/ Handler
  BY <1>3, StopKeeps DEF Handler
<1> QED BY <1>1, <1>2, <1>3, RivalKeeps DEF Next

LEMMA Invariant == Spec => []IInv
BY InitIInv, StepIInv, PTL DEF Spec

(***************************************************************************)
(* There is never a second child, alive or unreaped (supervisor.py:14).    *)
(***************************************************************************)
THEOREM ChildrenAreSerial == Spec => []OneChild
<1>1. ASSUME Handles PROVE OneChild
  <2> SUFFICES ASSUME NEW p \in Children, NEW q \in Children PROVE p = q
    BY DEF OneChild
  <2>1. p # 0 /\ q # 0 /\ p \in {child, spawned} /\ q \in {child, spawned}
    BY <1>1, PidsArePositive DEF Handles, Children
  <2>2. spawned = 0 \/ child = 0
    BY <1>1 DEF Handles
  <2> QED BY <2>1, <2>2
<1>2. IInv => OneChild
  BY <1>1 DEF IInv
<1> QED BY <1>2, Invariant, PTL

(***************************************************************************)
(* run() returns with a live child only when the signal struck while it    *)
(* was spawning one (supervisor.py:315).                                   *)
(***************************************************************************)
THEOREM OrphansComeFromSpawn == Spec => []OrphanOnlyFromSpawn
<1>1. IInv => OrphanOnlyFromSpawn
  BY DEF IInv, Types, LoopTypes, Signalled, OrphanOnlyFromSpawn, ChildAlive
<1> QED BY <1>1, Invariant, PTL

(***************************************************************************)
(* The PID file excludes a second serving sidecar as long as boots do not  *)
(* overlap, whatever crashes, on any port (server.py:67).                  *)
(***************************************************************************)
THEOREM LockExcludes == Spec => []SingleInstanceWithoutOverlap
<1>1. IInv => SingleInstanceWithoutOverlap
  BY DEF IInv, Locked, Past, SingleInstanceWithoutOverlap, Serving
<1> QED BY <1>1, Invariant, PTL
(***************************************************************************)
(* One child at most, and it ends with the supervisor but for a signal     *)
(* during a spawn (supervisor.py:14 and 315).                              *)
(***************************************************************************)
THEOREM ChildrenAreLookedAfter == Spec => []ChildIsLookedAfter
<1>1. OneChild /\ OrphanOnlyFromSpawn => ChildIsLookedAfter
  BY DEF ChildIsLookedAfter
<1> QED BY <1>1, ChildrenAreSerial, OrphansComeFromSpawn, PTL

(***************************************************************************)
(* The rate of the restarts.                                               *)
(***************************************************************************)
\* The restart times, oldest first, end with the recent ones.
Recorded(seq, tail) ==
  /\ seq \in Seq(Nat) /\ tail \in Seq(Nat) /\ Len(tail) <= Len(seq)
  /\ \A i \in 1..Len(tail) : tail[i] = seq[Len(seq) - Len(tail) + i] /\ tail[i] <= Window
  /\ \A i, j \in 1..Len(tail) : i <= j => tail[j] <= tail[i]
\* Fewer than the threshold are there while run() sleeps before a restart.
Rated ==
  /\ Recorded(ages, recent)
  /\ Len(ages) <= Threshold
  /\ pc = "sleep" => Len(ages) < Threshold

\* The pops end at a first restart within the window, or at an empty list.
LEMMA FirstFresh ==
  ASSUME NEW s \in Seq(Nat)
  PROVE  \E i \in 1 .. Len(s) + 1 :
           /\ i <= Len(s) => s[i] <= Window
           /\ \A j \in 1 .. i - 1 : s[j] > Window
<1> DEFINE T == {i \in 1 .. Len(s) + 1 : i <= Len(s) => s[i] <= Window}
<1>1. T \subseteq Nat /\ Len(s) + 1 \in T /\ Len(s) \in Nat /\ Window \in Nat
  BY PolicyAssumption
<1>2. PICK x \in T : \A y \in T : ~(<<y, x>> \in OpToRel(<, Nat))
  <2>1. T # {}
    BY <1>1
  <2> HIDE DEF T
  <2> QED
    BY <1>1, <2>1, NatLessThanWellFounded, WFMin
<1>3. \A y \in T : ~(y < x)
  BY <1>1, <1>2 DEF OpToRel
<1>4. ASSUME NEW j \in 1 .. x - 1 PROVE s[j] > Window
  <2>1. j \in 1..Len(s) /\ j < x
    BY <1>1
  <2>2. s[j] \in Nat /\ j \notin T
    BY <1>3, <2>1
  <2> QED
    BY <1>1, <2>1, <2>2
<1> QED
  BY <1>4

\* What is left is the end of what was there, it holds all of any end within
\* the window, and it begins within the window.
LEMMA FreshFacts ==
  ASSUME NEW s \in Seq(Nat)
  PROVE  /\ Fresh(s) \in Seq(Nat) /\ Len(Fresh(s)) <= Len(s)
         /\ \A i \in 1..Len(Fresh(s)) : Fresh(s)[i] = s[Len(s) - Len(Fresh(s)) + i]
         /\ Len(Fresh(s)) > 0 => Fresh(s)[1] <= Window
         /\ \A k \in 1..Len(s) : s[k] <= Window => Len(Fresh(s)) >= Len(s) - k + 1
<1> DEFINE n == Len(s)
           first == CHOOSE i \in 1 .. n + 1 :
                      /\ i <= n => s[i] <= Window
                      /\ \A j \in 1 .. i - 1 : s[j] > Window
<1>1. first \in 1 .. n + 1 /\ (first <= n => s[first] <= Window) /\ \A j \in 1 .. first - 1 : s[j] > Window
  BY FirstFresh
<1>2. Fresh(s) = SubSeq(s, first, n)
  BY DEF Fresh
<1> HIDE DEF first
<1>3. n \in Nat /\ first \in Nat /\ first >= 1 /\ first <= n + 1 /\ Window \in Nat
  BY <1>1, PolicyAssumption
<1>4. /\ SubSeq(s, first, n) \in Seq(Nat) /\ Len(SubSeq(s, first, n)) = n - first + 1
      /\ \A i \in 1 .. n - first + 1 : SubSeq(s, first, n)[i] = s[first + i - 1]
  BY <1>3
<1> DEFINE r == Fresh(s)
<1>5. r \in Seq(Nat) /\ Len(r) = n - first + 1 /\ \A i \in 1 .. n - first + 1 : r[i] = s[first + i - 1]
  BY <1>2, <1>4
<1> HIDE DEF r
<1>6. \A i \in 1..Len(r) : n - Len(r) + i = first + i - 1
  BY <1>3, <1>5
<1>7. \A i \in 1..Len(r) : r[i] = s[n - Len(r) + i]
  BY <1>3, <1>5, <1>6
<1>8. ASSUME Len(r) > 0 PROVE r[1] <= Window
  <2>1. 1 \in 1 .. n - first + 1 /\ first + 1 - 1 = first /\ first <= n
    BY <1>3, <1>5, <1>8
  <2>2. r[1] = s[first]
    BY <1>5, <2>1
  <2> QED
    BY <1>1, <2>1, <2>2
<1>9. ASSUME NEW k \in 1..n, s[k] <= Window PROVE Len(r) >= n - k + 1
  <2>1. s[k] \in Nat
    OBVIOUS
  <2>2. ~(k \in 1 .. first - 1)
    BY <1>1, <1>3, <1>9, <2>1
  <2> QED
    BY <1>3, <1>5, <2>2
<1>10. Len(r) <= n
  BY <1>3, <1>5
<1> QED
  BY <1>5, <1>7, <1>8, <1>9, <1>10 DEF r

\* A restart is recorded.
LEMMA RecordRestart ==
  ASSUME NEW s, NEW t, Recorded(s, t)
  PROVE  /\ Recorded(Fresh(Append(s, 0)), Append(t, 0))
         /\ Len(Fresh(Append(s, 0))) <= Len(s) + 1
<1> DEFINE n == Len(s)
           m == Len(t)
           a == Append(s, 0)
           b == Append(t, 0)
           f == Fresh(a)
<1>1. /\ s \in Seq(Nat) /\ t \in Seq(Nat) /\ n \in Nat /\ m \in Nat /\ m <= n /\ Window \in Nat
      /\ \A i \in 1..m : t[i] = s[n - m + i] /\ t[i] <= Window
      /\ \A i, j \in 1..m : i <= j => t[j] <= t[i]
  BY PolicyAssumption DEF Recorded
<1>2. /\ a \in Seq(Nat) /\ Len(a) = n + 1 /\ \A i \in 1..n : a[i] = s[i]
      /\ a[n + 1] = 0
  BY <1>1
<1>3. /\ b \in Seq(Nat) /\ Len(b) = m + 1 /\ \A i \in 1..m : b[i] = t[i]
      /\ b[m + 1] = 0
  BY <1>1
<1> HIDE DEF a, b
<1>4. /\ f \in Seq(Nat) /\ Len(f) <= Len(a)
      /\ \A i \in 1..Len(f) : f[i] = a[Len(a) - Len(f) + i]
      /\ \A k \in 1..Len(a) : a[k] <= Window => Len(f) >= Len(a) - k + 1
  BY <1>2, FreshFacts
<1> HIDE DEF f
<1>5. Len(f) \in Nat /\ Len(f) <= n + 1 /\ Len(f) >= m + 1
  <2>1. CASE m = 0
    <3>1. a[n + 1] <= Window /\ n + 1 \in 1..Len(a)
      BY <1>1, <1>2
    <3> QED
      BY <1>1, <1>2, <1>4, <2>1, <3>1
  <2>2. CASE m > 0
    <3>1. n - m + 1 \in 1..n /\ 1 \in 1..m
      BY <1>1, <2>2
    <3>2. t[1] = s[n - m + 1] /\ t[1] <= Window
      BY <1>1, <3>1
    <3>3. a[n - m + 1] <= Window /\ n - m + 1 \in 1..Len(a)
      <4>1. a[n - m + 1] = s[n - m + 1]
        BY <1>2, <3>1
      <4>2. n - m + 1 \in 1..Len(a)
        BY <1>1, <1>2, <3>1
      <4> QED
        BY <3>2, <4>1, <4>2
    <3>4. Len(f) >= (n + 1) - (n - m + 1) + 1
      BY <1>2, <1>4, <3>3
    <3> QED
      BY <1>1, <1>2, <1>4, <3>4
  <2> QED
    BY <1>1, <2>1, <2>2
<1>6. ASSUME NEW i \in 1 .. m + 1 PROVE b[i] = f[Len(f) - (m + 1) + i] /\ b[i] <= Window
  <2>1. Len(f) - (m + 1) + i \in 1..Len(f) /\ Len(a) - Len(f) + (Len(f) - (m + 1) + i) = n - m + i
    BY <1>1, <1>2, <1>5
  <2>2. f[Len(f) - (m + 1) + i] = a[n - m + i]
    BY <1>4, <2>1
  <2>3. CASE i = m + 1
    <3>1. n - m + i = n + 1
      BY <1>1, <2>3
    <3> QED
      BY <1>1, <1>2, <1>3, <2>2, <2>3, <3>1
  <2>4. CASE i \in 1..m
    <3>1. n - m + i \in 1..n
      BY <1>1, <2>4
    <3>2. b[i] = t[i] /\ a[n - m + i] = s[n - m + i]
      BY <1>2, <1>3, <2>4, <3>1
    <3> QED
      BY <1>1, <2>2, <2>4, <3>2
  <2> QED
    BY <1>1, <2>3, <2>4
<1>7. ASSUME NEW i \in 1 .. m + 1, NEW j \in 1 .. m + 1, i <= j PROVE b[j] <= b[i]
  <2>1. b[i] \in Nat /\ b[j] \in Nat
    BY <1>3
  <2>2. CASE j = m + 1
    BY <1>3, <2>1, <2>2
  <2>3. CASE j \in 1..m
    <3>1. i \in 1..m
      BY <1>1, <1>7, <2>3
    <3> QED
      BY <1>1, <1>3, <1>7, <2>3, <3>1
  <2> QED
    BY <1>1, <2>2, <2>3
<1>8. Recorded(f, b)
  BY <1>3, <1>4, <1>5, <1>6, <1>7 DEF Recorded
<1> QED
  BY <1>5, <1>8 DEF f, a, b

\* Time passes.
LEMMA Aging ==
  ASSUME NEW s, NEW t, Recorded(s, t)
  PROVE  Recorded(Older(s), Fresh(Older(t))) /\ Len(Older(s)) = Len(s)
<1> DEFINE n == Len(s)
           m == Len(t)
           a == Older(s)
           b == Older(t)
           f == Fresh(b)
           Age(x) == IF x > Window THEN x ELSE x + 1
<1>1. /\ s \in Seq(Nat) /\ t \in Seq(Nat) /\ n \in Nat /\ m \in Nat /\ m <= n /\ Window \in Nat
      /\ DOMAIN s = 1..n /\ DOMAIN t = 1..m
      /\ \A i \in 1..m : t[i] = s[n - m + i] /\ t[i] <= Window
      /\ \A i, j \in 1..m : i <= j => t[j] <= t[i]
  BY PolicyAssumption DEF Recorded
<1>2. a \in Seq(Nat) /\ Len(a) = n /\ \A i \in 1..n : a[i] = Age(s[i])
  <2>1. a = [i \in 1..n |-> Age(s[i])] /\ \A i \in 1..n : Age(s[i]) \in Nat
    BY <1>1 DEF Older
  <2> QED
    BY <1>1, <2>1
<1>3. b \in Seq(Nat) /\ Len(b) = m /\ \A i \in 1..m : b[i] = Age(t[i])
  <2>1. b = [i \in 1..m |-> Age(t[i])] /\ \A i \in 1..m : Age(t[i]) \in Nat
    BY <1>1 DEF Older
  <2> QED
    BY <1>1, <2>1
<1> HIDE DEF a, b
<1>4. /\ f \in Seq(Nat) /\ Len(f) <= m
      /\ \A i \in 1..Len(f) : f[i] = b[m - Len(f) + i]
      /\ Len(f) > 0 => f[1] <= Window
  BY <1>3, FreshFacts
<1> HIDE DEF f
<1>5. Len(f) \in Nat /\ Len(f) <= n
  BY <1>1, <1>4
<1>6. ASSUME NEW i \in 1..m, NEW j \in 1..m, i <= j PROVE b[j] <= b[i]
  <2>1. t[i] \in Nat /\ t[j] \in Nat /\ t[j] <= t[i]
    BY <1>1, <1>6
  <2>2. b[i] = Age(t[i]) /\ b[j] = Age(t[j]) /\ Window \in Nat
    BY <1>1, <1>3
  <2> QED
    BY <2>1, <2>2
<1>7. ASSUME NEW i \in 1..Len(f), NEW j \in 1..Len(f), i <= j PROVE f[j] <= f[i]
  <2>1. m - Len(f) + i \in 1..m /\ m - Len(f) + j \in 1..m /\ m - Len(f) + i <= m - Len(f) + j
    <3>1. i \in Nat /\ j \in Nat /\ i <= Len(f) /\ j <= Len(f) /\ 1 <= i /\ i <= j /\ Len(f) <= m /\ m \in Nat /\ Len(f) \in Nat
      BY <1>1, <1>4, <1>5, <1>7
    <3> QED
      BY <3>1
  <2>2. f[i] = b[m - Len(f) + i] /\ f[j] = b[m - Len(f) + j]
    BY <1>4
  <2> QED
    BY <1>6, <2>1, <2>2
<1>8. ASSUME NEW i \in 1..Len(f) PROVE f[i] = a[n - Len(f) + i] /\ f[i] <= Window
  <2>1. /\ m - Len(f) + i \in 1..m /\ n - Len(f) + i \in 1..n
        /\ n - m + (m - Len(f) + i) = n - Len(f) + i
    <3>1. n \in Nat /\ m \in Nat /\ m <= n /\ Len(f) \in Nat /\ Len(f) <= m /\ i \in 1..Len(f)
      BY <1>1, <1>4, <1>5
    <3> QED
      BY <3>1
  <2>2. f[i] = Age(t[m - Len(f) + i]) /\ t[m - Len(f) + i] = s[n - Len(f) + i]
    BY <1>1, <1>3, <1>4, <2>1
  <2>3. f[i] = a[n - Len(f) + i]
    BY <1>2, <2>1, <2>2
  <2>4. 1 \in 1..Len(f) /\ 1 <= i /\ Len(f) > 0 /\ f[1] \in Nat /\ f[i] \in Nat
    BY <1>4, <1>5
  <2>5. f[i] <= f[1] /\ f[1] <= Window
    BY <1>4, <1>7, <2>4
  <2> QED
    BY <1>1, <2>3, <2>4, <2>5
<1> QED
  BY <1>2, <1>4, <1>5, <1>7, <1>8 DEF Recorded, a, f, b

\* Only a backoff leads to the sleep, and only a wake from it records a restart.
LEMMA RatedStep == Rated /\ [Next]_vars => Rated'
<1> SUFFICES ASSUME Rated, [Next]_vars PROVE Rated'
  OBVIOUS
<1>1. CASE Tick
  <2>1. Recorded(ages, recent)' /\ Len(ages') = Len(ages) /\ pc' = pc
    BY <1>1, Aging DEF Tick, Rated
  <2> QED
    BY <2>1 DEF Rated
<1>2. CASE Wake /\ stopping # "yes"
  <2>1. Recorded(ages, recent)' /\ Len(ages') <= Len(ages) + 1 /\ Len(ages) < Threshold /\ pc' = "spawn"
    BY <1>2, RecordRestart DEF Wake, At, Rated
  <2>2. Len(ages) \in Nat /\ Len(ages') \in Nat /\ Threshold \in Nat
    BY <2>1, PolicyAssumption DEF Rated, Recorded
  <2> QED
    BY <2>1, <2>2 DEF Rated
<1>3. CASE Backoff
  <2>1. Len(ages) \in Nat /\ Threshold \in Nat
    BY PolicyAssumption DEF Rated, Recorded
  <2>2. Len(ages) < Threshold
    BY <1>3, <2>1 DEF Backoff, StormTripped
  <2> QED
    BY <1>3, <2>2 DEF Backoff, Rated
<1>4. CASE UNCHANGED <<ages, recent>> /\ (pc' = pc \/ pc' # "sleep")
  BY <1>4 DEF Rated
<1>5. ASSUME ~Tick, ~(Wake /\ stopping # "yes"), ~Backoff
      PROVE  UNCHANGED <<ages, recent>> /\ (pc' = pc \/ pc' # "sleep")
  <2>1. CASE RunStep
    BY <1>5, <2>1 DEF RunStep, Start, Spawn, Assign, Keep, Break, Overflow, Wake
  <2>2. CASE Signal \/ Handler
    BY <2>2 DEF Signal, Handler, ChildStops, KillChild
  <2>3. CASE UNCHANGED superVars
    BY <2>3 DEF superVars
  <2> QED
    BY <1>5, <2>1, <2>2, <2>3 DEF Next, vars
<1> QED
  BY <1>1, <1>2, <1>3, <1>4, <1>5

(***************************************************************************)
(* No window holds more restarts than the threshold, although the times    *)
(* are pruned only when a restart is recorded (supervisor.py:18).          *)
(***************************************************************************)
THEOREM RestartsStayLimited == Spec => []RestartsAreRateLimited
<1>1. Init => Rated
  BY PolicyAssumption DEF Init, Rated, Recorded
<1>2. Rated => RestartsAreRateLimited
  <2> SUFFICES ASSUME Rated PROVE Len(recent) <= Threshold
    BY DEF RestartsAreRateLimited
  <2>1. Len(recent) \in Nat /\ Len(ages) \in Nat /\ Threshold \in Nat
    BY PolicyAssumption DEF Rated, Recorded
  <2> QED
    BY <2>1 DEF Rated, Recorded
<1> QED
  BY <1>1, <1>2, RatedStep, PTL DEF Spec
-----------------------------------------------------------------------------
(* Folds, made one element after the other.                                   *)

(* A set of numbers has a least one.                                          *)
LEMMA LeastNumber ==
  ASSUME NEW S \in SUBSET Nat, S # {}
  PROVE  \E m \in S : \A y \in S : m <= y
<1>1. PICK m \in S : \A y \in S : ~(<<y, m>> \in OpToRel(<, Nat))
  BY NatLessThanWellFounded, WFMin
<1>2. \A y \in S : ~(y < m)
  BY <1>1 DEF OpToRel
<1> QED
  BY <1>2

(* What holds at first and is kept from each number to the next holds up to n.*)
LEMMA StepByStep ==
  ASSUME NEW n \in Nat, NEW S, 0 \in S, \A k \in 0..n : k \in S /\ k + 1 <= n => k + 1 \in S
  PROVE  0..n \subseteq S
<1> SUFFICES ASSUME (0..n) \ S # {} PROVE FALSE
  OBVIOUS
<1>1. PICK m \in (0..n) \ S : \A y \in (0..n) \ S : m <= y
  <2>1. (0..n) \ S \in SUBSET Nat
    OBVIOUS
  <2> QED
    BY <2>1, LeastNumber
<1>2. m # 0 /\ m \in 0..n /\ m - 1 \in 0..n
  BY <1>1
<1>3. m - 1 \in S
  BY <1>1, <1>2
<1> QED
  BY <1>1, <1>2, <1>3

(* A fold: the value of a set of indices is made from that of the set without *)
(* its greatest one and from the element there.                               *)
Folds(h, q, a, g) ==
  \A s \in SUBSET DOMAIN q : h[s] = IF s = {} THEN a ELSE g[<<h[s \ {Max(s)}], q[Max(s)]>>]

(* The greatest index of a set.                                               *)
LEMMA GreatestIs ==
  ASSUME NEW m \in Nat, NEW s, s \subseteq 1..m, m \in s
  PROVE  Max(s) = m
<1>1. \A y \in s : m >= y
  OBVIOUS
<1>2. \A x \in s : (\A y \in s : x >= y) => x = m
  OBVIOUS
<1>3. Max(s) \in s /\ \A y \in s : Max(s) >= y
  BY <1>1 DEF Max
<1> QED
  BY <1>2, <1>3

LEMMA MaxIsIn ==
  ASSUME NEW n \in Nat, NEW s \in SUBSET (1..n), s # {}
  PROVE  Max(s) \in s
<1> DEFINE U == {u \in Nat : \A y \in s : y <= u}
<1>1. PICK m \in U : \A u \in U : m <= u
  <2>1. n \in U
    OBVIOUS
  <2>2. U \in SUBSET Nat /\ U # {}
    BY <2>1
  <2> QED
    BY <2>2, LeastNumber
<1>2. ASSUME m \notin s PROVE FALSE
  <2>1. PICK x \in s : TRUE
    OBVIOUS
  <2>2. m \in Nat /\ x \in Nat /\ x <= m /\ x # m
    BY <1>1, <1>2
  <2>3. m - 1 \in Nat
    BY <2>2
  <2>4. ASSUME NEW y \in s PROVE y <= m - 1
    <3>1. y \in Nat /\ y <= m /\ y # m
      BY <1>1, <1>2
    <3> QED
      BY <2>2, <3>1
  <2>5. m - 1 \in U
    BY <2>3, <2>4
  <2> QED
    BY <1>1, <2>2, <2>5
<1>3. m \in s /\ \A y \in s : m >= y
  BY <1>1, <1>2
<1> QED
  BY <1>3 DEF Max

(* There is a function that follows it.                                       *)
LEMMA FoldIsThere ==
  ASSUME NEW E, NEW R, NEW q \in Seq(E), NEW a \in R, NEW g \in [R \X E -> R]
  PROVE  \E h \in [SUBSET DOMAIN q -> R] : Folds(h, q, a, g)
<1> DEFINE IsFold(h, m) == \A s \in SUBSET (1..m) :
                             h[s] = IF s = {} THEN a ELSE g[<<h[s \ {Max(s)}], q[Max(s)]>>]
           Has(m) == \E h \in [SUBSET (1..m) -> R] : IsFold(h, m)
           S == {m \in 0..Len(q) : Has(m)}
<1>0. Len(q) \in Nat /\ DOMAIN q = 1..Len(q) /\ \A i \in 1..Len(q) : q[i] \in E
  OBVIOUS
<1>1. Has(0)
  <2> DEFINE h == [s \in SUBSET (1..0) |-> a]
  <2>1. h \in [SUBSET (1..0) -> R] /\ \A s \in SUBSET (1..0) : s = {} /\ h[s] = a
    OBVIOUS
  <2>2. IsFold(h, 0)
    BY <2>1
  <2> HIDE DEF h
  <2> QED
    BY <2>1, <2>2
<1>2. ASSUME NEW m \in 0..Len(q), Has(m), m + 1 <= Len(q) PROVE Has(m + 1)
  <2>1. PICK h \in [SUBSET (1..m) -> R] : IsFold(h, m)
    BY <1>2
  <2> DEFINE f == [s \in SUBSET (1..(m + 1)) |->
                     IF m + 1 \in s THEN g[<<h[s \ {m + 1}], q[m + 1]>>] ELSE h[s]]
  <2>2. /\ m + 1 \in 1..Len(q) /\ q[m + 1] \in E /\ m + 1 \in Nat
        /\ \A s \in SUBSET (1..(m + 1)) : s \ {m + 1} \in SUBSET (1..m)
        /\ \A s \in SUBSET (1..m) : s \in SUBSET (1..(m + 1)) /\ m + 1 \notin s
    BY <1>0, <1>2
  <2>3. f \in [SUBSET (1..(m + 1)) -> R]
    <3>1. ASSUME NEW s \in SUBSET (1..(m + 1)) PROVE f[s] \in R
      <4>1. CASE m + 1 \in s
        BY <2>2, <4>1
      <4>2. CASE m + 1 \notin s
        <5>1. s \in SUBSET (1..m)
          BY <2>2, <4>2
        <5> QED
          BY <4>2, <5>1
      <4> QED
        BY <4>1, <4>2
    <3> QED
      BY <3>1
  <2>4. \A s \in SUBSET (1..m) : f[s] = h[s]
    BY <2>2
  <2>5. ASSUME NEW s \in SUBSET (1..(m + 1))
        PROVE  f[s] = IF s = {} THEN a ELSE g[<<f[s \ {Max(s)}], q[Max(s)]>>]
    <3>1. CASE m + 1 \in s
      <4>1. Max(s) = m + 1
        BY <2>2, <3>1, GreatestIs
      <4>2. f[s] = g[<<h[s \ {m + 1}], q[m + 1]>>] /\ f[s \ {m + 1}] = h[s \ {m + 1}] /\ s # {}
        BY <2>2, <2>4, <3>1
      <4> HIDE DEF f
      <4> QED
        BY <4>1, <4>2
    <3>2. CASE m + 1 \notin s
      <4>1. s \in SUBSET (1..m) /\ s \ {Max(s)} \in SUBSET (1..m)
        BY <2>2, <3>2
      <4>2. f[s] = h[s] /\ f[s \ {Max(s)}] = h[s \ {Max(s)}]
        BY <2>4, <4>1
      <4>3. h[s] = IF s = {} THEN a ELSE g[<<h[s \ {Max(s)}], q[Max(s)]>>]
        BY <2>1, <4>1
      <4> HIDE DEF f
      <4> QED
        BY <4>2, <4>3
    <3> QED
      BY <3>1, <3>2
  <2> HIDE DEF f
  <2>6. IsFold(f, m + 1)
    BY <2>5
  <2> QED
    BY <2>3, <2>6
<1> HIDE DEF Has
<1>3. 0 \in S /\ \A m \in 0..Len(q) : m \in S /\ m + 1 <= Len(q) => m + 1 \in S
  BY <1>0, <1>1, <1>2
<1> HIDE DEF S
<1>4. Len(q) \in S
  <2>1. 0..Len(q) \subseteq S
    BY <1>0, <1>3, StepByStep
  <2> QED
    BY <1>0, <2>1
<1>5. Has(Len(q))
  BY <1>4 DEF S
<1> QED
  BY <1>0, <1>5 DEF Has, Folds

(* A function that follows a fold at every set of indices is the fold.        *)
LEMMA FoldIsUnique ==
  ASSUME NEW q, NEW n \in Nat, DOMAIN q = 1..n, NEW h, NEW f,
         f[{}] = h[{}],
         \A s \in (SUBSET DOMAIN q) \ {{}} : f[s \ {Max(s)}] = h[s \ {Max(s)}] => f[s] = h[s]
  PROVE  f[DOMAIN q] = h[DOMAIN q]
<1> DEFINE S == {k \in 0..n : f[1..k] = h[1..k]}
<1>1. 0 \in S
  <2>1. 1..0 = {}
    OBVIOUS
  <2> QED
    BY <2>1
<1>2. ASSUME NEW k \in 0..n, k \in S, k + 1 <= n PROVE k + 1 \in S
  <2>1. 1..(k + 1) \in (SUBSET DOMAIN q) \ {{}} /\ (1..(k + 1)) \ {k + 1} = 1..k /\ k + 1 \in Nat /\ k + 1 \in 1..(k + 1)
    BY <1>2
  <2>2. Max(1..(k + 1)) = k + 1
    BY <2>1, GreatestIs
  <2>3. f[1..k] = h[1..k]
    BY <1>2
  <2>4. f[1..(k + 1)] = h[1..(k + 1)]
    BY <2>1, <2>2, <2>3
  <2> QED
    BY <1>2, <2>4
<1> HIDE DEF S
<1>3. n \in S
  <2>1. 0..n \subseteq S
    BY <1>1, <1>2, StepByStep
  <2> QED
    BY <2>1
<1> QED
  BY <1>3 DEF S

-----------------------------------------------------------------------------
(* The night: the corpus exported from the dreams, the log of first sights.   *)

(* What is distilled of an answer are its pairs that are not blank.           *)
Clean == QAPairs \ {BlankPair}
LEMMA DistilledIsClean ==
  ASSUME NEW reply \in Seq(QAPairs \cup {BlankPair})
  PROVE  Distilled(reply) \in Seq(Clean)
<1> DEFINE E == QAPairs \cup {BlankPair}
           R == Seq(Clean)
           g == [x \in R \X E |-> IF x[2] = BlankPair THEN x[1] ELSE Append(x[1], x[2])]
           body(F, s) == IF s = {} THEN <<>> ELSE
                           IF reply[Max(s)] = BlankPair THEN F[s \ {Max(s)}]
                           ELSE Append(F[s \ {Max(s)}], reply[Max(s)])
           Is(F) == F = [s \in SUBSET DOMAIN reply |-> body(F, s)]
<1>1. g \in [R \X E -> R] /\ <<>> \in R
  <2>1. ASSUME NEW x \in R \X E PROVE (IF x[2] = BlankPair THEN x[1] ELSE Append(x[1], x[2])) \in R
    <3>1. x[1] \in Seq(Clean) /\ x[2] \in E
      OBVIOUS
    <3> QED
      BY <3>1 DEF Clean
  <2> QED
    BY <2>1
<1>2. PICK h \in [SUBSET DOMAIN reply -> R] : Folds(h, reply, <<>>, g)
  BY <1>1, FoldIsThere
<1>3. ASSUME NEW s \in SUBSET DOMAIN reply PROVE h[s] = body(h, s)
  <2>1. CASE s = {}
    BY <1>2, <2>1 DEF Folds
  <2>2. CASE s # {}
    <3>1. Max(s) \in DOMAIN reply
      <4>1. Len(reply) \in Nat /\ DOMAIN reply = 1..Len(reply)
        OBVIOUS
      <4> QED
        BY <2>2, <4>1, MaxIsIn
    <3>2. <<h[s \ {Max(s)}], reply[Max(s)]>> \in R \X E
      BY <3>1
    <3>3. h[s] = g[<<h[s \ {Max(s)}], reply[Max(s)]>>]
      BY <1>2, <2>2 DEF Folds
    <3> QED
      BY <2>2, <3>2, <3>3
  <2> QED
    BY <2>1, <2>2
<1>4. Is(h)
  BY <1>3
<1>5. Is(CHOOSE F : Is(F))
  BY <1>4, Zenon
<1>6. Distilled(reply) = (CHOOSE F : Is(F))[DOMAIN reply]
  BY Zenon DEF Distilled, FoldLeft, MapThenFoldSet
<1> DEFINE f == CHOOSE F : Is(F)
<1>7. \A s \in SUBSET DOMAIN reply : f[s] = body(f, s)
  <2> HIDE DEF body
  <2> QED
    BY <1>5, Zenon
<1> HIDE DEF f
<1>8. f[DOMAIN reply] = h[DOMAIN reply]
  <2>1. {} \in SUBSET DOMAIN reply /\ \A s \in SUBSET DOMAIN reply : s \ {Max(s)} \in SUBSET DOMAIN reply
    OBVIOUS
  <2>2. f[{}] = h[{}]
    BY <1>3, <1>7, <2>1
  <2>3. ASSUME NEW s \in (SUBSET DOMAIN reply) \ {{}}, f[s \ {Max(s)}] = h[s \ {Max(s)}]
        PROVE  f[s] = h[s]
    BY <1>3, <1>7, <2>3
  <2>4. Len(reply) \in Nat /\ DOMAIN reply = 1..Len(reply)
    OBVIOUS
  <2> QED
    BY <2>2, <2>3, <2>4, FoldIsUnique
<1> QED
  BY <1>2, <1>6, <1>8 DEF f

(* Sequences of pairs, one behind the other, are a sequence of pairs.         *)
LEMMA FlatIsSequence ==
  ASSUME NEW Q, NEW ss \in Seq(Seq(Q))
  PROVE  FlattenSeq(ss) \in Seq(Q)
<1> DEFINE n == Len(ss)
           R == Seq(Q)
           g == [x \in R \X R |-> x[1] \o x[2]]
           body(F, i) == IF i = 1 THEN ss[i] ELSE F[i - 1] \o ss[i]
           Is(F) == F = [i \in 1..n |-> body(F, i)]
<1>1. g \in [R \X R -> R] /\ <<>> \in R /\ n \in Nat /\ DOMAIN ss = 1..n /\ \A i \in 1..n : ss[i] \in R
  OBVIOUS
<1>2. PICK h \in [SUBSET DOMAIN ss -> R] : Folds(h, ss, <<>>, g)
  BY <1>1, FoldIsThere
<1>3. h[1..0] = <<>> /\ \A k \in 1..n : h[1..k] = g[<<h[1..(k - 1)], ss[k]>>]
  <2>1. 1..0 = {} /\ {} \in SUBSET DOMAIN ss
    OBVIOUS
  <2>2. h[1..0] = <<>>
    BY <1>2, <2>1 DEF Folds
  <2>3. ASSUME NEW k \in 1..n PROVE h[1..k] = g[<<h[1..(k - 1)], ss[k]>>]
    <3>0. n \in Nat /\ DOMAIN ss = 1..n
      BY <1>1
    <3> HIDE DEF g, n, R
    <3>1. 1..k \in SUBSET DOMAIN ss /\ 1..k # {} /\ (1..k) \ {k} = 1..(k - 1) /\ k \in Nat /\ k \in 1..k
      <4>1. k \in Nat /\ k \in 1..n /\ k >= 1
        BY <3>0
      <4>2. (1..k) \ {k} = 1..(k - 1) /\ k \in 1..k
        BY <4>1
      <4>3. 1..k \in SUBSET (1..n)
        BY <3>0, <4>1
      <4> QED
        BY <3>0, <4>1, <4>2, <4>3
    <3>2. Max(1..k) = k
      BY <3>1, GreatestIs
    <3> QED
      BY <1>2, <3>1, <3>2 DEF Folds
  <2> QED
    BY <2>2, <2>3
<1> DEFINE p == [i \in 1..n |-> h[1..i]]
<1>4. ASSUME NEW i \in 1..n PROVE p[i] \in R /\ p[i] = body(p, i)
  <2>1. 1..i \in SUBSET DOMAIN ss /\ 1..(i - 1) \in SUBSET DOMAIN ss
    BY <1>1
  <2>2. h[1..i] \in R /\ h[1..(i - 1)] \in R
    BY <2>1
  <2>3. h[1..i] = h[1..(i - 1)] \o ss[i]
    BY <1>1, <1>3, <2>2
  <2>4. CASE i = 1
    <3>1. h[1..i] = <<>> \o ss[i]
      BY <1>3, <2>3, <2>4
    <3>2. h[1..i] = ss[i]
      BY <1>1, <3>1
    <3> QED
      BY <2>2, <2>4, <3>2
  <2>5. CASE i # 1
    <3>1. i - 1 \in 1..n /\ p[i - 1] = h[1..(i - 1)]
      BY <1>1, <2>5
    <3> QED
      BY <2>2, <2>3, <2>5, <3>1
  <2> QED
    BY <2>4, <2>5
<1> HIDE DEF p, g
<1>5. Is([i \in 1..n |-> p[i]])
  <2>1. ASSUME NEW i \in 1..n PROVE p[i] = body([j \in 1..n |-> p[j]], i)
    <3>1. CASE i = 1
      BY <1>4, <3>1
    <3>2. CASE i # 1
      <4>1. i - 1 \in 1..n
        BY <1>1, <3>2
      <4> QED
        BY <1>4, <3>2, <4>1
    <3> QED
      BY <3>1, <3>2
  <2> HIDE DEF body
  <2> QED
    BY <2>1
<1> DEFINE f == CHOOSE F : Is(F)
<1>6. Is(f)
  BY <1>5, Zenon
<1>7. n # 0 => FlattenSeq(ss) = f[n]
  BY Zenon DEF FlattenSeq
<1>8. \A i \in 1..n : f[i] = body(f, i)
  <2> HIDE DEF body
  <2> HIDE DEF f
  <2> QED
    BY <1>6, Zenon
<1> HIDE DEF f
<1> DEFINE S == {k \in 0..n : k = 0 \/ f[k] \in R}
<1>9. \A k \in 0..n : k \in S /\ k + 1 <= n => k + 1 \in S
  <2> SUFFICES ASSUME NEW k \in 0..n, k \in S, k + 1 <= n PROVE f[k + 1] \in R
    OBVIOUS
  <2>1. k + 1 \in 1..n /\ (k + 1) - 1 = k
    BY <1>1
  <2>2. f[k + 1] = IF k + 1 = 1 THEN ss[k + 1] ELSE f[k] \o ss[k + 1]
    BY <1>8, <2>1
  <2> QED
    BY <1>1, <2>1, <2>2
<1>10. n \in S
  <2>1. 0 \in S
    BY <1>1
  <2> HIDE DEF S
  <2>2. 0..n \subseteq S
    BY <1>1, <1>9, <2>1, StepByStep
  <2> QED
    BY <1>1, <2>2
<1>11. CASE n = 0
  <2>1. FlattenSeq(ss) = ss
    BY <1>11 DEF FlattenSeq
  <2> QED
    BY <1>11, <2>1
<1>12. CASE n # 0
  BY <1>7, <1>10, <1>12
<1> QED
  BY <1>11, <1>12

(* The places up to the k-th where a digest is in a list the first time; the  *)
(* file has exactly those pairs.                                              *)
Upto(list, k) == {i \in 1..k : \A j \in 1..i - 1 : Digest[list[j]] # Digest[list[i]]}
IsWritten(file, list, k) ==
  /\ Len(file) = Cardinality(Upto(list, k))
  /\ \A i \in Upto(list, k) : file[Cardinality(Upto(list, i))] = list[i]

Digests == {Digest[p] : p \in Clean}
Exporting == [pc : {"writing"}, tmp : Seq(Clean), seen : SUBSET Digests,
              left : Seq(Clean), from : Seq(Clean)]
WrittenUpTo(e, k) ==
  /\ k \in 0..Len(e.from) /\ Len(e.left) = Len(e.from) - k
  /\ \A i \in 1..Len(e.left) : e.left[i] = e.from[k + i]
  /\ e.seen = {Digest[e.from[i]] : i \in 1..k}
  /\ IsWritten(e.tmp, e.from, k)
ExportGoes(e) == e.pc = "writing" => e \in Exporting /\ \E k \in Nat : WrittenUpTo(e, k)
EntriesAreClean(es) ==
  IsFiniteSet(DOMAIN es) /\ \A date \in DOMAIN es : es[date].qa \in Seq(Clean)
CorpusIsOf(c, list) == c # NoCorpus => list \in Seq(Clean) /\ IsWritten(c.pairs, list, Len(list))
NightInv == EntriesAreClean(entries) /\ ExportGoes(export) /\ CorpusIsOf(corpus, basis)

(* One place more is a first one or is not.                                   *)
LEMMA FirstsGrow ==
  ASSUME NEW list, NEW k \in Nat
  PROVE  /\ IsFiniteSet(Upto(list, k)) /\ Cardinality(Upto(list, k)) \in Nat
         /\ k + 1 \notin Upto(list, k)
         /\ Upto(list, k + 1) = IF \A j \in 1..k : Digest[list[j]] # Digest[list[k + 1]]
                                THEN Upto(list, k) \cup {k + 1} ELSE Upto(list, k)
<1>1. IsFiniteSet(Upto(list, k))
  <2>1. IsFiniteSet(1..k)
    BY FS_Interval
  <2>2. Upto(list, k) \subseteq 1..k
    BY DEF Upto
  <2> QED
    BY <2>1, <2>2, FS_Subset
<1>2. Cardinality(Upto(list, k)) \in Nat
  BY <1>1, FS_CardinalityType
<1>3. k + 1 \notin Upto(list, k)
  BY DEF Upto
<1>4. 1..(k + 1) = (1..k) \cup {k + 1} /\ (k + 1) - 1 = k
  OBVIOUS
<1>5. Upto(list, k + 1) = IF \A j \in 1..k : Digest[list[j]] # Digest[list[k + 1]]
                          THEN Upto(list, k) \cup {k + 1} ELSE Upto(list, k)
  BY <1>4 DEF Upto
<1> QED
  BY <1>1, <1>2, <1>3, <1>5

(* The place of a pair in the file is one of the file's.                      *)
LEMMA FirstsBefore ==
  ASSUME NEW list, NEW k \in Nat, NEW i \in Upto(list, k)
  PROVE  i \in 1..k /\ Cardinality(Upto(list, i)) \in 1..Cardinality(Upto(list, k))
<1>1. i \in Nat /\ i \in 1..k /\ Upto(list, i) \subseteq Upto(list, k) /\ i \in Upto(list, i)
  BY DEF Upto
<1>2. IsFiniteSet(Upto(list, k)) /\ IsFiniteSet(Upto(list, i))
  BY <1>1, FirstsGrow
<1>3. Cardinality(Upto(list, i)) \in Nat /\ Cardinality(Upto(list, k)) \in Nat
  BY <1>1, FirstsGrow
<1>4. Cardinality(Upto(list, i)) <= Cardinality(Upto(list, k))
  BY <1>1, <1>2, FS_Subset
<1>5. Cardinality(Upto(list, i)) # 0
  BY <1>1, <1>2, FS_EmptySet
<1> QED
  BY <1>1, <1>3, <1>4, <1>5

(* A pair is written when its place is a first one.                           *)
LEMMA WritesNext ==
  ASSUME NEW file \in Seq(Clean), NEW list, NEW k \in Nat, NEW pair \in Clean, pair = list[k + 1],
         IsWritten(file, list, k), NEW seen, seen = {Digest[list[i]] : i \in 1..k}
  PROVE  IsWritten(IF IsNew(pair, seen) THEN Append(file, pair) ELSE file,
                   list, k + 1)
<1> DEFINE first == \A j \in 1..k : Digest[list[j]] # Digest[list[k + 1]]
           size == Cardinality(Upto(list, k))
<1>1. IsNew(pair, seen) <=> first
  BY DEF IsNew
<1>2. CASE ~first
  <2>1. Upto(list, k + 1) = Upto(list, k)
    BY <1>2, FirstsGrow
  <2> QED
    BY <1>1, <1>2, <2>1 DEF IsWritten
<1>3. CASE first
  <2>1. Upto(list, k + 1) = Upto(list, k) \cup {k + 1} /\ k + 1 \notin Upto(list, k)
    BY <1>3, FirstsGrow
  <2>2. IsFiniteSet(Upto(list, k)) /\ size \in Nat
    BY FirstsGrow
  <2>3. Cardinality(Upto(list, k + 1)) = size + 1
    BY <2>1, <2>2, FS_AddElement
  <2>4. Len(file) = size
    BY DEF IsWritten
  <2> DEFINE f == Append(file, pair)
  <2>5. Len(f) = size + 1 /\ f[size + 1] = pair /\ \A n \in 1..size : f[n] = file[n]
    BY <2>4
  <2>6. ASSUME NEW i \in Upto(list, k + 1) PROVE f[Cardinality(Upto(list, i))] = list[i]
    <3>1. CASE i = k + 1
      BY <2>3, <2>5, <3>1
    <3>2. CASE i # k + 1
      <4>1. i \in Upto(list, k)
        BY <2>1, <2>6, <3>2
      <4>2. Cardinality(Upto(list, i)) \in 1..size
        BY <4>1, FirstsBefore
      <4>3. file[Cardinality(Upto(list, i))] = list[i]
        BY <4>1 DEF IsWritten
      <4> QED
        BY <2>5, <4>2, <4>3
    <3> QED
      BY <3>1, <3>2
  <2> HIDE DEF f
  <2>7. IsWritten(f, list, k + 1)
    BY <2>3, <2>5, <2>6 DEF IsWritten
  <2> QED
    BY <1>1, <1>3, <2>7 DEF f
<1> QED
  BY <1>2, <1>3

(* The writing of one pair keeps what is known of the export.                 *)
LEMMA NextIsWritten ==
  ASSUME NEW e \in Exporting, NEW k \in Nat, WrittenUpTo(e, k), e.left # <<>>,
         NEW n, n = [e EXCEPT !.left = Tail(@), !.seen = @ \cup {Digest[Head(e.left)]},
                       !.tmp = IF IsNew(Head(e.left), e.seen) THEN Append(@, Head(e.left)) ELSE @]
  PROVE  ExportGoes(n)
<1> DEFINE pair == Head(e.left)
           file == IF IsNew(pair, e.seen) THEN Append(e.tmp, pair) ELSE e.tmp
<1>1. e.left \in Seq(Clean) /\ e.from \in Seq(Clean) /\ e.tmp \in Seq(Clean) /\ e.seen \in SUBSET Digests
  BY DEF Exporting
<1>2. Len(e.left) \in Nat /\ Len(e.left) # 0 /\ Len(e.from) \in Nat
  BY <1>1
<1>3. /\ pair \in Clean /\ pair = e.left[1] /\ Tail(e.left) \in Seq(Clean)
      /\ Len(Tail(e.left)) = Len(e.left) - 1
      /\ \A i \in 1..Len(Tail(e.left)) : Tail(e.left)[i] = e.left[i + 1]
  BY <1>1, <1>2
<1>4. pair = e.from[k + 1] /\ k + 1 \in 0..Len(e.from) /\ Len(e.left) = Len(e.from) - k
  <2>1. /\ k \in 0..Len(e.from) /\ Len(e.left) = Len(e.from) - k
        /\ \A i \in 1..Len(e.left) : e.left[i] = e.from[k + i]
    BY DEF WrittenUpTo
  <2>2. pair = e.left[1]
    BY <1>3
  <2> HIDE DEF pair
  <2> QED
    BY <1>2, <2>1, <2>2
<1>5. /\ n.left = Tail(e.left) /\ n.seen = e.seen \cup {Digest[pair]} /\ n.tmp = file
      /\ n.from = e.from
  BY DEF Exporting
<1>6. n \in Exporting
  <2>1. file \in Seq(Clean) /\ e.seen \cup {Digest[pair]} \in SUBSET Digests
    BY <1>1, <1>3 DEF Digests
  <2> HIDE DEF file, pair
  <2>2. n = [e EXCEPT !.left = Tail(@), !.seen = @ \cup {Digest[pair]}, !.tmp = file]
    BY DEF file, pair, Exporting
  <2> QED
    BY <1>3, <2>1, <2>2 DEF Exporting
<1>7. IsWritten(n.tmp, n.from, k + 1)
  <2>1. e.seen = {Digest[e.from[i]] : i \in 1..k} /\ IsWritten(e.tmp, e.from, k)
    BY DEF WrittenUpTo
  <2>2. IsWritten(IF IsNew(pair, e.seen) THEN Append(e.tmp, pair) ELSE e.tmp, e.from, k + 1)
    <3>1. e.tmp \in Seq(Clean) /\ pair \in Clean /\ pair = e.from[k + 1]
      BY <1>1, <1>3, <1>4
    <3> HIDE DEF pair
    <3> QED
      BY <2>1, <3>1, WritesNext
  <2> QED
    BY <1>5, <2>2
<1>8. n.seen = {Digest[n.from[i]] : i \in 1..(k + 1)}
  <2>1. e.seen = {Digest[e.from[i]] : i \in 1..k}
    BY DEF WrittenUpTo
  <2>2. 1..(k + 1) = (1..k) \cup {k + 1}
    OBVIOUS
  <2> HIDE DEF pair, file
  <2> QED
    BY <1>4, <1>5, <2>1, <2>2
<1>9. Len(n.left) = Len(n.from) - (k + 1)
  BY <1>2, <1>3, <1>4, <1>5
<1>10. ASSUME NEW i \in 1..Len(n.left) PROVE n.left[i] = n.from[(k + 1) + i]
  <2>1. i + 1 \in 1..Len(e.left) /\ i \in Nat /\ k + (i + 1) = (k + 1) + i
    BY <1>2, <1>3, <1>5
  <2>2. n.left[i] = e.left[i + 1]
    BY <1>3, <1>5
  <2>3. e.left[i + 1] = e.from[k + (i + 1)]
    BY <2>1 DEF WrittenUpTo
  <2> QED
    BY <1>5, <2>1, <2>2, <2>3
<1>11. WrittenUpTo(n, k + 1)
  BY <1>4, <1>5, <1>7, <1>8, <1>9, <1>10 DEF WrittenUpTo
<1> QED
  BY <1>6, <1>11 DEF ExportGoes

(* Every step of dreams and exports keeps the invariant.                      *)
LEMMA DreamStep ==
  ASSUME NightInv, DreamNext
  PROVE  NightInv'
<1>1. ASSUME NEW d \in Dreamers, NEW date \in Dates, NEW day \in Days, StartDream(d, date, day)
      PROVE  NightInv'
  BY <1>1 DEF NightInv, StartDream, UnchangedOutside
<1>2. ASSUME NEW d \in Dreamers, Consolidate(d) \/ Discover(d) \/ Abandon(d) PROVE NightInv'
  BY <1>2 DEF NightInv, Consolidate, Discover, Abandon, UnchangedOutside
<1>3. ASSUME NEW d \in Dreamers, SavesEntry(d) PROVE NightInv'
  <2>1. PICK reply \in Replies \cup {<<>>} :
          entries' = WithEntry(entries, dreams[d].date, [created |-> night, qa |-> Distilled(reply)])
    BY <1>3 DEF SavesEntry
  <2>2. reply \in Seq(QAPairs \cup {BlankPair})
    <3>1. CASE reply = <<>>
      BY <3>1
    <3>2. CASE reply \in Replies
      <4>1. PICK n \in 0..MaxReply : reply \in [1..n -> QAPairs \cup {BlankPair}]
        BY <3>2 DEF Replies
      <4>2. n \in Nat
        BY DreamAssumption
      <4> QED
        BY <4>1, <4>2
    <3> QED
      BY <3>1, <3>2
  <2>3. Distilled(reply) \in Seq(Clean)
    BY <2>2, DistilledIsClean
  <2>4. EntriesAreClean(entries')
    <3> DEFINE k == dreams[d].date
               v == [created |-> night, qa |-> Distilled(reply)]
    <3>1. v.qa \in Seq(Clean)
      BY <2>3
    <3> HIDE DEF k, v
    <3>2. entries' = [x \in DOMAIN entries \cup {k} |-> IF x = k THEN v ELSE entries[x]]
      BY <2>1 DEF WithEntry, k, v
    <3>3. DOMAIN entries' = DOMAIN entries \cup {k}
      BY <3>2
    <3>4. IsFiniteSet(DOMAIN entries')
      <4>1. IsFiniteSet(DOMAIN entries)
        BY DEF NightInv, EntriesAreClean
      <4> QED
        BY <3>3, <4>1, FS_AddElement
    <3>5. ASSUME NEW x \in DOMAIN entries' PROVE entries'[x].qa \in Seq(Clean)
      <4>1. entries'[x] = IF x = k THEN v ELSE entries[x]
        BY <3>2
      <4>2. x # k => entries[x].qa \in Seq(Clean)
        BY <3>3 DEF NightInv, EntriesAreClean
      <4> QED
        BY <3>1, <4>1, <4>2
    <3> QED
      BY <3>4, <3>5 DEF EntriesAreClean
  <2> QED
    BY <1>3, <2>4 DEF NightInv, SavesEntry, UnchangedOutside
<1>4. ASSUME StartExport PROVE NightInv'
  <2>1. PICK order \in Orderings :
          export' = [pc |-> "writing", tmp |-> <<>>, seen |-> {},
                     left |-> FlattenSeq([i \in DOMAIN order |-> entries[order[i]].qa]),
                     from |-> FlattenSeq([i \in DOMAIN order |-> entries[order[i]].qa])]
    BY <1>4 DEF StartExport
  <2> DEFINE ss == [i \in DOMAIN order |-> entries[order[i]].qa]
             list == FlattenSeq(ss)
  <2>2. order \in [1..Cardinality(DOMAIN entries) -> DOMAIN entries]
    BY DEF Orderings
  <2>3. Cardinality(DOMAIN entries) \in Nat
    BY FS_CardinalityType DEF NightInv, EntriesAreClean
  <2>4. ss \in Seq(Seq(Clean))
    <3>1. ASSUME NEW i \in 1..Cardinality(DOMAIN entries) PROVE entries[order[i]].qa \in Seq(Clean)
      BY <2>2 DEF NightInv, EntriesAreClean
    <3>2. ss \in [1..Cardinality(DOMAIN entries) -> Seq(Clean)]
      BY <2>2, <3>1
    <3> HIDE DEF ss
    <3> QED
      BY <2>3, <3>2
  <2> HIDE DEF ss
  <2>5. list \in Seq(Clean)
    BY <2>4, FlatIsSequence
  <2>6. export' = [pc |-> "writing", tmp |-> <<>>, seen |-> {}, left |-> list, from |-> list]
    BY <2>1 DEF ss
  <2> HIDE DEF list
  <2>7. export' \in Exporting
    BY <2>5, <2>6 DEF Exporting
  <2>8. export'.from = list /\ export'.left = list /\ export'.tmp = <<>> /\ export'.seen = {}
    BY <2>6
  <2>9. IsWritten(<<>>, list, 0)
    <3>1. Upto(list, 0) = {}
      BY DEF Upto
    <3>2. Cardinality(Upto(list, 0)) = 0
      BY <3>1, FS_EmptySet
    <3> QED
      BY <3>1, <3>2 DEF IsWritten
  <2>10. WrittenUpTo(export', 0)
    <3>1. Len(list) \in Nat /\ \A i \in 1..Len(list) : 0 + i = i
      BY <2>5
    <3>2. {Digest[list[i]] : i \in 1..0} = {}
      OBVIOUS
    <3> QED
      BY <2>8, <2>9, <3>1, <3>2 DEF WrittenUpTo
  <2>11. ExportGoes(export')
    BY <2>7, <2>10 DEF ExportGoes
  <2> QED
    BY <1>4, <2>11 DEF NightInv, StartExport, UnchangedByExport
<1>5. ASSUME ExportsNext PROVE NightInv'
  <2>1. export.pc = "writing" /\ export.left # <<>>
    BY <1>5 DEF ExportsNext
  <2>2. export \in Exporting /\ \E k \in Nat : WrittenUpTo(export, k)
    BY <2>1 DEF NightInv, ExportGoes
  <2>3. PICK k \in Nat : WrittenUpTo(export, k)
    BY <2>2
  <2>4. export' = [export EXCEPT !.left = Tail(@), !.seen = @ \cup {Digest[Head(export.left)]},
                     !.tmp = IF IsNew(Head(export.left), export.seen)
                             THEN Append(@, Head(export.left)) ELSE @]
    BY <1>5 DEF ExportsNext
  <2>5. ExportGoes(export')
    BY <2>1, <2>2, <2>3, <2>4, NextIsWritten
  <2> QED
    BY <1>5, <2>5 DEF NightInv, ExportsNext, UnchangedByExport
<1>6. ASSUME ReplacesCorpus PROVE NightInv'
  <2>1. export.pc = "writing" /\ export.left = <<>>
    BY <1>6 DEF ReplacesCorpus
  <2>2. export \in Exporting /\ \E k \in Nat : WrittenUpTo(export, k)
    BY <2>1 DEF NightInv, ExportGoes
  <2>3. PICK k \in Nat : WrittenUpTo(export, k)
    BY <2>2
  <2>4. k = Len(export.from) /\ export.from \in Seq(Clean)
    BY <2>1, <2>2, <2>3 DEF WrittenUpTo, Exporting
  <2>5. corpus' = [pairs |-> export.tmp] /\ basis' = export.from
    BY <1>6 DEF ReplacesCorpus
  <2>6. IsWritten(export.tmp, export.from, k)
    BY <2>3 DEF WrittenUpTo
  <2>7. CorpusIsOf(corpus', basis')
    BY <2>4, <2>5, <2>6 DEF CorpusIsOf
  <2>8. ExportGoes(export')
    BY <1>6 DEF ReplacesCorpus, ExportGoes, NoExport
  <2> QED
    BY <1>6, <2>7, <2>8 DEF NightInv, ReplacesCorpus, UnchangedByExport
<1>7. ASSUME ExportDies PROVE NightInv'
  <2>1. ExportGoes(export')
    BY <1>7 DEF ExportDies, ExportGoes, NoExport
  <2> QED
    BY <1>7, <2>1 DEF NightInv, ExportDies, AfterCrash, UnchangedByExport
<1>8. ASSUME NightPasses PROVE NightInv'
  BY <1>8 DEF NightInv, NightPasses
<1> QED
  BY <1>1, <1>2, <1>3, <1>4, <1>5, <1>6, <1>7, <1>8 DEF DreamNext

(* The corpus on disk is a whole one.                                         *)
LEMMA CorpusStaysWhole == DreamSpec => []CorpusIsWhole
<1>1. DreamInit => NightInv
  <2> SUFFICES ASSUME DreamInit PROVE NightInv
    OBVIOUS
  <2>1. DOMAIN entries = {}
    BY DEF DreamInit
  <2>2. EntriesAreClean(entries)
    BY <2>1, FS_EmptySet DEF EntriesAreClean
  <2> QED
    BY <2>2 DEF DreamInit, NightInv, ExportGoes, CorpusIsOf, NoExport
<1>2. NightInv /\ [DreamNext]_dreamVars => NightInv'
  <2>1. NightInv /\ UNCHANGED dreamVars => NightInv'
    BY DEF NightInv, dreamVars
  <2> QED
    BY <2>1, DreamStep
<1>3. NightInv => CorpusIsWhole
  <2> SUFFICES ASSUME NightInv, corpus # NoCorpus PROVE CorpusIsWhole
    BY DEF CorpusIsWhole
  <2> DEFINE n == Len(basis)
             firsts == {i \in DOMAIN basis : \A j \in 1..i - 1 : Digest[basis[j]] # Digest[basis[i]]}
  <2>1. basis \in Seq(Clean) /\ IsWritten(corpus.pairs, basis, n)
    BY DEF NightInv, CorpusIsOf
  <2>2. n \in Nat /\ DOMAIN basis = 1..n /\ \A i \in 1..n : basis[i] \in Clean
    BY <2>1
  <2>3. firsts = Upto(basis, n)
    BY <2>2 DEF Upto
  <2>4. ASSUME NEW i \in firsts
        PROVE  corpus.pairs[Cardinality({j \in firsts : j <= i})] = basis[i]
    <3>1. {j \in firsts : j <= i} = Upto(basis, i)
      BY <2>2, <2>4 DEF Upto
    <3>2. corpus.pairs[Cardinality(Upto(basis, i))] = basis[i]
      BY <2>1, <2>3, <2>4 DEF IsWritten
    <3> QED
      BY <3>1, <3>2
  <2>5. BlankPair \notin {basis[i] : i \in DOMAIN basis}
    BY <2>2 DEF Clean
  <2>6. Len(corpus.pairs) = Cardinality(firsts)
    BY <2>1, <2>3 DEF IsWritten
  <2> QED
    BY <2>4, <2>5, <2>6 DEF CorpusIsWhole
<1> QED
  BY <1>1, <1>2, <1>3, PTL DEF DreamSpec

(* A snapshot in hand, and what the log has of one that was recorded.         *)
Snapshots == [at : Nat, tools : SUBSET Capabilities, skills : SUBSET Capabilities]
Records == [snapshot : Snapshots, new : {Cardinality(C) : C \in SUBSET Capabilities}]
SightInv ==
  /\ taken \in [Recorders -> Snapshots \cup {NoSnapshot}] /\ clockReads \in Nat
  /\ recorded \in Seq(Records) /\ FirstsAreKept

(* What is least is the minimum.                                              *)
LEMMA LeastIs ==
  ASSUME NEW S \in SUBSET Nat, NEW m \in S, \A y \in S : m <= y
  PROVE  Min(S) = m
<1>1. \A x \in S : (\A y \in S : x <= y) => x = m
  OBVIOUS
<1>2. Min(S) \in S /\ \A y \in S : Min(S) <= y
  BY DEF Min
<1> QED
  BY <1>1, <1>2

(* One more record: a name listed before keeps the first record that lists    *)
(* it, and one that was not has the new one for its first.                    *)
LEMMA FirstStays ==
  ASSUME NEW log \in Seq(Records), NEW e \in Records, NEW c
  PROVE  /\ Listing(c, log) # {} =>
              /\ Min(Listing(c, log)) \in DOMAIN log
              /\ Min(Listing(c, Append(log, e))) = Min(Listing(c, log))
         /\ Listing(c, log) = {} /\ c \in e.snapshot.tools \cup e.snapshot.skills =>
              Min(Listing(c, Append(log, e))) = Len(log) + 1
         /\ Listing(c, Append(log, e)) # {} <=>
              Listing(c, log) # {} \/ c \in e.snapshot.tools \cup e.snapshot.skills
<1> DEFINE n == Len(log)
           more == Append(log, e)
           lists == c \in e.snapshot.tools \cup e.snapshot.skills
<1>1. /\ n \in Nat /\ DOMAIN log = 1..n /\ DOMAIN more = 1..(n + 1)
      /\ more[n + 1] = e /\ \A i \in 1..n : more[i] = log[i]
  OBVIOUS
<1>2. 1..(n + 1) = (1..n) \cup {n + 1}
  BY <1>1
<1> HIDE DEF n, more
<1>3. Listing(c, more) = Listing(c, log) \cup (IF lists THEN {n + 1} ELSE {})
  BY <1>1, <1>2 DEF Listing
<1>4. Listing(c, log) \subseteq 1..n /\ Listing(c, log) \in SUBSET Nat /\ Listing(c, more) \in SUBSET Nat
  BY <1>1, <1>2 DEF Listing
<1>5. ASSUME Listing(c, log) # {}
      PROVE  Min(Listing(c, log)) \in DOMAIN log /\ Min(Listing(c, more)) = Min(Listing(c, log))
  <2>1. PICK m \in Listing(c, log) : \A y \in Listing(c, log) : m <= y
    BY <1>4, <1>5, LeastNumber
  <2>2. m \in 1..n /\ m <= n + 1
    BY <1>1, <1>4, <2>1
  <2>3. m \in Listing(c, more) /\ \A y \in Listing(c, more) : m <= y
    BY <1>3, <2>1, <2>2
  <2>4. Min(Listing(c, log)) = m
    BY <1>4, <2>1, LeastIs
  <2>5. Min(Listing(c, more)) = m
    BY <1>4, <2>3, LeastIs
  <2> QED
    BY <1>1, <2>2, <2>4, <2>5
<1>6. ASSUME Listing(c, log) = {}, lists PROVE Min(Listing(c, more)) = n + 1
  <2>1. Listing(c, more) = {n + 1}
    BY <1>3, <1>6
  <2> QED
    BY <1>1, <1>4, <2>1, LeastIs
<1>7. Listing(c, more) # {} <=> Listing(c, log) # {} \/ lists
  BY <1>3
<1> QED
  BY <1>5, <1>6, <1>7 DEF n, more

(* A recorded snapshot keeps the first sights.                                *)
LEMMA RecordStep ==
  ASSUME SightInv, NEW r \in Recorders, RecordSnapshot(r)
  PROVE  SightInv'
<1> DEFINE s == taken[r]
           all == s.tools \cup s.skills
           new == all \ DOMAIN capabilities
           e == [snapshot |-> s, new |-> Cardinality(new)]
           n == Len(recorded)
<1>1. s \in Snapshots
  BY DEF RecordSnapshot, SightInv
<1>2. all \in SUBSET Capabilities /\ new \in SUBSET Capabilities /\ e.snapshot = s /\ e.new = Cardinality(new)
  BY <1>1 DEF Snapshots
<1>3. e \in Records
  <2>1. Cardinality(new) \in {Cardinality(C) : C \in SUBSET Capabilities}
    BY <1>2
  <2> HIDE DEF new, s
  <2> QED
    BY <1>1, <2>1 DEF Records
<1>4. capabilities' = Inserted(capabilities, s) /\ recorded' = Append(recorded, e)
  BY DEF RecordSnapshot
<1>5. recorded \in Seq(Records) /\ FirstsAreKept
  BY DEF SightInv
<1>6. /\ n \in Nat /\ DOMAIN recorded = 1..n /\ DOMAIN recorded' = 1..(n + 1)
      /\ recorded'[n + 1] = e /\ \A i \in 1..n : recorded'[i] = recorded[i]
      /\ recorded' \in Seq(Records)
  <2> HIDE DEF e
  <2> QED
    BY <1>3, <1>4, <1>5
<1> HIDE DEF e, n, s
<1>7. /\ DOMAIN capabilities' = DOMAIN capabilities \cup all
      /\ \A c \in DOMAIN capabilities : capabilities'[c] = capabilities[c]
      /\ \A c \in new : capabilities'[c].at = s.at
                        /\ (capabilities'[c].kind = "tool" <=> c \in s.tools)
  <2>1. capabilities' = [c \in DOMAIN capabilities \cup s.tools \cup s.skills |->
           IF c \in DOMAIN capabilities THEN capabilities[c]
           ELSE [kind |-> IF c \in s.tools THEN "tool" ELSE "skill", at |-> s.at]]
    BY <1>4 DEF Inserted
  <2>2. DOMAIN capabilities' = DOMAIN capabilities \cup all
    BY <2>1
  <2>3. ASSUME NEW c \in DOMAIN capabilities PROVE capabilities'[c] = capabilities[c]
    BY <2>1, <2>3
  <2>4. ASSUME NEW c \in new
        PROVE  capabilities'[c].at = s.at /\ (capabilities'[c].kind = "tool" <=> c \in s.tools)
    <3>1. capabilities'[c] = [kind |-> IF c \in s.tools THEN "tool" ELSE "skill", at |-> s.at]
      BY <2>1, <2>4
    <3> QED
      BY <3>1
  <2> QED
    BY <2>2, <2>3, <2>4
<1>8. DOMAIN capabilities = {c \in Capabilities : Listing(c, recorded) # {}}
  BY <1>5 DEF FirstsAreKept
<1>9. ASSUME NEW c
      PROVE  /\ Listing(c, recorded) # {} =>
                  /\ Min(Listing(c, recorded)) \in 1..n
                  /\ Min(Listing(c, recorded')) = Min(Listing(c, recorded))
             /\ Listing(c, recorded) = {} /\ c \in all => Min(Listing(c, recorded')) = n + 1
             /\ Listing(c, recorded') # {} <=> Listing(c, recorded) # {} \/ c \in all
  BY <1>2, <1>3, <1>4, <1>5, <1>6, FirstStays DEF n
<1>10. DOMAIN capabilities' = {c \in Capabilities : Listing(c, recorded') # {}}
  <2> HIDE DEF all, new
  <2> QED
    BY <1>2, <1>7, <1>8, <1>9
<1>11. ASSUME NEW c \in DOMAIN capabilities'
       PROVE  LET first == recorded'[Min(Listing(c, recorded'))].snapshot
              IN /\ capabilities'[c].at = first.at
                 /\ capabilities'[c].kind = "tool" <=> c \in first.tools
  <2>1. CASE c \in DOMAIN capabilities
    <3>1. Min(Listing(c, recorded)) \in 1..n /\ Min(Listing(c, recorded')) = Min(Listing(c, recorded))
      BY <1>8, <1>9, <2>1
    <3>2. recorded'[Min(Listing(c, recorded'))] = recorded[Min(Listing(c, recorded))]
      BY <1>6, <3>1
    <3>3. capabilities'[c] = capabilities[c]
      BY <1>7, <2>1
    <3> QED
      BY <1>5, <2>1, <3>2, <3>3 DEF FirstsAreKept
  <2>2. CASE c \notin DOMAIN capabilities
    <3>1. c \in new /\ c \in all
      BY <1>7, <1>11, <2>2
    <3>2. Listing(c, recorded) = {}
      BY <1>2, <1>8, <2>2, <3>1
    <3>3. Min(Listing(c, recorded')) = n + 1
      BY <1>9, <3>1, <3>2
    <3>4. recorded'[Min(Listing(c, recorded'))].snapshot = s
      BY <1>2, <1>6, <3>3
    <3>5. capabilities'[c].at = s.at /\ (capabilities'[c].kind = "tool" <=> c \in s.tools)
      BY <1>7, <3>1
    <3> QED
      BY <3>4, <3>5
  <2> QED
    BY <2>1, <2>2
<1>12. ASSUME NEW i \in DOMAIN recorded'
       PROVE  recorded'[i].new =
                Cardinality({c \in DOMAIN capabilities' : Min(Listing(c, recorded')) = i})
  <2>1. \A c \in DOMAIN capabilities :
          Min(Listing(c, recorded)) \in 1..n /\ Min(Listing(c, recorded')) = Min(Listing(c, recorded))
    BY <1>8, <1>9
  <2>2. \A c \in DOMAIN capabilities' :
          c \notin DOMAIN capabilities => c \in new /\ Min(Listing(c, recorded')) = n + 1
    <3> SUFFICES ASSUME NEW c \in DOMAIN capabilities', c \notin DOMAIN capabilities
                 PROVE  c \in new /\ Min(Listing(c, recorded')) = n + 1
      OBVIOUS
    <3>1. c \in new /\ c \in all
      BY <1>7
    <3>2. Listing(c, recorded) = {}
      BY <1>2, <1>8, <3>1
    <3> QED
      BY <1>9, <3>1, <3>2
  <2>3. CASE i = n + 1
    <3>1. {c \in DOMAIN capabilities' : Min(Listing(c, recorded')) = i} = new
      <4>1. n + 1 \notin 1..n
        BY <1>6
      <4>2. \A c \in new : c \in DOMAIN capabilities' /\ c \notin DOMAIN capabilities
        BY <1>7
      <4> HIDE DEF new, all
      <4> QED
        BY <2>1, <2>2, <2>3, <4>1, <4>2
    <3> QED
      BY <1>2, <1>6, <2>3, <3>1
  <2>4. CASE i # n + 1
    <3>1. i \in 1..n
      BY <1>6, <1>12, <2>4
    <3>2. DOMAIN capabilities \subseteq DOMAIN capabilities'
      BY <1>7
    <3>3. {c \in DOMAIN capabilities' : Min(Listing(c, recorded')) = i}
            = {c \in DOMAIN capabilities : Min(Listing(c, recorded)) = i}
      BY <2>1, <2>2, <2>4, <3>2
    <3>4. recorded[i].new = Cardinality({c \in DOMAIN capabilities : Min(Listing(c, recorded)) = i})
      BY <1>5, <1>6, <3>1 DEF FirstsAreKept
    <3> QED
      BY <1>6, <3>1, <3>3, <3>4
  <2> QED
    BY <2>3, <2>4
<1>13. FirstsAreKept'
  BY <1>10, <1>11, <1>12 DEF FirstsAreKept
<1>14. taken' \in [Recorders -> Snapshots \cup {NoSnapshot}] /\ clockReads' \in Nat
  BY DEF RecordSnapshot, SightInv
<1> QED
  BY <1>6, <1>13, <1>14 DEF SightInv

(* The log has the first sight of every capability.                           *)
LEMMA SightsStayFirst == CapabilitySpec => []FirstsAreKept
<1>1. CapabilityInit => SightInv
  <2> SUFFICES ASSUME CapabilityInit PROVE SightInv
    OBVIOUS
  <2>1. DOMAIN capabilities = {} /\ recorded = <<>> /\ DOMAIN recorded = {}
    BY DEF CapabilityInit
  <2>2. \A c : Listing(c, recorded) = {}
    BY <2>1 DEF Listing
  <2>3. FirstsAreKept
    BY <2>1, <2>2 DEF FirstsAreKept
  <2> QED
    BY <2>3 DEF CapabilityInit, SightInv
<1>2. FirstsAreKept /\ UNCHANGED <<capabilities, recorded>> => FirstsAreKept'
  BY DEF FirstsAreKept
<1>3. SightInv /\ [CapabilityNext]_capabilityVars => SightInv'
  <2> SUFFICES ASSUME SightInv, [CapabilityNext]_capabilityVars PROVE SightInv'
    OBVIOUS
  <2>1. ASSUME NEW r \in Recorders, TakeSnapshot(r) PROVE SightInv'
    <3>1. PICK tools \in SUBSET Capabilities, skills \in SUBSET Capabilities :
            taken' = [taken EXCEPT ![r] = [at |-> clockReads + 1, tools |-> tools, skills |-> skills]]
      BY <2>1 DEF TakeSnapshot
    <3>2. clockReads' \in Nat /\ clockReads + 1 \in Nat
      BY <2>1 DEF TakeSnapshot, SightInv
    <3>3. [at |-> clockReads + 1, tools |-> tools, skills |-> skills] \in Snapshots
      BY <3>2 DEF Snapshots
    <3>4. taken' \in [Recorders -> Snapshots \cup {NoSnapshot}]
      BY <3>1, <3>3 DEF SightInv
    <3>5. UNCHANGED <<capabilities, recorded>>
      BY <2>1 DEF TakeSnapshot
    <3> QED
      BY <1>2, <3>2, <3>4, <3>5 DEF SightInv
  <2>2. ASSUME NEW r \in Recorders, RecordSnapshot(r) PROVE SightInv'
    BY <2>2, RecordStep
  <2>3. ASSUME NEW r \in Recorders, LosesSnapshot(r) PROVE SightInv'
    <3>1. taken' \in [Recorders -> Snapshots \cup {NoSnapshot}]
      BY <2>3 DEF LosesSnapshot, SightInv
    <3> QED
      BY <1>2, <2>3, <3>1 DEF LosesSnapshot, SightInv
  <2>4. CASE UNCHANGED capabilityVars
    BY <1>2, <2>4 DEF capabilityVars, SightInv
  <2> QED
    BY <2>1, <2>2, <2>3, <2>4 DEF CapabilityNext
<1>4. SightInv => FirstsAreKept
  BY DEF SightInv
<1> QED
  BY <1>1, <1>3, <1>4, PTL DEF CapabilitySpec

(* Whatever dreams, exports and crashes go on together, for any number of     *)
(* them: the corpus on disk is whole, and every capability is logged with its *)
(* first sight and counted as new once (NightsAreKept).                       *)
THEOREM NightsStayKept == DreamSpec /\ CapabilitySpec => []NightsAreKept
<1>1. CorpusIsWhole /\ FirstsAreKept => NightsAreKept
  BY DEF NightsAreKept
<1> QED
  BY <1>1, CorpusStaysWhole, SightsStayFirst, PTL
-----------------------------------------------------------------------------
(* The scrubber of streamed text.                                             *)

(* The characters; those of the tags are named for the provers, which do not  *)
(* know them to be strings.                                                   *)
Chars == STRING \cup {"<", "/", ">", "m", "c"}

(* sub is in text at the i-th place, and ends before what comes behind the    *)
(* m-th.                                                                      *)
Occurs(text, sub, i, m) ==
  i + Len(sub) - 1 <= m /\ \A j \in 1..Len(sub) : text[i + j - 1] = sub[j]

(* c is what is clear of text from each place on, when text ends at m.        *)
SpanLeaves(v, c, text, awaited, i, m) ==
  /\ (\A k \in Nat : i <= k => ~Occurs(text, awaited, k, m)) => v = <<>>
  /\ \A k \in Nat :
       i <= k /\ Occurs(text, awaited, k, m) /\ (\A l \in i..(k - 1) : ~Occurs(text, awaited, l, m)) =>
         v = c[k + Len(awaited)]
Clears(c, text, m) ==
  /\ c \in [1..(m + 1) -> Seq(Chars)] /\ c[m + 1] = <<>>
  /\ \A i \in 1..m :
       /\ (\A t \in Tags : ~Occurs(text, Opener(t), i, m)) => c[i] = <<text[i]>> \o c[i + 1]
       /\ \A t \in Tags : Occurs(text, Opener(t), i, m) =>
            SpanLeaves(c[i], c, text, Closer(t), i + Len(Opener(t)), m)

(* The characters of a tag.                                                   *)
LEMMA TagIs ==
  ASSUME NEW p \in Seq(Chars), NEW t \in Seq(Chars), NEW s, s = p \o t \o <<">">>
  PROVE  /\ s \in Seq(Chars) /\ Len(s) = Len(p) + Len(t) + 1
         /\ \A i \in 1..Len(p) : s[i] = p[i]
         /\ \A i \in 1..Len(t) : s[Len(p) + i] = t[i]
         /\ s[Len(p) + Len(t) + 1] = ">"
<1>0. PICK q, e : q = p \o t /\ e = <<">">>
  OBVIOUS
<1>1. Len(p) \in Nat /\ Len(t) \in Nat /\ e \in Seq(Chars) /\ Len(e) = 1 /\ e[1] = ">"
  BY <1>0 DEF Chars
<1>2. /\ q \in Seq(Chars) /\ Len(q) = Len(p) + Len(t)
      /\ \A i \in 1..(Len(p) + Len(t)) : q[i] = IF i <= Len(p) THEN p[i] ELSE t[i - Len(p)]
  BY <1>0, ConcatProperties
<1>3. /\ q \o e \in Seq(Chars) /\ Len(q \o e) = Len(q) + Len(e)
      /\ \A i \in 1..(Len(q) + Len(e)) : (q \o e)[i] = IF i <= Len(q) THEN q[i] ELSE e[i - Len(q)]
  <2>1. q \in Seq(Chars) /\ e \in Seq(Chars)
    BY <1>1, <1>2
  <2> QED
    BY <2>1, ConcatProperties
<1>4. s = q \o e
  BY <1>0
<1>5. /\ s \in Seq(Chars) /\ Len(s) = Len(p) + Len(t) + 1
      /\ \A i \in 1..(Len(p) + Len(t)) : s[i] = IF i <= Len(p) THEN p[i] ELSE t[i - Len(p)]
      /\ s[Len(p) + Len(t) + 1] = ">"
  BY <1>1, <1>2, <1>3, <1>4
<1>6. \A i \in 1..Len(p) : s[i] = p[i]
  BY <1>1, <1>5
<1>7. ASSUME NEW i \in 1..Len(t) PROVE s[Len(p) + i] = t[i]
  <2>1. Len(p) + i \in 1..(Len(p) + Len(t)) /\ ~(Len(p) + i <= Len(p)) /\ (Len(p) + i) - Len(p) = i
    BY <1>1
  <2> QED
    BY <1>5, <2>1
<1> QED
  BY <1>5, <1>6, <1>7

(* The tags: an opening one has one bracket, its first character; the second  *)
(* one says which it is.                                                      *)
LEMMA TagsAre ==
  ASSUME NEW t \in Tags
  PROVE  /\ Opener(t) \in Seq(Chars) /\ Len(Opener(t)) \in 3..4
         /\ Opener(t)[1] = "<" /\ \A j \in 2..Len(Opener(t)) : Opener(t)[j] # "<"
         /\ Opener(t)[2] = t[1]
         /\ Closer(t) \in Seq(Chars) /\ Len(Closer(t)) \in 4..5
<1>0. PICK o, c : o = <<"<">> /\ c = <<"<", "/">>
  OBVIOUS
<1>1. /\ o \in Seq(Chars) /\ Len(o) = 1 /\ o[1] = "<"
      /\ c \in Seq(Chars) /\ Len(c) = 2
  BY <1>0 DEF Chars
<1>2. t \in Seq(Chars) /\ Len(t) \in 1..2 /\ \A i \in 1..Len(t) : t[i] # "<"
  <2>1. CASE t = <<"m", "c">>
    <3>1. t \in Seq(Chars) /\ Len(t) = 2 /\ t[1] # "<" /\ t[2] # "<"
      BY <2>1 DEF Chars
    <3>2. 1..2 = {1, 2}
      OBVIOUS
    <3> QED
      BY <3>1, <3>2
  <2>2. CASE t = <<"c">>
    <3>1. t \in Seq(Chars) /\ Len(t) = 1 /\ t[1] # "<"
      BY <2>2 DEF Chars
    <3>2. 1..1 = {1}
      OBVIOUS
    <3> QED
      BY <3>1, <3>2
  <2> QED
    BY <2>1, <2>2 DEF Tags
<1>3. Opener(t) = o \o t \o <<">">> /\ Closer(t) = c \o t \o <<">">>
  BY <1>0 DEF Opener, Closer
<1>4. Closer(t) \in Seq(Chars) /\ Len(Closer(t)) = Len(c) + Len(t) + 1
  <2>1. PICK e : e = Closer(t)
    OBVIOUS
  <2>2. c \in Seq(Chars)
    BY <1>1
  <2>3. t \in Seq(Chars)
    BY <1>2
  <2>4. e = c \o t \o <<">">>
    BY <1>3, <2>1
  <2>5. e \in Seq(Chars)
    BY <2>2, <2>3, <2>4, TagIs
  <2>6. Len(e) = Len(c) + Len(t) + 1
    BY <2>2, <2>3, <2>4, TagIs
  <2> QED
    BY <2>1, <2>5, <2>6
<1>5. PICK s, n : s = Opener(t) /\ n = Len(t)
  OBVIOUS
<1>6. /\ s \in Seq(Chars) /\ n \in 1..2 /\ Len(s) = n + 2 /\ s[1] = "<" /\ s[n + 2] = ">"
      /\ \A i \in 1..n : s[1 + i] = t[i]
  <2>1. o \in Seq(Chars) /\ t \in Seq(Chars) /\ s = o \o t \o <<">">>
    BY <1>1, <1>2, <1>3, <1>5
  <2>2. s \in Seq(Chars) /\ Len(s) = Len(o) + Len(t) + 1
    BY <2>1, TagIs
  <2>3. \A i \in 1..Len(o) : s[i] = o[i]
    BY <2>1, TagIs
  <2>4. \A i \in 1..Len(t) : s[Len(o) + i] = t[i]
    BY <2>1, TagIs
  <2>5. s[Len(o) + Len(t) + 1] = ">"
    BY <2>1, TagIs
  <2> QED
    BY <1>1, <1>2, <1>5, <2>2, <2>3, <2>4, <2>5
<1>7. ASSUME NEW j \in 2..Len(s) PROVE s[j] # "<"
  <2>1. CASE j = n + 2
    BY <1>6, <2>1
  <2>2. CASE j # n + 2
    <3>1. j - 1 \in 1..n /\ 1 + (j - 1) = j
      BY <1>6, <1>7, <2>2
    <3>2. s[j] = t[j - 1]
      BY <1>6, <3>1
    <3> QED
      BY <1>2, <1>5, <3>1, <3>2
  <2> QED
    BY <2>1, <2>2
<1>8. s[2] = t[1]
  <2>1. 1 \in 1..n /\ 1 + 1 = 2
    BY <1>6
  <2> QED
    BY <1>6, <2>1
<1>9. Len(s) \in 3..4 /\ Len(Closer(t)) \in 4..5
  <2>1. n \in 1..2 /\ Len(s) = n + 2
    BY <1>6
  <2>2. Len(Closer(t)) = 2 + n + 1
    BY <1>1, <1>4, <1>5
  <2> QED
    BY <2>1, <2>2
<1> QED
  BY <1>4, <1>5, <1>6, <1>7, <1>8, <1>9

\* The first character tells the tags apart.
LEMMA TagsDiffer ==
  ASSUME NEW t \in Tags, NEW u \in Tags, t[1] = u[1]
  PROVE  t = u
<1> DEFINE a == <<"m", "c">>
           b == <<"c">>
<1>1. Tags = {a, b}
  BY DEF Tags
<1>2. a[1] = "m" /\ b[1] = "c"
  OBVIOUS
<1> HIDE DEF a, b
<1> QED
  BY <1>1, <1>2

\* At most one tag opens at a place.
LEMMA OneTagOpens ==
  ASSUME NEW text, NEW i \in Nat, NEW m \in Nat, NEW t \in Tags, NEW u \in Tags,
         Occurs(text, Opener(t), i, m), Occurs(text, Opener(u), i, m)
  PROVE  t = u
<1>1. ASSUME NEW v \in Tags, Occurs(text, Opener(v), i, m) PROVE text[i + 1] = v[1]
  <2>1. Len(Opener(v)) \in 3..4 /\ Opener(v)[2] = v[1]
    BY TagsAre
  <2>2. 2 \in 1..Len(Opener(v)) /\ i + 2 - 1 = i + 1
    BY <2>1
  <2>3. text[i + 2 - 1] = Opener(v)[2]
    BY <1>1, <2>2 DEF Occurs
  <2> QED
    BY <2>1, <2>2, <2>3
<1>2. t[1] = u[1]
  BY <1>1
<1> QED
  BY <1>2, TagsDiffer

\* The longest opening tag has four characters.
LEMMA KeepIsFour == MaxPartialKeep = 4
<1> DEFINE L == {Len(Opener(t)) : t \in Tags}
<1>1. L = {4, 3}
  <2>0. PICK a, b, o : a = <<"m", "c">> /\ b = <<"c">> /\ o = <<"<">>
    OBVIOUS
  <2>1. a \in Seq(Chars) /\ Len(a) = 2 /\ b \in Seq(Chars) /\ Len(b) = 1 /\ o \in Seq(Chars) /\ Len(o) = 1
    BY <2>0 DEF Chars
  <2>2. Opener(a) = o \o a \o <<">">> /\ Opener(b) = o \o b \o <<">">>
    BY <2>0 DEF Opener
  <2>3. Tags = {a, b}
    BY <2>0 DEF Tags
  <2>4. Len(Opener(a)) = 4 /\ Len(Opener(b)) = 3
    <3>1. a \in Seq(Chars) /\ b \in Seq(Chars) /\ o \in Seq(Chars)
      BY <2>1
    <3>2. Len(Opener(a)) = Len(o) + Len(a) + 1
      BY <2>2, <3>1, TagIs
    <3>3. Len(Opener(b)) = Len(o) + Len(b) + 1
      BY <2>2, <3>1, TagIs
    <3> QED
      BY <2>1, <3>2, <3>3
  <2> QED
    BY <2>3, <2>4
<1>2. MaxPartialKeep = Max({4, 3})
  BY <1>1 DEF MaxPartialKeep
<1> QED
  BY <1>2, GreatestIs

\* What it is to be a prefix, character by character.
LEMMA PrefixIs ==
  ASSUME NEW sub \in Seq(Chars), NEW s \in Seq(Chars)
  PROVE  IsPrefix(sub, s) <=> Len(sub) <= Len(s) /\ \A j \in 1..Len(sub) : s[j] = sub[j]
<1>1. SubSeq(sub, 1, Len(sub)) = sub
  BY SubSeqFull
<1>2. CASE Len(sub) <= Len(s)
  <2> DEFINE p == SubSeq(s, 1, Len(sub))
  <2>1. Len(sub) \in Nat /\ Len(s) \in Nat /\ \A i \in 1..Len(s) : s[i] \in Chars
    OBVIOUS
  <2>2. p \in Seq(Chars) /\ Len(p) = Len(sub) /\ \A j \in 1..Len(sub) : p[j] = s[j]
    <3>1. \A i \in 1..Len(sub) : s[i] \in Chars
      BY <1>2, <2>1
    <3>2. /\ p \in Seq(Chars)
          /\ Len(p) = IF 1 <= Len(sub) THEN Len(sub) - 1 + 1 ELSE 0
          /\ \A j \in 1..Len(sub) - 1 + 1 : p[j] = s[1 + j - 1]
      BY <2>1, <3>1, SubSeqProperties
    <3> HIDE DEF p
    <3> QED
      BY <2>1, <3>2
  <2> HIDE DEF p
  <2>3. p = sub <=> \A j \in 1..Len(sub) : p[j] = sub[j]
    BY <2>2, SeqEqual
  <2>4. IsPrefix(sub, s) <=> sub = p
    BY <1>1, <1>2 DEF IsPrefix, p
  <2> QED
    BY <1>2, <2>2, <2>3, <2>4
<1>3. CASE ~(Len(sub) <= Len(s))
  BY <1>3 DEF IsPrefix
<1> QED
  BY <1>2, <1>3

\* The rest of a text from a place on.
LEMMA FromIs ==
  ASSUME NEW s \in Seq(Chars), NEW x \in 1..(Len(s) + 1)
  PROVE  /\ From(s, x) \in Seq(Chars) /\ Len(From(s, x)) = Len(s) - x + 1
         /\ \A j \in 1..(Len(s) - x + 1) : From(s, x)[j] = s[x + j - 1]
<1>1. Len(s) \in Nat /\ x \in Int /\ \A i \in x..Len(s) : s[i] \in Chars
  OBVIOUS
<1>2. /\ From(s, x) \in Seq(Chars)
      /\ Len(From(s, x)) = IF x <= Len(s) THEN Len(s) - x + 1 ELSE 0
      /\ \A j \in 1..Len(s) - x + 1 : From(s, x)[j] = s[x + j - 1]
  BY <1>1, SubSeqProperties DEF From
<1> QED
  BY <1>1, <1>2

(* Where a tag begins in the rest of a text.                                  *)
LEMMA BeginsWhere ==
  ASSUME NEW s \in Seq(Chars), NEW x \in 1..(Len(s) + 1), NEW sub \in Seq(Chars)
  PROVE  IsPrefix(sub, From(s, x)) <=> Occurs(s, sub, x, Len(s))
<1> DEFINE r == From(s, x)
<1>1. r \in Seq(Chars) /\ Len(r) = Len(s) - x + 1 /\ \A j \in 1..(Len(s) - x + 1) : r[j] = s[x + j - 1]
  BY FromIs
<1> HIDE DEF r
<1>2. IsPrefix(sub, r) <=> Len(sub) <= Len(r) /\ \A j \in 1..Len(sub) : r[j] = sub[j]
  BY <1>1, PrefixIs
<1>3. Len(sub) \in Nat /\ Len(s) \in Nat /\ x \in Nat
  OBVIOUS
<1>4. Len(sub) <= Len(r) <=> x + Len(sub) - 1 <= Len(s)
  BY <1>1, <1>3
<1>5. Len(sub) <= Len(r) => \A j \in 1..Len(sub) : r[j] = s[x + j - 1]
  BY <1>1, <1>3
<1> QED
  BY <1>2, <1>4, <1>5 DEF Occurs, r

(* The functions on places that look ahead, and that there is one.            *)
Ahead(R, n, a, Stop, nx, g) ==
  {c \in [1..(n + 1) -> R] :
     \A i \in 1..(n + 1) : c[i] = IF i \in Stop THEN a ELSE g[<<i, c[nx[i]]>>]}

LEMMA LooksAhead ==
  ASSUME NEW R, NEW n \in Nat, NEW a \in R, NEW Stop, n + 1 \in Stop,
         NEW nx \in [1..n -> Nat], \A i \in 1..n : nx[i] \in (i + 1)..(n + 1),
         NEW g \in [(1..n) \X R -> R]
  PROVE  Ahead(R, n, a, Stop, nx, g) # {}
<1> DEFINE Dom(k) == (n + 1 - k)..(n + 1)
           Goes(h, k) == \A i \in Dom(k) : h[i] = IF i \in Stop THEN a ELSE g[<<i, h[nx[i]]>>]
           Has(k) == \E h \in [Dom(k) -> R] : Goes(h, k)
           S == {k \in 0..n : Has(k)}
<1>1. Has(0)
  <2>1. PICK h : h = [i \in Dom(0) |-> a]
    OBVIOUS
  <2>2. h \in [Dom(0) -> R] /\ \A i \in Dom(0) : i = n + 1 /\ h[i] = a
    BY <2>1
  <2>3. Goes(h, 0)
    BY <2>2
  <2> QED
    BY <2>2, <2>3
<1>2. ASSUME NEW k \in 0..n, Has(k), k + 1 <= n PROVE Has(k + 1)
  <2>1. PICK h \in [Dom(k) -> R] : Goes(h, k)
    BY <1>2
  <2>2. PICK p \in 1..n : p = n - k
    BY <1>2
  <2>3. /\ Dom(k) = (p + 1)..(n + 1) /\ Dom(k + 1) = p..(n + 1)
        /\ \A i \in p..(n + 1) : i = p \/ i \in (p + 1)..(n + 1)
        /\ p \notin (p + 1)..(n + 1)
        /\ \A i \in p..n : nx[i] \in (p + 1)..(n + 1)
    <3>1. n + 1 - k = p + 1 /\ n + 1 - (k + 1) = p
      BY <1>2, <2>2
    <3>2. Dom(k) = (p + 1)..(n + 1) /\ Dom(k + 1) = p..(n + 1)
      BY <3>1
    <3>3. ASSUME NEW i \in p..n PROVE nx[i] \in (p + 1)..(n + 1)
      <4>1. i \in 1..n /\ nx[i] \in (i + 1)..(n + 1)
        BY <3>3
      <4> QED
        BY <3>3, <4>1
    <3> QED
      BY <3>2, <3>3
  <2>4. PICK f : f = [i \in p..(n + 1) |->
                        IF i # p THEN h[i] ELSE IF i \in Stop THEN a ELSE g[<<i, h[nx[i]]>>]]
    OBVIOUS
  <2>5. ASSUME NEW i \in p..(n + 1) PROVE f[i] \in R
    <3>1. CASE i = p
      <4>1. p \in p..n
        OBVIOUS
      <4>2. nx[p] \in (p + 1)..(n + 1)
        BY <2>3, <4>1
      <4>3. h[nx[p]] \in R
        BY <2>3, <4>2
      <4>4. <<p, h[nx[p]]>> \in (1..n) \X R
        BY <4>3
      <4> QED
        BY <2>4, <3>1, <4>4
    <3>2. CASE i # p
      BY <2>3, <2>4, <3>2
    <3> QED
      BY <3>1, <3>2
  <2>6. ASSUME NEW i \in p..(n + 1)
        PROVE  f[i] = IF i \in Stop THEN a ELSE g[<<i, f[nx[i]]>>]
    <3>1. CASE i = n + 1
      <4>1. i # p /\ i \in (p + 1)..(n + 1)
        BY <3>1
      <4>2. f[i] = h[i]
        BY <2>4, <4>1
      <4>3. h[i] = a
        BY <2>1, <2>3, <3>1, <4>1
      <4> QED
        BY <3>1, <4>2, <4>3
    <3>2. CASE i # n + 1
      <4>1. i \in p..n
        BY <3>2
      <4>2. nx[i] \in (p + 1)..(n + 1) /\ nx[i] \in p..(n + 1) /\ nx[i] # p
        <5>1. nx[i] \in (p + 1)..(n + 1)
          BY <2>3, <4>1
        <5> QED
          BY <5>1
      <4>3. f[nx[i]] = h[nx[i]]
        BY <2>4, <4>2
      <4>4. CASE i = p
        BY <2>4, <4>3, <4>4
      <4>5. CASE i # p
        <5>1. i \in (p + 1)..(n + 1) /\ f[i] = h[i]
          BY <2>3, <2>4, <4>5
        <5>2. h[i] = IF i \in Stop THEN a ELSE g[<<i, h[nx[i]]>>]
          BY <2>1, <2>3, <5>1
        <5> QED
          BY <4>3, <5>1, <5>2
      <4> QED
        BY <4>4, <4>5
    <3> QED
      BY <3>1, <3>2
  <2>7. f \in [Dom(k + 1) -> R]
    BY <2>3, <2>4, <2>5
  <2>8. Goes(f, k + 1)
    BY <2>3, <2>6
  <2> QED
    BY <2>7, <2>8
<1> HIDE DEF Has
<1>3. 0 \in S /\ \A k \in 0..n : k \in S /\ k + 1 <= n => k + 1 \in S
  BY <1>1, <1>2
<1> HIDE DEF S
<1>4. n \in S
  <2>1. 0..n \subseteq S
    BY <1>3, StepByStep
  <2> QED
    BY <2>1
<1>5. Has(n)
  BY <1>4 DEF S
<1>6. Dom(n) = 1..(n + 1)
  OBVIOUS
<1> QED
  BY <1>5, <1>6 DEF Has, Ahead

\* FindIn finds the places where sub occurs.
LEMMA FoundWhere ==
  ASSUME NEW s \in Seq(Chars), NEW sub \in Seq(Chars), Len(sub) >= 1
  PROVE  /\ FindIn(s, sub) = {k \in 1..Len(s) : Occurs(s, sub, k, Len(s))}
         /\ \A k \in Nat : k >= 1 /\ Occurs(s, sub, k, Len(s)) => k \in FindIn(s, sub)
<1>1. Len(s) \in Nat /\ Len(sub) \in Nat
  OBVIOUS
<1>2. ASSUME NEW k \in 1..Len(s) PROVE IsPrefix(sub, SubSeq(s, k, Len(s))) <=> Occurs(s, sub, k, Len(s))
  <2>1. k \in 1..(Len(s) + 1)
    BY <1>1
  <2> QED
    BY <2>1, BeginsWhere DEF From
<1>3. FindIn(s, sub) = {k \in 1..Len(s) : Occurs(s, sub, k, Len(s))}
  BY <1>2 DEF FindIn
<1>4. ASSUME NEW k \in Nat, k >= 1, Occurs(s, sub, k, Len(s)) PROVE k \in 1..Len(s)
  BY <1>1, <1>4 DEF Occurs
<1> QED
  BY <1>3, <1>4

(* What is clear of a text, from each place on.                               *)
LEMMA UnspannedIs ==
  ASSUME NEW s \in Seq(Chars)
  PROVE  \E c : Clears(c, s, Len(s)) /\ Unspanned(s) = c[1]
<1> DEFINE opening(i) == {t \in Tags : StartsWith(t, From(s, i))}
           ends(i, t) == {j + Len(Closer(t)) : j \in
                            {k \in FindIn(s, Closer(t)) : k >= i + Len(Opener(t))}}
           tag(i) == CHOOSE u \in opening(i) : TRUE
           body(F, i) ==
             IF i > Len(s) THEN <<>> ELSE
             IF opening(i) = {} THEN <<s[i]>> \o F[i + 1]
             ELSE IF ends(i, tag(i)) = {} THEN <<>> ELSE F[Min(ends(i, tag(i)))]
           Is(F) == F = [i \in 1..(Len(s) + 1) |-> body(F, i)]
           f == CHOOSE F : Is(F)
<1>1. Unspanned(s) = f[1]
  BY Zenon DEF Unspanned
<1>2. PICK n \in Nat : n = Len(s)
  OBVIOUS
<1>3. ASSUME NEW i \in 1..n, NEW t \in Tags
      PROVE  t \in opening(i) <=> Occurs(s, Opener(t), i, n)
  <2>1. Opener(t) \in Seq(Chars) /\ i \in 1..(Len(s) + 1)
    BY <1>2, TagsAre
  <2>2. IsPrefix(Opener(t), From(s, i)) <=> Occurs(s, Opener(t), i, Len(s))
    BY <2>1, BeginsWhere
  <2> QED
    BY <1>2, <2>2 DEF StartsWith
<1>4. ASSUME NEW i \in 1..n, NEW t \in Tags, Occurs(s, Opener(t), i, n)
      PROVE  opening(i) = {t} /\ tag(i) = t
  <2>1. t \in opening(i)
    BY <1>3, <1>4
  <2>2. ASSUME NEW u \in opening(i) PROVE u = t
    <3>1. u \in Tags /\ Occurs(s, Opener(u), i, n)
      BY <1>3, <2>2
    <3> QED
      BY <1>4, <3>1, OneTagOpens
  <2>3. opening(i) = {t}
    BY <2>1, <2>2
  <2> HIDE DEF opening
  <2> QED
    BY <2>3
<1>5. ASSUME NEW t \in Tags
      PROVE  /\ FindIn(s, Closer(t)) = {k \in 1..n : Occurs(s, Closer(t), k, n)}
             /\ \A k \in Nat : k >= 1 /\ Occurs(s, Closer(t), k, n) => k \in FindIn(s, Closer(t))
             /\ Len(Opener(t)) \in 3..4 /\ Len(Closer(t)) \in 4..5
  <2>1. Closer(t) \in Seq(Chars) /\ Len(Closer(t)) >= 1 /\ Len(Opener(t)) \in 3..4 /\ Len(Closer(t)) \in 4..5
    BY TagsAre
  <2> QED
    BY <1>2, <2>1, FoundWhere
\* The first closing tag behind an opening one.
<1>6. ASSUME NEW i \in 1..n, NEW t \in Tags, NEW k \in Nat, i + Len(Opener(t)) <= k,
             Occurs(s, Closer(t), k, n),
             \A l \in (i + Len(Opener(t)))..(k - 1) : ~Occurs(s, Closer(t), l, n)
      PROVE  ends(i, t) # {} /\ Min(ends(i, t)) = k + Len(Closer(t))
                /\ k + Len(Closer(t)) \in (i + 1)..(n + 1)
  <2>1. k \in FindIn(s, Closer(t)) /\ k >= i + Len(Opener(t))
    BY <1>5, <1>6
  <2>2. k + Len(Closer(t)) \in ends(i, t)
    BY <2>1
  <2>3. ASSUME NEW x \in ends(i, t) PROVE x \in Nat /\ k + Len(Closer(t)) <= x
    <3>1. PICK j \in FindIn(s, Closer(t)) : j >= i + Len(Opener(t)) /\ x = j + Len(Closer(t))
      BY <2>3
    <3>2. j \in 1..n /\ Occurs(s, Closer(t), j, n)
      BY <1>5, <3>1
    <3>3. ~(j < k)
      BY <1>5, <1>6, <3>1, <3>2
    <3> QED
      BY <1>5, <1>6, <3>1, <3>2, <3>3
  <2>4. k + Len(Closer(t)) \in (i + 1)..(n + 1)
    BY <1>5, <1>6 DEF Occurs
  <2> HIDE DEF ends
  <2>5. ends(i, t) \in SUBSET Nat
    BY <2>3
  <2> QED
    BY <2>2, <2>3, <2>4, <2>5, LeastIs
<1>7. ASSUME NEW i \in 1..n, NEW t \in Tags, ends(i, t) # {}
      PROVE  \E k \in Nat : /\ i + Len(Opener(t)) <= k /\ Occurs(s, Closer(t), k, n)
                            /\ \A l \in (i + Len(Opener(t)))..(k - 1) : ~Occurs(s, Closer(t), l, n)
  <2>1. PICK K \in SUBSET Nat :
          K = {k \in FindIn(s, Closer(t)) : k >= i + Len(Opener(t))}
    <3>1. FindIn(s, Closer(t)) \in SUBSET Nat
      BY <1>5
    <3> QED
      BY <3>1
  <2>2. K # {}
    BY <1>7, <2>1
  <2>3. PICK k \in K : \A y \in K : k <= y
    BY <2>2, LeastNumber
  <2>4. k \in Nat /\ i + Len(Opener(t)) <= k /\ Occurs(s, Closer(t), k, n)
    BY <1>5, <2>1, <2>3
  <2>5. ASSUME NEW l \in (i + Len(Opener(t)))..(k - 1), Occurs(s, Closer(t), l, n) PROVE FALSE
    <3>1. l \in Nat /\ l >= 1 /\ l >= i + Len(Opener(t)) /\ l < k
      BY <1>5, <2>4, <2>5
    <3>2. l \in K
      BY <1>5, <2>1, <2>5, <3>1
    <3> QED
      BY <2>3, <3>1, <3>2
  <2> QED
    BY <2>4, <2>5
<1>p1. PICK Stop : Stop = {i \in 1..(n + 1) : i > n \/ (opening(i) # {} /\ ends(i, tag(i)) = {})}
  BY Zenon
<1>p2. PICK nx : nx = [i \in 1..n |-> IF opening(i) # {} /\ ends(i, tag(i)) # {}
                                      THEN Min(ends(i, tag(i))) ELSE i + 1]
  BY Zenon
<1>p3. PICK R : R = Seq(Chars)
  BY Zenon
<1>p4. PICK g : g = [x \in (1..n) \X R |->
                       IF opening(x[1]) = {} THEN <<s[x[1]]>> \o x[2] ELSE x[2]]
  BY Zenon
<1>8. \A i \in 1..n : nx[i] \in (i + 1)..(n + 1)
  <2> SUFFICES ASSUME NEW i \in 1..n PROVE nx[i] \in (i + 1)..(n + 1)
    OBVIOUS
  <2>1. CASE opening(i) # {} /\ ends(i, tag(i)) # {}
    <3>1. PICK t \in opening(i) : t \in Tags
      BY <2>1
    <3>2. Occurs(s, Opener(t), i, n)
      BY <1>3, <3>1
    <3>3. tag(i) = t
      BY <1>4, <3>1, <3>2
    <3>4. ends(i, t) # {}
      BY <2>1, <3>3
    <3> HIDE DEF ends, opening, tag
    <3>5. Min(ends(i, t)) \in (i + 1)..(n + 1)
      BY <1>6, <1>7, <3>1, <3>4
    <3>6. nx[i] = Min(ends(i, t))
      BY <1>p2, <2>1, <3>3
    <3> QED
      BY <3>5, <3>6
  <2>2. CASE ~(opening(i) # {} /\ ends(i, tag(i)) # {})
    <3> HIDE DEF ends, opening, tag
    <3> QED
      BY <1>p2, <2>2
  <2> QED
    BY <2>1, <2>2
<1>9. g \in [(1..n) \X R -> R] /\ <<>> \in R /\ n + 1 \in Stop
  <2> HIDE DEF ends, opening, tag
  <2>1. ASSUME NEW x \in (1..n) \X R
        PROVE  (IF opening(x[1]) = {} THEN <<s[x[1]]>> \o x[2] ELSE x[2]) \in R
    <3>1. x[2] \in Seq(Chars) /\ s[x[1]] \in Chars
      BY <1>2, <1>p3
    <3>2. <<s[x[1]]>> \in Seq(Chars)
      BY <3>1
    <3>3. <<s[x[1]]>> \o x[2] \in Seq(Chars)
      BY <3>1, <3>2, ConcatProperties
    <3> QED
      BY <1>p3, <3>1, <3>3
  <2> QED
    BY <1>p1, <1>p3, <1>p4, <2>1
<1>10. PICK c \in [1..(n + 1) -> R] :
         \A i \in 1..(n + 1) : c[i] = IF i \in Stop THEN <<>> ELSE g[<<i, c[nx[i]]>>]
  <2>1. PICK none : none = <<>>
    OBVIOUS
  <2>2. none \in R
    BY <1>9, <2>1
  <2>a. g \in [(1..n) \X R -> R]
    BY <1>9
  <2>b. n + 1 \in Stop
    BY <1>9
  <2>c. \A i \in 1..n : nx[i] \in (i + 1)..(n + 1)
    BY <1>8
  <2> HIDE DEF ends, opening, tag, body
  <2>d. nx \in [1..n -> Nat]
    <3>1. \A i \in 1..n : nx[i] \in Nat
      BY <2>c
    <3> QED
      BY <1>p2, <3>1
  <2>3. Ahead(R, n, none, Stop, nx, g) # {}
    BY <2>2, <2>a, <2>b, <2>c, <2>d, LooksAhead
  <2> QED
    BY <2>1, <2>3 DEF Ahead
<1>11. c[n + 1] = <<>>
  <2>1. n + 1 \in 1..(n + 1)
    OBVIOUS
  <2> QED
    BY <1>9, <1>10, <2>1
<1>12. ASSUME NEW i \in 1..n
       PROVE  c[i] = IF i \in Stop THEN <<>> ELSE IF opening(i) = {} THEN <<s[i]>> \o c[nx[i]] ELSE c[nx[i]]
  <2>1. <<i, c[nx[i]]>> \in (1..n) \X R
    BY <1>8, <1>10
  <2>2. g[<<i, c[nx[i]]>>] = IF opening(i) = {} THEN <<s[i]>> \o c[nx[i]] ELSE c[nx[i]]
    <3> HIDE DEF opening
    <3> QED
      BY <1>p4, <2>1
  <2>3. c[i] = IF i \in Stop THEN <<>> ELSE g[<<i, c[nx[i]]>>]
    BY <1>10
  <2> HIDE DEF opening
  <2> QED
    BY <2>2, <2>3
<1>13. ASSUME NEW i \in 1..(n + 1) PROVE c[i] = body(c, i)
  <2> HIDE DEF opening, ends, tag
  <2>1. CASE i = n + 1
    BY <1>2, <1>11, <2>1
  <2>2. CASE i # n + 1
    <3>1. i \in 1..n /\ ~(i > Len(s))
      BY <1>2, <2>2
    <3>2. i \in Stop <=> opening(i) # {} /\ ends(i, tag(i)) = {}
      BY <1>2, <1>p1, <3>1
    <3>3. nx[i] = IF opening(i) # {} /\ ends(i, tag(i)) # {} THEN Min(ends(i, tag(i))) ELSE i + 1
      BY <1>p2, <3>1
    <3>4. c[i] = IF i \in Stop THEN <<>> ELSE IF opening(i) = {} THEN <<s[i]>> \o c[nx[i]] ELSE c[nx[i]]
      BY <1>12, <3>1
    <3> QED
      BY <3>1, <3>2, <3>3, <3>4
  <2> QED
    BY <2>1, <2>2
<1>14. Is(f)
  <2> HIDE DEF opening, ends, tag
  <2>1. c = [i \in 1..(n + 1) |-> c[i]]
    BY <1>10
  <2> HIDE DEF body
  <2>2. Is(c)
    BY <1>2, <1>13, <2>1
  <2> QED
    BY <2>2, Zenon
<1>15. ASSUME NEW i \in 1..(n + 1) PROVE f[i] = body(f, i)
  <2> HIDE DEF body, f
  <2> QED
    BY <1>2, <1>14
<1> HIDE DEF f
\* f is c: from the end of the text.
<1>16. f[1] = c[1]
  <2> DEFINE S == {k \in 0..n : \A i \in (n + 1 - k)..(n + 1) : f[i] = c[i]}
  <2>1. 0 \in S
    <3>1. n + 1 \in 1..(n + 1) /\ n + 1 > Len(s)
      BY <1>2
    <3>2. f[n + 1] = c[n + 1]
      BY <1>13, <1>15, <3>1
    <3>3. \A i \in (n + 1 - 0)..(n + 1) : i = n + 1
      OBVIOUS
    <3> QED
      BY <3>2, <3>3
  <2>2. ASSUME NEW k \in 0..n, k \in S, k + 1 <= n PROVE k + 1 \in S
    <3>1. PICK p \in 1..n : p = n - k
      BY <2>2
    <3>2. \A i \in (p + 1)..(n + 1) : f[i] = c[i]
      <4>1. n + 1 - k = p + 1
        BY <3>1
      <4> QED
        BY <2>2, <4>1
    <3>3. f[p] = c[p]
      <4>1. p \in 1..(n + 1) /\ p + 1 \in (p + 1)..(n + 1) /\ ~(p > Len(s))
        BY <1>2
      <4>2. nx[p] \in (p + 1)..(n + 1)
        BY <1>8
      <4>3. nx[p] = IF opening(p) # {} /\ ends(p, tag(p)) # {} THEN Min(ends(p, tag(p))) ELSE p + 1
        <5> HIDE DEF opening, ends, tag
        <5> QED
          BY <1>p2
      <4>4. f[nx[p]] = c[nx[p]] /\ f[p + 1] = c[p + 1]
        BY <3>2, <4>1, <4>2
      <4> HIDE DEF opening, ends, tag
      <4>5. body(f, p) = body(c, p)
        BY <4>1, <4>3, <4>4
      <4> HIDE DEF body
      <4> QED
        BY <1>13, <1>15, <4>1, <4>5
    <3>4. ASSUME NEW i \in (n + 1 - (k + 1))..(n + 1) PROVE f[i] = c[i]
      <4>1. i = p \/ i \in (p + 1)..(n + 1)
        BY <2>2, <3>1
      <4> QED
        BY <3>2, <3>3, <4>1
    <3> QED
      BY <2>2, <3>4
  <2> HIDE DEF S
  <2>3. n \in S
    <3>1. 0..n \subseteq S
      BY <2>1, <2>2, StepByStep
    <3> QED
      BY <3>1
  <2>4. 1 \in (n + 1 - n)..(n + 1)
    OBVIOUS
  <2> QED
    BY <2>3, <2>4 DEF S
<1>17. ASSUME NEW i \in 1..n
       PROVE  /\ (\A t \in Tags : ~Occurs(s, Opener(t), i, n)) => c[i] = <<s[i]>> \o c[i + 1]
              /\ \A t \in Tags : Occurs(s, Opener(t), i, n) =>
                   SpanLeaves(c[i], c, s, Closer(t), i + Len(Opener(t)), n)
  <2>0. i \in 1..(n + 1) /\ ~(i > Len(s))
    BY <1>2
  <2>1. ASSUME \A t \in Tags : ~Occurs(s, Opener(t), i, n) PROVE c[i] = <<s[i]>> \o c[i + 1]
    <3>1. opening(i) = {}
      BY <1>3, <2>1
    <3> HIDE DEF opening, ends, tag
    <3> QED
      BY <1>13, <2>0, <3>1
  <2>2. ASSUME NEW t \in Tags, Occurs(s, Opener(t), i, n)
        PROVE  SpanLeaves(c[i], c, s, Closer(t), i + Len(Opener(t)), n)
    <3>1. opening(i) = {t} /\ tag(i) = t
      BY <1>4, <2>2
    <3>2. c[i] = IF ends(i, t) = {} THEN <<>> ELSE c[Min(ends(i, t))]
      <4> HIDE DEF opening, ends, tag
      <4> QED
        BY <1>13, <2>0, <3>1
    <3> HIDE DEF ends
    <3>3. ASSUME \A k \in Nat : i + Len(Opener(t)) <= k => ~Occurs(s, Closer(t), k, n)
          PROVE  c[i] = <<>>
      BY <1>7, <3>2, <3>3
    <3>4. ASSUME NEW k \in Nat, i + Len(Opener(t)) <= k, Occurs(s, Closer(t), k, n),
                 \A l \in (i + Len(Opener(t)))..(k - 1) : ~Occurs(s, Closer(t), l, n)
          PROVE  c[i] = c[k + Len(Closer(t))]
      <4>1. ends(i, t) # {} /\ Min(ends(i, t)) = k + Len(Closer(t))
        BY <1>6, <3>4
      <4> QED
        BY <3>2, <4>1
    <3> QED
      BY <3>3, <3>4 DEF SpanLeaves
  <2> QED
    BY <2>1, <2>2
<1>18. c \in [1..(n + 1) -> Seq(Chars)]
  BY <1>10, <1>p3
<1>19. Clears(c, s, n)
  BY <1>11, <1>17, <1>18 DEF Clears
<1> QED
  BY <1>1, <1>2, <1>16, <1>19

(* The same of a text that is cut off at m.                                   *)
LEMMA CutIs ==
  ASSUME NEW text \in Seq(Chars), NEW m \in 0..Len(text)
  PROVE  \E c : Clears(c, text, m) /\ Unspanned(SubSeq(text, 1, m)) = c[1]
<1>1. PICK s : s = SubSeq(text, 1, m)
  OBVIOUS
<1>2. m \in Nat /\ Len(text) \in Nat /\ \A i \in 1..m : text[i] \in Chars
  OBVIOUS
<1>3. s \in Seq(Chars) /\ Len(s) = m /\ \A i \in 1..m : s[i] = text[i]
  <2>1. /\ SubSeq(text, 1, m) \in Seq(Chars)
        /\ Len(SubSeq(text, 1, m)) = IF 1 <= m THEN m - 1 + 1 ELSE 0
        /\ \A i \in 1..m - 1 + 1 : SubSeq(text, 1, m)[i] = text[1 + i - 1]
    BY <1>2, SubSeqProperties
  <2> QED
    BY <1>1, <1>2, <2>1
<1>4. PICK c : Clears(c, s, m) /\ Unspanned(s) = c[1]
  BY <1>3, UnspannedIs
<1>5. ASSUME NEW sub \in Seq(Chars), NEW i \in Nat, i >= 1
      PROVE  Occurs(s, sub, i, m) <=> Occurs(text, sub, i, m)
  <2>1. Len(sub) \in Nat
    OBVIOUS
  <2>2. ASSUME i + Len(sub) - 1 <= m, NEW j \in 1..Len(sub) PROVE s[i + j - 1] = text[i + j - 1]
    <3>1. i + j - 1 \in 1..m
      BY <1>2, <1>5, <2>1, <2>2
    <3> QED
      BY <1>3, <3>1
  <2> QED
    BY <2>2 DEF Occurs
<1>6. ASSUME NEW i \in 1..m
      PROVE  /\ (\A t \in Tags : ~Occurs(text, Opener(t), i, m)) => c[i] = <<text[i]>> \o c[i + 1]
             /\ \A t \in Tags : Occurs(text, Opener(t), i, m) =>
                  SpanLeaves(c[i], c, text, Closer(t), i + Len(Opener(t)), m)
  <2>1. i \in Nat /\ i >= 1 /\ s[i] = text[i]
    BY <1>2, <1>3
  <2>2. ASSUME NEW t \in Tags
        PROVE  /\ Opener(t) \in Seq(Chars) /\ Closer(t) \in Seq(Chars)
               /\ i + Len(Opener(t)) \in Nat /\ i + Len(Opener(t)) >= 1
               /\ Occurs(s, Opener(t), i, m) <=> Occurs(text, Opener(t), i, m)
    <3>1. Opener(t) \in Seq(Chars) /\ Closer(t) \in Seq(Chars) /\ Len(Opener(t)) \in 3..4
      BY TagsAre
    <3> QED
      BY <1>5, <2>1, <3>1
  <2>3. (\A t \in Tags : ~Occurs(text, Opener(t), i, m)) => c[i] = <<text[i]>> \o c[i + 1]
    BY <1>4, <2>1, <2>2 DEF Clears
  <2>4. ASSUME NEW t \in Tags, Occurs(text, Opener(t), i, m)
        PROVE  SpanLeaves(c[i], c, text, Closer(t), i + Len(Opener(t)), m)
    <3>1. SpanLeaves(c[i], c, s, Closer(t), i + Len(Opener(t)), m)
      BY <1>4, <2>2, <2>4 DEF Clears
    <3>2. ASSUME NEW k \in Nat, i + Len(Opener(t)) <= k
          PROVE  Occurs(s, Closer(t), k, m) <=> Occurs(text, Closer(t), k, m)
      BY <1>5, <2>2, <3>2
    <3>3. ASSUME NEW k \in Nat, i + Len(Opener(t)) <= k, NEW l \in (i + Len(Opener(t)))..(k - 1)
          PROVE  Occurs(s, Closer(t), l, m) <=> Occurs(text, Closer(t), l, m)
      BY <2>2, <3>2, <3>3
    <3> QED
      BY <3>1, <3>2, <3>3 DEF SpanLeaves
  <2> QED
    BY <2>3, <2>4
<1>7. Clears(c, text, m)
  BY <1>4, <1>6 DEF Clears
<1> QED
  BY <1>1, <1>4, <1>7

(* Where no bracket is, the text is clear as it stands.                       *)
LEMMA PassesPlain ==
  ASSUME NEW text \in Seq(Chars), NEW m \in 0..Len(text), NEW c, Clears(c, text, m),
         NEW i \in 1..(m + 1), NEW j \in i..(m + 1), \A l \in i..(j - 1) : text[l] # "<"
  PROVE  c[i] = SubSeq(text, i, j - 1) \o c[j]
<1> DEFINE S == {d \in 0..(j - i) : c[i] = SubSeq(text, i, i + d - 1) \o c[i + d]}
<1>1. /\ m \in Nat /\ Len(text) \in Nat /\ c \in [1..(m + 1) -> Seq(Chars)] /\ j - i \in Nat
      /\ i \in Nat /\ j \in Nat /\ \A x \in 1..Len(text) : text[x] \in Chars
  BY DEF Clears
<1>2. 0 \in S
  <2>1. SubSeq(text, i, i + 0 - 1) = <<>>
    BY <1>1, SubSeqEmpty
  <2>2. c[i] \in Seq(Chars)
    BY <1>1
  <2>3. <<>> \o c[i] = c[i]
    BY <2>2, ConcatEmptySeq
  <2>4. i + 0 = i
    BY <1>1
  <2> QED
    BY <1>1, <2>1, <2>3, <2>4
<1>3. ASSUME NEW d \in 0..(j - i), d \in S, d + 1 <= j - i PROVE d + 1 \in S
  <2>1. PICK q \in 1..m : q = i + d
    BY <1>1, <1>3
  <2>2. q \in i..(j - 1) /\ q + 1 \in 1..(m + 1) /\ q \in 1..Len(text)
    BY <1>1, <1>3, <2>1
  <2>3. ASSUME NEW t \in Tags PROVE ~Occurs(text, Opener(t), q, m)
    <3>1. 1 \in 1..Len(Opener(t)) /\ Opener(t)[1] = "<" /\ q + 1 - 1 = q
      BY TagsAre
    <3>2. text[q] # "<"
      BY <2>2
    <3> QED
      BY <3>1, <3>2 DEF Occurs
  <2>4. c[q] = <<text[q]>> \o c[q + 1]
    BY <2>3 DEF Clears
  <2>5. PICK a, x, y : a = SubSeq(text, i, q - 1) /\ x = <<text[q]>> /\ y = c[q + 1]
    OBVIOUS
  <2>6. a \in Seq(Chars) /\ x \in Seq(Chars) /\ y \in Seq(Chars)
    <3>1. \A l \in i..(q - 1) : text[l] \in Chars
      BY <1>1, <2>1
    <3>2. SubSeq(text, i, q - 1) \in Seq(Chars)
      BY <1>1, <3>1, SubSeqProperties
    <3>3. text[q] \in Chars /\ c[q + 1] \in Seq(Chars)
      BY <1>1, <2>2
    <3> QED
      BY <2>5, <3>2, <3>3
  <2>7. (a \o x) \o y = a \o (x \o y)
    BY <2>6, ConcatAssociative
  <2>8. SubSeq(text, i, q) = a \o x
    <3>1. i \in 1..Len(text) /\ q \in i..Len(text)
      BY <1>1, <2>2
    <3> QED
      BY <2>5, <3>1, SubSeqRecursiveSecond
  <2>9. c[i] = a \o c[q]
    <3>1. i + d - 1 = q - 1 /\ i + d = q
      BY <1>1, <1>3, <2>1
    <3>2. c[i] = SubSeq(text, i, i + d - 1) \o c[i + d]
      BY <1>3
    <3> HIDE DEF S
    <3> QED
      BY <2>5, <3>1, <3>2
  <2>10. c[i] = SubSeq(text, i, q) \o c[q + 1]
    BY <2>4, <2>5, <2>7, <2>8, <2>9
  <2>11. q = i + (d + 1) - 1 /\ q + 1 = i + (d + 1) /\ d + 1 \in 0..(j - i)
    BY <1>1, <1>3, <2>1
  <2>12. c[i] = SubSeq(text, i, i + (d + 1) - 1) \o c[i + (d + 1)]
    <3> HIDE DEF S
    <3> QED
      BY <2>10, <2>11
  <2> QED
    BY <2>11, <2>12
<1>4. PICK n \in Nat : n = j - i
  BY <1>1
<1> HIDE DEF S
<1>5. n \in S
  <2>1. 0..n \subseteq S
    BY <1>2, <1>3, <1>4, StepByStep
  <2> QED
    BY <2>1
<1>6. i + n = j /\ i + n - 1 = j - 1
  BY <1>1, <1>4
<1> QED
  BY <1>5, <1>6 DEF S

(* The buffer is the end of what was fed.                                     *)
Holds(b, f, text) ==
  /\ b \in Seq(Chars) /\ f \in 0..Len(text) /\ Len(b) <= f
  /\ \A j \in 1..Len(b) : b[j] = text[f - Len(b) + j]

(* What the text comes to is what was passed on and what is clear of the rest:*)
(* inside a span that begins behind its end.                                  *)
Owes(c, m, at, out, within, awaited, text) ==
  IF within
  THEN \E v \in Seq(Chars) : c[1] = out \o v /\ SpanLeaves(v, c, text, awaited, at, m)
  ELSE c[1] = out \o c[at]

\* Between two chunks.
Waits(b, within, awaited) ==
  IF within THEN Len(b) < Len(awaited)
  ELSE b = <<>> \/ \E t \in Tags : /\ Len(b) < Len(Opener(t))
                                   /\ \A j \in 1..Len(b) : b[j] = Opener(t)[j]

ScrubTypes ==
  /\ spoken \in Seq(Chars) /\ clean \in Seq(Chars) /\ Holds(buf, fed, spoken)
  /\ inside \in BOOLEAN /\ feeding \in BOOLEAN /\ flushed \in BOOLEAN
  /\ inside => \E t \in Tags : closer = Closer(t)
Owing ==
  ~flushed =>
    \A m \in fed..Len(spoken) : \A c : Clears(c, spoken, m) =>
      Owes(c, m, fed - Len(buf) + 1, clean, inside, closer, spoken)
ScrubInv ==
  /\ ScrubTypes /\ Owing
  /\ ~feeding => Waits(buf, inside, closer)
  /\ flushed => ~feeding /\ clean = Unspanned(spoken)

\* The rest of the buffer is still the end of what was fed.
LEMMA TailIsHeld ==
  ASSUME NEW text \in Seq(Chars), NEW f, NEW b, Holds(b, f, text), NEW x \in 1..(Len(b) + 1),
         NEW e, e = From(b, x)
  PROVE  Holds(e, f, text) /\ Len(e) = Len(b) - x + 1
<1>1. b \in Seq(Chars) /\ Len(b) \in Nat /\ f \in Nat /\ Len(b) <= f /\ f <= Len(text)
  BY DEF Holds
<1>2. /\ From(b, x) \in Seq(Chars) /\ Len(From(b, x)) = Len(b) - x + 1
      /\ \A j \in 1..(Len(b) - x + 1) : From(b, x)[j] = b[x + j - 1]
  BY <1>1, FromIs
<1>3. f - Len(From(b, x)) = f - Len(b) + x - 1 /\ Len(From(b, x)) <= f
  BY <1>1, <1>2
<1>4. ASSUME NEW j \in 1..Len(From(b, x)) PROVE From(b, x)[j] = text[f - Len(From(b, x)) + j]
  <2>1. x + j - 1 \in 1..Len(b) /\ f - Len(b) + (x + j - 1) = f - Len(From(b, x)) + j
    BY <1>1, <1>2, <1>3
  <2>2. b[x + j - 1] = text[f - Len(b) + (x + j - 1)]
    BY <2>1 DEF Holds
  <2> QED
    BY <1>2, <2>1, <2>2
<1> QED
  BY <1>1, <1>2, <1>3, <1>4 DEF Holds

\* What occurs in the buffer occurs in the text, ...
LEMMA HeldWhere ==
  ASSUME NEW text \in Seq(Chars), NEW f, NEW b, Holds(b, f, text),
         NEW sub \in Seq(Chars), NEW x \in 1..Len(b)
  PROVE  Occurs(b, sub, x, Len(b)) <=> Occurs(text, sub, f - Len(b) + x, f)
<1>1. b \in Seq(Chars) /\ Len(b) \in Nat /\ f \in Nat /\ Len(b) <= f /\ Len(sub) \in Nat
  BY DEF Holds
<1>2. x + Len(sub) - 1 <= Len(b) <=> f - Len(b) + x + Len(sub) - 1 <= f
  BY <1>1
<1>3. ASSUME x + Len(sub) - 1 <= Len(b), NEW j \in 1..Len(sub)
      PROVE  b[x + j - 1] = text[f - Len(b) + x + j - 1]
  <2>1. x + j - 1 \in 1..Len(b) /\ f - Len(b) + (x + j - 1) = f - Len(b) + x + j - 1
    BY <1>1, <1>3
  <2>2. b[x + j - 1] = text[f - Len(b) + (x + j - 1)]
    BY <2>1 DEF Holds
  <2> QED
    BY <2>1, <2>2
<1> QED
  BY <1>2, <1>3 DEF Occurs

\* ... so FindIn on the buffer finds places of the text.
LEMMA FoundHeld ==
  ASSUME NEW text \in Seq(Chars), NEW f, NEW b, Holds(b, f, text),
         NEW sub \in Seq(Chars), Len(sub) >= 1, NEW p, p = f - Len(b)
  PROVE  FindIn(b, sub) = {x \in 1..Len(b) : Occurs(text, sub, p + x, f)}
<1>1. b \in Seq(Chars)
  BY DEF Holds
<1>2. FindIn(b, sub) = {x \in 1..Len(b) : Occurs(b, sub, x, Len(b))}
  BY <1>1, FoundWhere
<1> QED
  BY <1>2, HeldWhere

(* What stands in the text before the end of what was fed stands in what will *)
(* have been said, and the other way round.                                   *)
LEMMA OccursBefore ==
  ASSUME NEW text, NEW sub \in Seq(Chars), NEW k \in Nat, NEW f \in Nat, NEW m \in Nat, f <= m
  PROVE  /\ Occurs(text, sub, k, f) => Occurs(text, sub, k, m)
         /\ Occurs(text, sub, k, m) /\ k + Len(sub) - 1 <= f => Occurs(text, sub, k, f)
<1>1. Len(sub) \in Nat
  OBVIOUS
<1> QED
  BY <1>1 DEF Occurs

(* The part of the buffer before a place is that part of the text.            *)
LEMMA FrontIsHeld ==
  ASSUME NEW text \in Seq(Chars), NEW f, NEW b, Holds(b, f, text), NEW x \in 0..Len(b),
         NEW i, i = f - Len(b) + 1, NEW k, k = f - Len(b) + x
  PROVE  /\ SubSeq(b, 1, x) \in Seq(Chars)
         /\ SubSeq(b, 1, x) = SubSeq(text, i, k)
<1>1. b \in Seq(Chars) /\ Len(b) \in Nat /\ f \in Nat /\ Len(b) <= f /\ f <= Len(text) /\ x \in Nat
  BY DEF Holds
<1>2. PICK p \in Nat : p = f - Len(b)
  BY <1>1
<1>3. /\ SubSeq(b, 1, x) \in Seq(Chars) /\ Len(SubSeq(b, 1, x)) = x
      /\ \A j \in 1..x : SubSeq(b, 1, x)[j] = b[j]
  <2>1. \A l \in 1..x : b[l] \in Chars
    BY <1>1
  <2>2. /\ SubSeq(b, 1, x) \in Seq(Chars)
        /\ Len(SubSeq(b, 1, x)) = IF 1 <= x THEN x - 1 + 1 ELSE 0
        /\ \A j \in 1..x - 1 + 1 : SubSeq(b, 1, x)[j] = b[1 + j - 1]
    BY <1>1, <2>1, SubSeqProperties
  <2> QED
    BY <1>1, <2>2
<1>4. /\ SubSeq(text, p + 1, p + x) \in Seq(Chars) /\ Len(SubSeq(text, p + 1, p + x)) = x
      /\ \A j \in 1..x : SubSeq(text, p + 1, p + x)[j] = text[p + j]
  <2>1. \A l \in (p + 1)..(p + x) : text[l] \in Chars
    BY <1>1, <1>2
  <2>2. p + 1 \in Int /\ p + x \in Int /\ (p + x) - (p + 1) + 1 = x
    BY <1>1, <1>2
  <2>3. /\ SubSeq(text, p + 1, p + x) \in Seq(Chars)
        /\ Len(SubSeq(text, p + 1, p + x)) = IF p + 1 <= p + x THEN (p + x) - (p + 1) + 1 ELSE 0
        /\ \A j \in 1..(p + x) - (p + 1) + 1 : SubSeq(text, p + 1, p + x)[j] = text[(p + 1) + j - 1]
    BY <2>1, <2>2, SubSeqProperties
  <2>4. \A j \in 1..x : (p + 1) + j - 1 = p + j
    BY <1>1, <1>2
  <2> QED
    BY <1>1, <1>2, <2>2, <2>3, <2>4
<1>5. \A j \in 1..x : b[j] = text[p + j]
  <2>1. \A j \in 1..x : j \in 1..Len(b)
    BY <1>1
  <2> QED
    BY <1>2, <2>1 DEF Holds
<1>6. SubSeq(b, 1, x) = SubSeq(text, p + 1, p + x)
  BY <1>3, <1>4, <1>5, SeqEqual
<1>7. i = p + 1 /\ k = p + x
  BY <1>1, <1>2
<1> QED
  BY <1>3, <1>6, <1>7

\* The text that is a bracket alone.
LEMMA BracketIs == <<"<">> \in Seq(Chars) /\ Len(<<"<">>) = 1 /\ <<"<">>[1] = "<"
BY DEF Chars

(* Where the buffer has a bracket first.                                      *)
LEMMA BracketWhere ==
  ASSUME NEW b \in Seq(Chars)
  PROVE  FindIn(b, <<"<">>) = {x \in 1..Len(b) : b[x] = "<"}
<1>1. PICK k : k = <<"<">>
  OBVIOUS
<1>2. k \in Seq(Chars) /\ Len(k) = 1 /\ k[1] = "<"
  BY <1>1, BracketIs
<1>3. FindIn(b, k) = {x \in 1..Len(b) : Occurs(b, k, x, Len(b))}
  BY <1>2, FoundWhere
<1>4. ASSUME NEW x \in 1..Len(b) PROVE Occurs(b, k, x, Len(b)) <=> b[x] = "<"
  <2>1. Len(b) \in Nat /\ x + 1 - 1 = x /\ \A j \in 1..1 : j = 1
    OBVIOUS
  <2> QED
    BY <1>2, <2>1 DEF Occurs
<1> QED
  BY <1>1, <1>3, <1>4

(* Up to the first bracket the buffer is passed on.                           *)
LEMMA PassesBefore ==
  ASSUME ScrubTypes, Owing, ~flushed, ~inside, NEW x \in 0..Len(buf),
         \A j \in 1..x : buf[j] # "<"
  PROVE  /\ clean \o SubSeq(buf, 1, x) \in Seq(Chars)
         /\ \A m \in fed..Len(spoken) : \A c : Clears(c, spoken, m) =>
              c[1] = (clean \o SubSeq(buf, 1, x)) \o c[fed - Len(buf) + x + 1]
<1>1. /\ spoken \in Seq(Chars) /\ clean \in Seq(Chars) /\ Holds(buf, fed, spoken)
      /\ buf \in Seq(Chars) /\ Len(buf) \in Nat /\ fed \in Nat /\ fed <= Len(spoken) /\ Len(buf) <= fed
  BY DEF ScrubTypes, Holds
<1>2. SubSeq(buf, 1, x) \in Seq(Chars) /\ SubSeq(buf, 1, x) = SubSeq(spoken, fed - Len(buf) + 1, fed - Len(buf) + x)
  <2>1. spoken \in Seq(Chars) /\ Holds(buf, fed, spoken)
    BY <1>1
  <2>2. PICK i, k : i = fed - Len(buf) + 1 /\ k = fed - Len(buf) + x
    OBVIOUS
  <2>3. SubSeq(buf, 1, x) \in Seq(Chars) /\ SubSeq(buf, 1, x) = SubSeq(spoken, i, k)
    BY <2>1, <2>2, FrontIsHeld
  <2> QED
    BY <2>2, <2>3
<1>3. clean \o SubSeq(buf, 1, x) \in Seq(Chars)
  BY <1>1, <1>2, ConcatProperties
<1>4. ASSUME NEW m \in fed..Len(spoken), NEW c, Clears(c, spoken, m)
      PROVE  c[1] = (clean \o SubSeq(buf, 1, x)) \o c[fed - Len(buf) + x + 1]
  <2>1. PICK i, j : i = fed - Len(buf) + 1 /\ j = fed - Len(buf) + x + 1
    OBVIOUS
  <2>2. /\ m \in 0..Len(spoken) /\ i \in 1..(m + 1) /\ j \in i..(m + 1)
        /\ j - 1 = fed - Len(buf) + x
    BY <1>1, <1>4, <2>1
  <2>3. ASSUME NEW l \in i..(j - 1) PROVE spoken[l] # "<"
    <3>1. PICK y \in 1..x : l = fed - Len(buf) + y
      <4>1. l - (fed - Len(buf)) \in 1..x /\ l = fed - Len(buf) + (l - (fed - Len(buf)))
        BY <1>1, <2>1, <2>3
      <4> QED
        BY <4>1
    <3>2. y \in 1..Len(buf)
      BY <1>1, <3>1
    <3>3. spoken[l] = buf[y]
      BY <1>1, <3>1, <3>2 DEF Holds
    <3> QED
      BY <3>1, <3>3
  <2>4. c[i] = SubSeq(spoken, i, j - 1) \o c[j]
    BY <1>1, <1>4, <2>2, <2>3, PassesPlain
  <2>5. c[1] = clean \o c[i]
    BY <1>4, <2>1 DEF Owing, Owes
  <2>6. c[j] \in Seq(Chars)
    BY <1>4, <2>2 DEF Clears
  <2>7. PICK w, y : w = SubSeq(buf, 1, x) /\ y = c[j]
    OBVIOUS
  <2>8. (clean \o w) \o y = clean \o (w \o y)
    <3>1. clean \in Seq(Chars) /\ w \in Seq(Chars) /\ y \in Seq(Chars)
      BY <1>1, <1>2, <2>6, <2>7
    <3> QED
      BY <3>1, ConcatAssociative
  <2>9. c[i] = w \o y
    BY <1>2, <2>1, <2>2, <2>4, <2>7
  <2> QED
    BY <2>1, <2>5, <2>7, <2>8, <2>9
<1> QED
  BY <1>3, <1>4

\* What rest is at a bracket, and that all before it is passed on.
LEMMA AtBracketIs ==
  ASSUME ScrubTypes, Owing, ~flushed, NEW rest, AtBracket(rest)
  PROVE  \E x \in 1..Len(buf) :
           /\ rest = From(buf, x) /\ Len(rest) = Len(buf) - x + 1 /\ buf[x] = "<"
           /\ PassedBefore(rest) \in Seq(Chars)
           /\ \A m \in fed..Len(spoken) : \A c : Clears(c, spoken, m) =>
                c[1] = PassedBefore(rest) \o c[fed - Len(buf) + x]
<1>1. Holds(buf, fed, spoken) /\ buf \in Seq(Chars) /\ Len(buf) \in Nat /\ spoken \in Seq(Chars) /\ fed \in Nat
  BY DEF ScrubTypes, Holds
<1>2. PICK B : B = FindIn(buf, <<"<">>)
  OBVIOUS
<1>3. B = {x \in 1..Len(buf) : buf[x] = "<"}
  BY <1>1, <1>2, BracketWhere
<1>4. ~inside /\ B # {} /\ rest = From(buf, Min(B))
  BY <1>2 DEF AtBracket
<1>5. B \in SUBSET Nat
  BY <1>3
<1>6. PICK x \in B : \A y \in B : x <= y
  BY <1>4, <1>5, LeastNumber
<1>7. Min(B) = x
  BY <1>5, <1>6, LeastIs
<1>8. x \in 1..Len(buf) /\ buf[x] = "<" /\ x - 1 \in 0..Len(buf)
  BY <1>1, <1>3, <1>6
<1>9. \A j \in 1..(x - 1) : buf[j] # "<"
  <2> SUFFICES ASSUME NEW j \in 1..(x - 1), buf[j] = "<" PROVE FALSE
    OBVIOUS
  <2>1. j \in 1..Len(buf) /\ ~(x <= j)
    BY <1>1, <1>8
  <2>2. j \in B
    BY <1>3, <2>1
  <2> QED
    BY <1>6, <2>1, <2>2
<1>10. rest = From(buf, x) /\ Len(rest) = Len(buf) - x + 1
  <2>1. x \in 1..(Len(buf) + 1)
    BY <1>1, <1>8
  <2> QED
    BY <1>1, <1>4, <1>7, <2>1, TailIsHeld
<1>11. PassedBefore(rest) = clean \o SubSeq(buf, 1, x - 1)
  <2>1. Len(buf) - Len(rest) = x - 1
    BY <1>1, <1>8, <1>10
  <2> QED
    BY <2>1 DEF PassedBefore
<1>12. fed - Len(buf) + (x - 1) + 1 = fed - Len(buf) + x
  BY <1>1, <1>8
<1>13. /\ clean \o SubSeq(buf, 1, x - 1) \in Seq(Chars)
       /\ \A m \in fed..Len(spoken) : \A c : Clears(c, spoken, m) =>
            c[1] = (clean \o SubSeq(buf, 1, x - 1)) \o c[fed - Len(buf) + (x - 1) + 1]
  BY <1>4, <1>8, <1>9, PassesBefore
<1> QED
  BY <1>8, <1>10, <1>11, <1>12, <1>13

\* What begins at the bracket, whatever comes behind what was fed.
LEMMA StartsWhere ==
  ASSUME ScrubTypes, NEW x \in 1..Len(buf), NEW t \in Tags
  PROVE  /\ StartsWith(t, From(buf, x)) <=> Occurs(spoken, Opener(t), fed - Len(buf) + x, fed)
         /\ fed - Len(buf) + x \in 1..fed
<1>1. Holds(buf, fed, spoken) /\ buf \in Seq(Chars) /\ Len(buf) \in Nat /\ spoken \in Seq(Chars)
      /\ fed \in Nat /\ Len(buf) <= fed
  BY DEF ScrubTypes, Holds
<1>2. Opener(t) \in Seq(Chars) /\ x \in 1..(Len(buf) + 1)
  BY <1>1, TagsAre
<1>3. IsPrefix(Opener(t), From(buf, x)) <=> Occurs(buf, Opener(t), x, Len(buf))
  BY <1>1, <1>2, BeginsWhere
<1>4. Occurs(buf, Opener(t), x, Len(buf)) <=> Occurs(spoken, Opener(t), fed - Len(buf) + x, fed)
  BY <1>1, <1>2, HeldWhere
<1>5. fed - Len(buf) + x \in 1..fed
  BY <1>1
<1> QED
  BY <1>3, <1>4, <1>5 DEF StartsWith

\* A span begins: what lies behind its opening tag is owed to what ends it.
LEMMA BeginsStep ==
  ASSUME ScrubInv, ~flushed, BeginsSpan
  PROVE  ScrubInv'
<1>1. PICK rest \in Suffixes(buf), t \in Tags :
        /\ AtBracket(rest) /\ StartsWith(t, rest)
        /\ Scrub(TRUE, Closer(t), From(rest, Len(Opener(t)) + 1))
        /\ clean' = PassedBefore(rest) /\ UNCHANGED feeding
  BY DEF BeginsSpan
<1>2. ScrubTypes /\ Owing
  BY DEF ScrubInv
<1>3. /\ spoken \in Seq(Chars) /\ fed \in Nat /\ fed <= Len(spoken) /\ Len(spoken) \in Nat
      /\ Holds(buf, fed, spoken) /\ Len(buf) \in Nat /\ Len(buf) <= fed
  BY <1>2 DEF ScrubTypes, Holds
<1>4. PICK x \in 1..Len(buf) :
        /\ rest = From(buf, x) /\ Len(rest) = Len(buf) - x + 1 /\ buf[x] = "<"
        /\ PassedBefore(rest) \in Seq(Chars)
        /\ \A m \in fed..Len(spoken) : \A c : Clears(c, spoken, m) =>
             c[1] = PassedBefore(rest) \o c[fed - Len(buf) + x]
  BY <1>1, <1>2, AtBracketIs
<1>5. PICK q : q = fed - Len(buf) + x
  OBVIOUS
<1>6. Occurs(spoken, Opener(t), q, fed) /\ q \in 1..fed
  BY <1>1, <1>2, <1>4, <1>5, StartsWhere
<1>7. PICK L \in 3..4 : L = Len(Opener(t))
  BY TagsAre
<1>8. L + 1 \in 1..(Len(rest) + 1)
  BY <1>3, <1>4, <1>5, <1>6, <1>7 DEF Occurs
<1>9. /\ Holds(From(rest, L + 1), fed, spoken)
      /\ fed - Len(From(rest, L + 1)) = q - 1 + L
  <2>1. Holds(rest, fed, spoken) /\ fed - Len(rest) = q - 1
    <3>1. x \in 1..(Len(buf) + 1)
      BY <1>3
    <3>2. Holds(rest, fed, spoken)
      BY <1>3, <1>4, <3>1, TailIsHeld
    <3> QED
      BY <1>3, <1>4, <1>5, <3>2
  <2>2. PICK y : y = L + 1
    OBVIOUS
  <2>a. PICK rear : rear = From(rest, y)
    OBVIOUS
  <2>3. Holds(rear, fed, spoken) /\ Len(rear) = Len(rest) - y + 1
    <3>1. y \in 1..(Len(rest) + 1)
      BY <1>8, <2>2
    <3>2. Holds(rest, fed, spoken)
      BY <2>1
    <3>3. spoken \in Seq(Chars)
      BY <1>3
    <3>4. PICK z : z = rest
      OBVIOUS
    <3>5. rear = From(z, y) /\ y \in 1..(Len(z) + 1) /\ Holds(z, fed, spoken)
      BY <2>a, <3>1, <3>2, <3>4
    <3>6. rear = From(z, y)
      BY <3>5
    <3>7. y \in 1..(Len(z) + 1)
      BY <3>5
    <3>8. Holds(z, fed, spoken)
      BY <3>5
    <3>9. Len(rear) = Len(z) - y + 1
      BY <3>3, <3>6, <3>7, <3>8, TailIsHeld
    <3>10. Holds(rear, fed, spoken)
      BY <3>3, <3>6, <3>7, <3>8, TailIsHeld
    <3> QED
      BY <3>4, <3>9, <3>10
  <2>4. fed - Len(rear) = q - 1 + L
    BY <1>3, <1>4, <1>5, <1>7, <2>2, <2>3
  <2> QED
    BY <2>2, <2>a, <2>3, <2>4
<1>10. /\ inside' = TRUE /\ closer' = Closer(t) /\ buf' = From(rest, L + 1)
       /\ UNCHANGED <<spoken, fed, flushed, feeding>> /\ clean' = PassedBefore(rest)
  BY <1>1, <1>7 DEF Scrub
<1>11. ScrubTypes'
  BY <1>2, <1>4, <1>9, <1>10 DEF ScrubTypes
<1>12. ASSUME NEW m \in fed..Len(spoken), NEW c, Clears(c, spoken, m)
       PROVE  Owes(c, m, q + L, PassedBefore(rest), TRUE, Closer(t), spoken)
  <2>1. c[1] = PassedBefore(rest) \o c[q]
    BY <1>4, <1>5, <1>12
  <2>2. Occurs(spoken, Opener(t), q, m) /\ q \in 1..m
    <3>1. Opener(t) \in Seq(Chars) /\ q \in Nat /\ m \in Nat /\ fed <= m
      BY <1>3, <1>6, <1>12, TagsAre
    <3> QED
      BY <1>3, <1>6, <3>1, OccursBefore
  <2>3. SpanLeaves(c[q], c, spoken, Closer(t), q + L, m)
    BY <1>7, <1>12, <2>2 DEF Clears
  <2>4. c[q] \in Seq(Chars)
    <3>1. q \in 1..(m + 1)
      BY <1>3, <1>12, <2>2
    <3> QED
      BY <1>12, <3>1 DEF Clears
  <2> QED
    BY <2>1, <2>3, <2>4 DEF Owes
<1>13. Owing'
  <2>1. fed' - Len(buf') + 1 = q + L
    BY <1>6, <1>9, <1>10
  <2> QED
    BY <1>10, <1>12, <2>1 DEF Owing
<1>14. feeding'
  BY <1>1, <1>10 DEF AtBracket
<1> QED
  BY <1>10, <1>11, <1>13, <1>14 DEF ScrubInv

\* A bracket that opens nothing in what was fed, but may still do.
LEMMA WaitsStep ==
  ASSUME ScrubInv, ~flushed, WaitsForMore
  PROVE  ScrubInv'
<1>1. PICK rest \in Suffixes(buf) :
        /\ AtBracket(rest) /\ (\A t \in Tags : ~StartsWith(t, rest)) /\ MayOpen(rest)
        /\ Scrub(FALSE, <<>>, rest)
        /\ clean' = PassedBefore(rest) /\ feeding' = FALSE
  BY DEF WaitsForMore
<1>2. ScrubTypes /\ Owing
  BY DEF ScrubInv
<1>3. /\ spoken \in Seq(Chars) /\ fed \in Nat /\ fed <= Len(spoken) /\ Len(spoken) \in Nat
      /\ Holds(buf, fed, spoken) /\ Len(buf) \in Nat /\ Len(buf) <= fed
  BY <1>2 DEF ScrubTypes, Holds
<1>4. PICK x \in 1..Len(buf) :
        /\ rest = From(buf, x) /\ Len(rest) = Len(buf) - x + 1 /\ buf[x] = "<"
        /\ PassedBefore(rest) \in Seq(Chars)
        /\ \A m \in fed..Len(spoken) : \A c : Clears(c, spoken, m) =>
             c[1] = PassedBefore(rest) \o c[fed - Len(buf) + x]
  BY <1>1, <1>2, AtBracketIs
<1>5. Holds(rest, fed, spoken) /\ rest \in Seq(Chars) /\ fed - Len(rest) + 1 = fed - Len(buf) + x
  <2>1. x \in 1..(Len(buf) + 1)
    BY <1>3
  <2>2. Holds(rest, fed, spoken)
    BY <1>3, <1>4, <2>1, TailIsHeld
  <2>3. rest \in Seq(Chars)
    BY <2>2 DEF Holds
  <2> QED
    BY <1>3, <1>4, <2>2, <2>3
<1>6. /\ inside' = FALSE /\ closer' = <<>> /\ buf' = rest
      /\ UNCHANGED <<spoken, fed, flushed>> /\ clean' = PassedBefore(rest)
  BY <1>1 DEF Scrub
<1>7. ScrubTypes'
  BY <1>1, <1>2, <1>4, <1>5, <1>6 DEF ScrubTypes
<1>8. Owing'
  <2>1. fed' - Len(buf') + 1 = fed - Len(buf) + x
    BY <1>5, <1>6
  <2> QED
    BY <1>4, <1>6, <2>1 DEF Owing, Owes
<1>9. Waits(rest, FALSE, <<>>)
  <2>1. PICK t \in Tags : IsPrefix(rest, Opener(t)) /\ ~StartsWith(t, rest)
    BY <1>1 DEF MayOpen
  <2>2. Opener(t) \in Seq(Chars) /\ Len(Opener(t)) \in Nat /\ Len(rest) \in Nat
    BY <1>5, TagsAre
  <2>3. Len(rest) <= Len(Opener(t)) /\ \A j \in 1..Len(rest) : Opener(t)[j] = rest[j]
    BY <1>5, <2>1, <2>2, PrefixIs
  <2>4. ~(Len(Opener(t)) <= Len(rest) /\ \A j \in 1..Len(Opener(t)) : rest[j] = Opener(t)[j])
    BY <1>5, <2>1, <2>2, PrefixIs DEF StartsWith
  <2>5. Len(rest) < Len(Opener(t))
    BY <2>2, <2>3, <2>4
  <2> QED
    BY <2>3, <2>5 DEF Waits
<1> QED
  BY <1>6, <1>7, <1>8, <1>9 DEF ScrubInv

\* A bracket that opens nothing, whatever comes.
LEMMA PassesStep ==
  ASSUME ScrubInv, ~flushed, PassesBracket
  PROVE  ScrubInv'
<1>1. PICK rest \in Suffixes(buf) :
        /\ AtBracket(rest) /\ (\A t \in Tags : ~StartsWith(t, rest)) /\ ~MayOpen(rest)
        /\ Scrub(FALSE, <<>>, Tail(rest))
        /\ clean' = Append(PassedBefore(rest), "<") /\ UNCHANGED feeding
  BY DEF PassesBracket
<1>2. ScrubTypes /\ Owing
  BY DEF ScrubInv
<1>3. /\ spoken \in Seq(Chars) /\ fed \in Nat /\ fed <= Len(spoken) /\ Len(spoken) \in Nat
      /\ Holds(buf, fed, spoken) /\ Len(buf) \in Nat /\ Len(buf) <= fed
  BY <1>2 DEF ScrubTypes, Holds
<1>4. PICK x \in 1..Len(buf) :
        /\ rest = From(buf, x) /\ Len(rest) = Len(buf) - x + 1 /\ buf[x] = "<"
        /\ PassedBefore(rest) \in Seq(Chars)
        /\ \A m \in fed..Len(spoken) : \A c : Clears(c, spoken, m) =>
             c[1] = PassedBefore(rest) \o c[fed - Len(buf) + x]
  BY <1>1, <1>2, AtBracketIs
<1>5. PICK q, out : q = fed - Len(buf) + x /\ out = PassedBefore(rest)
  OBVIOUS
<1>6. /\ Holds(rest, fed, spoken) /\ rest \in Seq(Chars) /\ Len(rest) \in Nat /\ Len(rest) # 0
      /\ fed - Len(rest) + 1 = q /\ q \in 1..fed
      /\ \A j \in 1..Len(rest) : rest[j] = spoken[q + j - 1]
  <2>1. x \in 1..(Len(buf) + 1)
    BY <1>3
  <2>2. Holds(rest, fed, spoken)
    BY <1>3, <1>4, <2>1, TailIsHeld
  <2>3. rest \in Seq(Chars) /\ \A j \in 1..Len(rest) : rest[j] = spoken[fed - Len(rest) + j]
    BY <2>2 DEF Holds
  <2>4. Len(rest) \in Nat /\ Len(rest) # 0 /\ fed - Len(rest) + 1 = q /\ q \in 1..fed
    BY <1>3, <1>4, <1>5
  <2>5. \A j \in 1..Len(rest) : fed - Len(rest) + j = q + j - 1
    BY <1>3, <2>4
  <2> QED
    BY <2>2, <2>3, <2>4, <2>5
<1>7. spoken[q] = "<"
  <2>1. spoken[fed - Len(buf) + x] = buf[x]
    BY <1>3 DEF Holds
  <2> QED
    BY <1>4, <1>5, <2>1
<1>8. Holds(Tail(rest), fed, spoken) /\ fed - Len(Tail(rest)) + 1 = q + 1
  <2>1. PICK y : y = 2
    OBVIOUS
  <2>a. PICK rear : rear = From(rest, y)
    OBVIOUS
  <2>2. Tail(rest) = rear /\ y \in 1..(Len(rest) + 1)
    BY <1>6, <2>1, <2>a, TailIsSubSeq DEF From
  <2>3. Holds(rear, fed, spoken) /\ Len(rear) = Len(rest) - y + 1
    <3>1. Holds(rest, fed, spoken)
      BY <1>6
    <3>2. y \in 1..(Len(rest) + 1)
      BY <2>2
    <3>3. spoken \in Seq(Chars)
      BY <1>3
    <3>4. PICK z : z = rest
      OBVIOUS
    <3>5. rear = From(z, y) /\ y \in 1..(Len(z) + 1) /\ Holds(z, fed, spoken)
      BY <2>a, <3>1, <3>2, <3>4
    <3>6. rear = From(z, y)
      BY <3>5
    <3>7. y \in 1..(Len(z) + 1)
      BY <3>5
    <3>8. Holds(z, fed, spoken)
      BY <3>5
    <3>9. Len(rear) = Len(z) - y + 1
      BY <3>3, <3>6, <3>7, <3>8, TailIsHeld
    <3>10. Holds(rear, fed, spoken)
      BY <3>3, <3>6, <3>7, <3>8, TailIsHeld
    <3> QED
      BY <3>4, <3>9, <3>10
  <2>4. fed - Len(rear) + 1 = q + 1
    BY <1>3, <1>6, <2>1, <2>3
  <2> QED
    BY <2>2, <2>3, <2>4
<1>9. ASSUME NEW m \in fed..Len(spoken), NEW t \in Tags PROVE ~Occurs(spoken, Opener(t), q, m)
  <2> SUFFICES ASSUME Occurs(spoken, Opener(t), q, m) PROVE FALSE
    OBVIOUS
  <2>1. PICK o : o = Opener(t)
    OBVIOUS
  <2>2. o \in Seq(Chars) /\ Len(o) \in 3..4
    BY <2>1, TagsAre
  <2>3. \A j \in 1..Len(o) : spoken[q + j - 1] = o[j]
    BY <2>1 DEF Occurs
  <2>4. CASE Len(o) <= Len(rest)
    <3>1. \A j \in 1..Len(o) : rest[j] = o[j]
      BY <1>6, <2>2, <2>3, <2>4
    <3>2. IsPrefix(o, rest)
      BY <1>6, <2>2, <2>4, <3>1, PrefixIs
    <3> QED
      BY <1>1, <2>1, <3>2 DEF StartsWith
  <2>5. CASE ~(Len(o) <= Len(rest))
    <3>1. Len(rest) <= Len(o) /\ Len(rest) <= 4
      BY <1>6, <2>2, <2>5
    <3>2. \A j \in 1..Len(rest) : o[j] = rest[j]
      BY <1>6, <2>2, <2>3, <3>1
    <3>3. IsPrefix(rest, o)
      BY <1>6, <2>2, <3>1, <3>2, PrefixIs
    <3>4. MayOpen(rest)
      BY <2>1, <3>1, <3>3, KeepIsFour DEF MayOpen
    <3> QED
      BY <1>1, <3>4
  <2> QED
    BY <2>4, <2>5
<1>10. /\ inside' = FALSE /\ closer' = <<>> /\ buf' = Tail(rest)
       /\ UNCHANGED <<spoken, fed, flushed, feeding>> /\ clean' = Append(out, "<")
  BY <1>1, <1>5 DEF Scrub
<1>11. out \in Seq(Chars) /\ Append(out, "<") \in Seq(Chars)
  BY <1>4, <1>5 DEF Chars
<1>12. ScrubTypes'
  BY <1>2, <1>8, <1>10, <1>11 DEF ScrubTypes
<1>13. ASSUME NEW m \in fed..Len(spoken), NEW c, Clears(c, spoken, m)
       PROVE  c[1] = Append(out, "<") \o c[q + 1]
  <2>1. m \in Nat /\ q \in 1..m /\ q + 1 \in 1..(m + 1)
    BY <1>3, <1>6, <1>13
  <2>2. c[q] = <<spoken[q]>> \o c[q + 1]
    BY <1>9, <1>13, <2>1 DEF Clears
  <2>3. c[1] = out \o c[q]
    BY <1>4, <1>5, <1>13
  <2>4. PICK b, y : b = <<"<">> /\ y = c[q + 1]
    OBVIOUS
  <2>a. c \in [1..(m + 1) -> Seq(Chars)]
    BY <1>13 DEF Clears
  <2>b. y \in Seq(Chars)
    BY <2>1, <2>4, <2>a
  <2>5. b \in Seq(Chars)
    BY <2>4, BracketIs
  <2>c. out \in Seq(Chars)
    BY <1>11
  <2>6. (out \o b) \o y = out \o (b \o y)
    BY <2>b, <2>c, <2>5, ConcatAssociative
  <2>7. Append(out, "<") = out \o b
    BY <1>11, <2>4
  <2> QED
    BY <1>7, <2>2, <2>3, <2>4, <2>6, <2>7
<1>14. Owing'
  <2>1. fed' - Len(buf') + 1 = q + 1
    BY <1>8, <1>10
  <2> QED
    BY <1>10, <1>13, <2>1 DEF Owing, Owes
<1>15. feeding'
  BY <1>1, <1>10 DEF AtBracket
<1> QED
  BY <1>10, <1>12, <1>14, <1>15 DEF ScrubInv

\* No bracket at all.
LEMMA PassesAllStep ==
  ASSUME ScrubInv, ~flushed, PassesAll
  PROVE  ScrubInv'
<1>1. ScrubTypes /\ Owing /\ ~inside
  BY DEF ScrubInv, PassesAll
<1>2. /\ spoken \in Seq(Chars) /\ fed \in Nat /\ fed <= Len(spoken) /\ Len(spoken) \in Nat
      /\ buf \in Seq(Chars) /\ Len(buf) \in Nat /\ Len(buf) <= fed /\ clean \in Seq(Chars)
  BY <1>1 DEF ScrubTypes, Holds
<1>3. \A j \in 1..Len(buf) : buf[j] # "<"
  BY <1>2, BracketWhere DEF PassesAll
<1>4. SubSeq(buf, 1, Len(buf)) = buf
  BY <1>2, SubSeqFull
<1>5. /\ clean \o SubSeq(buf, 1, Len(buf)) \in Seq(Chars)
      /\ \A m \in fed..Len(spoken) : \A c : Clears(c, spoken, m) =>
           c[1] = (clean \o SubSeq(buf, 1, Len(buf))) \o c[fed - Len(buf) + Len(buf) + 1]
  <2>1. Len(buf) \in 0..Len(buf)
    BY <1>2
  <2> QED
    BY <1>1, <1>3, <2>1, PassesBefore
<1>6. fed - Len(buf) + Len(buf) + 1 = fed + 1
  BY <1>2
<1>7. /\ inside' = FALSE /\ closer' = <<>> /\ buf' = <<>> /\ clean' = clean \o buf
      /\ UNCHANGED <<spoken, fed, flushed>> /\ feeding' = FALSE
  BY DEF PassesAll, Scrub
<1>8. Holds(<<>>, fed, spoken)
  BY <1>2 DEF Holds
<1>9. ScrubTypes'
  BY <1>1, <1>4, <1>5, <1>7, <1>8 DEF ScrubTypes
<1>10. Owing'
  <2>1. fed' - Len(buf') + 1 = fed + 1
    BY <1>2, <1>7
  <2>2. \A m \in fed..Len(spoken) : \A c : Clears(c, spoken, m) => c[1] = (clean \o buf) \o c[fed + 1]
    BY <1>4, <1>5, <1>6
  <2> QED
    BY <1>7, <2>1, <2>2 DEF Owing, Owes
<1>11. Waits(<<>>, FALSE, <<>>)
  BY DEF Waits
<1> QED
  BY <1>7, <1>9, <1>10, <1>11 DEF ScrubInv

\* The end of the span.
LEMMA EndsStep ==
  ASSUME ScrubInv, ~flushed, EndsSpan
  PROVE  ScrubInv'
<1>1. ScrubTypes /\ Owing /\ inside /\ feeding
  BY DEF ScrubInv, EndsSpan
<1>2. /\ spoken \in Seq(Chars) /\ fed \in Nat /\ fed <= Len(spoken) /\ Len(spoken) \in Nat
      /\ Holds(buf, fed, spoken) /\ Len(buf) \in Nat /\ Len(buf) <= fed
  BY <1>1 DEF ScrubTypes, Holds
<1>3. PICK t \in Tags : closer = Closer(t)
  BY <1>1 DEF ScrubTypes
<1>4. closer \in Seq(Chars) /\ Len(closer) \in 4..5
  BY <1>3, TagsAre
<1>5. PICK B : B = FindIn(buf, closer)
  OBVIOUS
<1>6. B = {x \in 1..Len(buf) : Occurs(spoken, closer, fed - Len(buf) + x, fed)}
  <2>1. PICK p : p = fed - Len(buf)
    OBVIOUS
  <2>2. FindIn(buf, closer) = {x \in 1..Len(buf) : Occurs(spoken, closer, p + x, fed)}
    <3>1. spoken \in Seq(Chars) /\ Holds(buf, fed, spoken) /\ closer \in Seq(Chars)
      BY <1>2, <1>4
    <3>2. Len(closer) >= 1
      BY <1>4
    <3> QED
      BY <2>1, <3>1, <3>2, FoundHeld
  <2> QED
    BY <1>5, <2>1, <2>2
<1>7. B # {} /\ B \in SUBSET Nat
  BY <1>5, <1>6 DEF EndsSpan
<1>8. PICK x \in B : \A y \in B : x <= y
  BY <1>7, LeastNumber
<1>9. Min(B) = x
  BY <1>7, <1>8, LeastIs
<1>a. x \in 1..Len(buf)
  BY <1>6
<1>10. PICK k \in Nat : k = fed - Len(buf) + x
  <2>1. fed - Len(buf) + x \in Nat
    BY <1>2, <1>a
  <2> QED
    BY <2>1
<1>11. x \in 1..Len(buf) /\ Occurs(spoken, closer, k, fed) /\ k + Len(closer) - 1 <= fed /\ k >= fed - Len(buf) + 1
  BY <1>2, <1>6, <1>8, <1>10 DEF Occurs
<1>12. PICK y : y = x + Len(closer)
  OBVIOUS
<1>13. y \in 1..(Len(buf) + 1)
  BY <1>2, <1>4, <1>10, <1>11, <1>12
<1>b. PICK b : b = From(buf, y)
  OBVIOUS
<1>14. Holds(b, fed, spoken) /\ Len(b) = Len(buf) - y + 1
  <2>1. Holds(buf, fed, spoken) /\ spoken \in Seq(Chars)
    BY <1>2
  <2> QED
    BY <1>13, <1>b, <2>1, TailIsHeld
<1>15. /\ inside' = FALSE /\ closer' = <<>> /\ buf' = b
       /\ UNCHANGED <<spoken, fed, flushed, clean, feeding>>
  BY <1>5, <1>9, <1>12, <1>b DEF EndsSpan, Scrub
<1>16. ScrubTypes'
  BY <1>1, <1>14, <1>15 DEF ScrubTypes
<1>17. ASSUME NEW m \in fed..Len(spoken), NEW c, Clears(c, spoken, m)
       PROVE  c[1] = clean \o c[k + Len(closer)]
  <2>1. PICK v \in Seq(Chars) : c[1] = clean \o v /\ SpanLeaves(v, c, spoken, closer, fed - Len(buf) + 1, m)
    BY <1>1, <1>17 DEF Owing, Owes
  <2>2. m \in Nat /\ fed <= m
    BY <1>2, <1>17
  <2>3. Occurs(spoken, closer, k, m)
    BY <1>2, <1>4, <1>11, <2>2, OccursBefore
  <2>4. ASSUME NEW l \in (fed - Len(buf) + 1)..(k - 1), Occurs(spoken, closer, l, m) PROVE FALSE
    <3>1. PICK z \in 1..Len(buf) : l = fed - Len(buf) + z /\ z < x
      <4>1. l - (fed - Len(buf)) \in 1..Len(buf) /\ l = fed - Len(buf) + (l - (fed - Len(buf)))
            /\ l - (fed - Len(buf)) < x
        BY <1>2, <1>10, <1>11, <2>4
      <4> QED
        BY <4>1
    <3>2. l \in Nat /\ l + Len(closer) - 1 <= fed
      BY <1>2, <1>4, <1>11, <2>4
    <3>3. Occurs(spoken, closer, l, fed)
      BY <1>2, <1>4, <2>2, <2>4, <3>2, OccursBefore
    <3>4. z \in B
      BY <1>6, <3>1, <3>3
    <3> QED
      BY <1>8, <1>11, <3>1, <3>4
  <2>5. v = c[k + Len(closer)]
    BY <1>11, <2>1, <2>3, <2>4 DEF SpanLeaves
  <2> QED
    BY <2>1, <2>5
<1>18. Owing'
  <2>1. fed - Len(b) + 1 = k + Len(closer)
    BY <1>2, <1>4, <1>10, <1>11, <1>12, <1>14
  <2>2. fed' - Len(buf') + 1 = k + Len(closer)
    BY <1>15, <2>1
  <2> QED
    BY <1>15, <1>17, <2>2 DEF Owing, Owes
<1> QED
  BY <1>1, <1>15, <1>16, <1>18 DEF ScrubInv

\* Still inside: what is dropped has no beginning of the closing tag.
LEMMA DropsStep ==
  ASSUME ScrubInv, ~flushed, DropsInside
  PROVE  ScrubInv'
<1>1. ScrubTypes /\ Owing /\ inside /\ feeding
  BY DEF ScrubInv, DropsInside
<1>2. /\ spoken \in Seq(Chars) /\ fed \in Nat /\ fed <= Len(spoken) /\ Len(spoken) \in Nat
      /\ Holds(buf, fed, spoken) /\ Len(buf) \in Nat /\ Len(buf) <= fed
  BY <1>1 DEF ScrubTypes, Holds
<1>3. PICK t \in Tags : closer = Closer(t)
  BY <1>1 DEF ScrubTypes
<1>4. closer \in Seq(Chars) /\ Len(closer) \in 4..5
  BY <1>3, TagsAre
<1>5. \A x \in 1..Len(buf) : ~Occurs(spoken, closer, fed - Len(buf) + x, fed)
  <2>1. PICK p : p = fed - Len(buf)
    OBVIOUS
  <2>2. FindIn(buf, closer) = {x \in 1..Len(buf) : Occurs(spoken, closer, p + x, fed)}
    <3>1. spoken \in Seq(Chars) /\ Holds(buf, fed, spoken) /\ closer \in Seq(Chars)
      BY <1>2, <1>4
    <3>2. Len(closer) >= 1
      BY <1>4
    <3> QED
      BY <2>1, <3>1, <3>2, FoundHeld
  <2>3. FindIn(buf, closer) = {}
    BY DEF DropsInside
  <2> QED
    BY <2>1, <2>2, <2>3
<1>6. PICK keep : keep = Min({Len(buf), Len(closer) - 1})
  OBVIOUS
<1>7. keep \in Nat /\ (keep = Len(buf) \/ keep = Len(closer) - 1) /\ keep <= Len(buf) /\ keep < Len(closer)
  <2>1. PICK a, b : a = Len(buf) /\ b = Len(closer) - 1
    OBVIOUS
  <2>a. a \in Nat /\ b \in Nat
    BY <1>2, <1>4, <2>1
  <2>2. keep = Min({a, b})
    BY <1>6, <2>1
  <2>3. CASE a <= b
    <3>1. keep = a
      BY <2>2, <2>a, <2>3, LeastIs
    <3> QED
      BY <1>2, <1>4, <2>1, <2>3, <3>1
  <2>4. CASE ~(a <= b)
    <3>1. keep = b
      BY <2>2, <2>a, <2>4, LeastIs
    <3> QED
      BY <1>2, <1>4, <2>1, <2>4, <3>1
  <2> QED
    BY <2>3, <2>4
<1>8. PICK y : y = Len(buf) - keep + 1
  OBVIOUS
<1>9. y \in 1..(Len(buf) + 1)
  BY <1>2, <1>7, <1>8
<1>10. PICK b : b = From(buf, y)
  OBVIOUS
<1>11. Holds(b, fed, spoken) /\ Len(b) = Len(buf) - y + 1
  <2>1. Holds(buf, fed, spoken) /\ spoken \in Seq(Chars)
    BY <1>2
  <2> QED
    BY <1>9, <1>10, <2>1, TailIsHeld
<1>12. Holds(b, fed, spoken) /\ Len(b) = keep /\ fed - Len(b) + 1 = fed - keep + 1
  BY <1>2, <1>7, <1>8, <1>11
<1>13. /\ inside' = TRUE /\ closer' = closer /\ buf' = b
       /\ UNCHANGED <<spoken, fed, flushed, clean>> /\ feeding' = FALSE
  BY <1>6, <1>8, <1>10 DEF DropsInside, Scrub, KeptTail
<1>14. ScrubTypes'
  BY <1>1, <1>12, <1>13 DEF ScrubTypes
<1>15. ASSUME NEW m \in fed..Len(spoken), NEW c, Clears(c, spoken, m)
       PROVE  Owes(c, m, fed - keep + 1, clean, TRUE, closer, spoken)
  <2>1. PICK i, j : i = fed - Len(buf) + 1 /\ j = fed - keep + 1
    OBVIOUS
  <2>2. PICK v \in Seq(Chars) : c[1] = clean \o v /\ SpanLeaves(v, c, spoken, closer, i, m)
    BY <1>1, <1>15, <2>1 DEF Owing, Owes
  <2>3. m \in Nat /\ fed <= m /\ i \in Nat /\ j \in Nat /\ i <= j
    BY <1>2, <1>7, <1>15, <2>1
  <2>4. ASSUME NEW k \in Nat, i <= k, k < j PROVE ~Occurs(spoken, closer, k, m)
    <3>1. PICK x \in 1..Len(buf) : k = fed - Len(buf) + x
      <4>1. k - (fed - Len(buf)) \in 1..Len(buf) /\ k = fed - Len(buf) + (k - (fed - Len(buf)))
        BY <1>2, <1>7, <2>1, <2>4
      <4> QED
        BY <4>1
    <3>2. k + Len(closer) - 1 <= fed
      BY <1>2, <1>4, <1>7, <2>1, <2>4
    <3>3. Occurs(spoken, closer, k, m) => Occurs(spoken, closer, k, fed)
      BY <1>2, <1>4, <2>3, <3>2, OccursBefore
    <3> QED
      BY <1>5, <3>1, <3>3
  <2>5. SpanLeaves(v, c, spoken, closer, j, m)
    <3>1. ASSUME \A k \in Nat : j <= k => ~Occurs(spoken, closer, k, m) PROVE v = <<>>
      <4>1. ASSUME NEW k \in Nat, i <= k PROVE ~Occurs(spoken, closer, k, m)
        <5>1. j <= k \/ k < j
          BY <2>3
        <5> QED
          BY <2>4, <3>1, <4>1, <5>1
      <4> QED
        BY <2>2, <4>1 DEF SpanLeaves
    <3>2. ASSUME NEW k \in Nat, j <= k, Occurs(spoken, closer, k, m),
                 \A l \in j..(k - 1) : ~Occurs(spoken, closer, l, m)
          PROVE  v = c[k + Len(closer)]
      <4>1. ASSUME NEW l \in i..(k - 1) PROVE ~Occurs(spoken, closer, l, m)
        <5>1. l \in Nat /\ i <= l /\ (l < j \/ l \in j..(k - 1))
          BY <2>3, <3>2, <4>1
        <5> QED
          BY <2>4, <3>2, <5>1
      <4>2. i <= k
        BY <2>3, <3>2
      <4> QED
        BY <2>2, <3>2, <4>1, <4>2 DEF SpanLeaves
    <3> QED
      BY <3>1, <3>2 DEF SpanLeaves
  <2> QED
    BY <2>1, <2>2, <2>5 DEF Owes
<1>16. Owing'
  <2>1. fed' - Len(buf') + 1 = fed - keep + 1
    BY <1>12, <1>13
  <2> QED
    BY <1>13, <1>15, <2>1 DEF Owing
<1>17. Waits(b, TRUE, closer)
  BY <1>7, <1>12 DEF Waits
<1> QED
  BY <1>13, <1>14, <1>16, <1>17 DEF ScrubInv

(* A chunk comes: the buffer still ends where what was fed ends.              *)
LEMMA FeedStep ==
  ASSUME ScrubInv, NEW n \in 1..Len(spoken), Feed(n)
  PROVE  ScrubInv'
<1>1. ScrubTypes /\ Owing /\ ~flushed
  BY DEF ScrubInv, Feed, BetweenChunks
<1>2. /\ spoken \in Seq(Chars) /\ fed \in Nat /\ Len(spoken) \in Nat /\ n \in Nat
      /\ buf \in Seq(Chars) /\ Len(buf) \in Nat /\ Len(buf) <= fed /\ fed + n <= Len(spoken)
      /\ \A j \in 1..Len(buf) : buf[j] = spoken[fed - Len(buf) + j]
  BY <1>1 DEF ScrubTypes, Holds, Feed
<1>3. PICK w, i, k : w = SubSeq(spoken, i, k) /\ i = fed + 1 /\ k = fed + n
  OBVIOUS
<1>4. w \in Seq(Chars) /\ Len(w) = n /\ \A j \in 1..n : w[j] = spoken[fed + j]
  <2>1. i \in Int /\ k \in Int /\ \A l \in i..k : spoken[l] \in Chars
    BY <1>2, <1>3
  <2>2. /\ SubSeq(spoken, i, k) \in Seq(Chars)
        /\ Len(SubSeq(spoken, i, k)) = IF i <= k THEN k - i + 1 ELSE 0
        /\ \A j \in 1..k - i + 1 : SubSeq(spoken, i, k)[j] = spoken[i + j - 1]
    BY <2>1, SubSeqProperties
  <2>3. k - i + 1 = n /\ i <= k /\ \A j \in 1..n : i + j - 1 = fed + j
    BY <1>2, <1>3
  <2> QED
    BY <1>3, <2>2, <2>3
<1>5. PICK b : b = buf \o w
  OBVIOUS
<1>6. /\ b \in Seq(Chars) /\ Len(b) = Len(buf) + n
      /\ \A j \in 1..(Len(buf) + n) : b[j] = IF j <= Len(buf) THEN buf[j] ELSE w[j - Len(buf)]
  <2>1. buf \in Seq(Chars) /\ w \in Seq(Chars)
    BY <1>2, <1>4
  <2>2. /\ buf \o w \in Seq(Chars) /\ Len(buf \o w) = Len(buf) + Len(w)
        /\ \A j \in 1..(Len(buf) + Len(w)) : (buf \o w)[j] = IF j <= Len(buf) THEN buf[j] ELSE w[j - Len(buf)]
    BY <2>1, ConcatProperties
  <2> QED
    BY <1>4, <1>5, <2>2
<1>7. ASSUME NEW j \in 1..Len(b) PROVE b[j] = spoken[(fed + n) - Len(b) + j]
  <2>1. j \in 1..(Len(buf) + n) /\ (fed + n) - Len(b) + j = fed - Len(buf) + j
    BY <1>2, <1>6
  <2>2. CASE j <= Len(buf)
    <3>1. j \in 1..Len(buf)
      BY <1>2, <2>2
    <3>2. buf[j] = spoken[fed - Len(buf) + j]
      BY <1>2, <3>1
    <3>3. b[j] = buf[j]
      BY <1>6, <2>1, <2>2
    <3> QED
      BY <2>1, <3>2, <3>3
  <2>3. CASE ~(j <= Len(buf))
    <3>1. j - Len(buf) \in 1..n /\ fed + (j - Len(buf)) = fed - Len(buf) + j
      BY <1>2, <2>1, <2>3
    <3>2. b[j] = w[j - Len(buf)]
      BY <1>6, <2>1, <2>3
    <3> QED
      BY <1>4, <2>1, <3>1, <3>2
  <2> QED
    BY <2>2, <2>3
<1>8. Holds(b, fed + n, spoken)
  <2>1. fed + n \in 0..Len(spoken) /\ Len(b) <= fed + n
    BY <1>2, <1>6
  <2> QED
    BY <1>6, <1>7, <2>1 DEF Holds
<1>9. /\ fed' = fed + n /\ buf' = b /\ feeding' = TRUE
      /\ UNCHANGED <<spoken, inside, closer, clean, flushed>>
  BY <1>3, <1>5 DEF Feed
<1>10. ScrubTypes'
  BY <1>1, <1>8, <1>9 DEF ScrubTypes
<1>11. Owing'
  <2>1. fed' - Len(buf') + 1 = fed - Len(buf) + 1
    <3>1. (fed + n) - Len(b) + 1 = fed - Len(buf) + 1
      <4>1. Len(b) = Len(buf) + n
        BY <1>6
      <4>2. fed \in Nat /\ n \in Nat /\ Len(buf) \in Nat
        BY <1>2
      <4> QED
        BY <4>1, <4>2
    <3> QED
      BY <1>9, <3>1
  <2>2. \A m \in (fed + n)..Len(spoken) : m \in fed..Len(spoken)
    BY <1>2
  <2> QED
    BY <1>1, <1>9, <2>1, <2>2 DEF Owing
<1> QED
  BY <1>1, <1>9, <1>10, <1>11 DEF ScrubInv

\* The loop ends on an empty buffer.
LEMMA LeavesStep ==
  ASSUME ScrubInv, ~flushed, LeavesFeed
  PROVE  ScrubInv'
<1>1. buf = <<>> /\ feeding' = FALSE /\ UNCHANGED <<spoken, fed, buf, inside, closer, clean, flushed>>
  BY DEF LeavesFeed
<1>2. ScrubTypes /\ Owing
  BY DEF ScrubInv
<1>3. ScrubTypes'
  BY <1>1, <1>2 DEF ScrubTypes
<1>4. Owing'
  BY <1>1, <1>2 DEF Owing
<1>5. Waits(<<>>, inside, closer)
  <2>1. CASE inside
    <3>1. PICK t \in Tags : closer = Closer(t)
      BY <1>2, <2>1 DEF ScrubTypes
    <3>2. Len(<<>>) < Len(closer)
      BY <3>1, TagsAre
    <3> QED
      BY <2>1, <3>2 DEF Waits
  <2>2. CASE ~inside
    BY <2>2 DEF Waits
  <2> QED
    BY <2>1, <2>2
<1> QED
  BY <1>1, <1>3, <1>4, <1>5 DEF ScrubInv

(* Between two chunks the scrubber has passed on all it safely can: of what   *)
(* was fed, the buffer is the rest that is clear.                             *)
LEMMA ClearSoFar ==
  ASSUME ScrubInv, BetweenChunks
  PROVE  /\ clean \o (IF inside THEN <<>> ELSE buf) = Unspanned(SubSeq(spoken, 1, fed))
         /\ ~inside => Len(buf) < MaxPartialKeep
<1>1. ScrubTypes /\ Owing /\ ~flushed /\ Waits(buf, inside, closer)
  BY DEF ScrubInv, BetweenChunks
<1>2. /\ spoken \in Seq(Chars) /\ fed \in Nat /\ fed <= Len(spoken) /\ Len(spoken) \in Nat
      /\ Holds(buf, fed, spoken) /\ buf \in Seq(Chars) /\ Len(buf) \in Nat /\ Len(buf) <= fed
      /\ clean \in Seq(Chars)
  BY <1>1 DEF ScrubTypes, Holds
<1>3. fed \in 0..Len(spoken) /\ fed \in fed..Len(spoken)
  BY <1>2
<1>4. PICK c : Clears(c, spoken, fed) /\ Unspanned(SubSeq(spoken, 1, fed)) = c[1]
  BY <1>2, <1>3, CutIs
<1>5. PICK p : p = fed - Len(buf) + 1
  OBVIOUS
<1>6. Owes(c, fed, p, clean, inside, closer, spoken)
  BY <1>1, <1>3, <1>4, <1>5 DEF Owing
<1>7. CASE inside
  <2>1. PICK t \in Tags : closer = Closer(t)
    BY <1>1, <1>7 DEF ScrubTypes
  <2>2. Len(closer) \in Nat /\ Len(buf) < Len(closer)
    BY <1>1, <1>7, <2>1, TagsAre DEF Waits
  <2>3. PICK v \in Seq(Chars) : c[1] = clean \o v /\ SpanLeaves(v, c, spoken, closer, p, fed)
    BY <1>6, <1>7 DEF Owes
  <2>4. ASSUME NEW k \in Nat, p <= k PROVE ~Occurs(spoken, closer, k, fed)
    <3>1. ~(k + Len(closer) - 1 <= fed)
      BY <1>2, <1>5, <2>2, <2>4
    <3> QED
      BY <3>1 DEF Occurs
  <2>5. v = <<>>
    BY <2>3, <2>4 DEF SpanLeaves
  <2> QED
    BY <1>4, <1>7, <2>3, <2>5
<1>8. CASE ~inside /\ buf = <<>>
  <2>1. p = fed + 1
    BY <1>2, <1>5, <1>8
  <2>2. c[p] = <<>>
    BY <1>4, <2>1 DEF Clears
  <2>3. c[1] = clean \o buf
    BY <1>6, <1>8, <2>2 DEF Owes
  <2>4. Len(buf) < MaxPartialKeep
    BY <1>8, KeepIsFour
  <2> QED
    BY <1>4, <1>8, <2>3, <2>4
<1>9. CASE ~inside /\ buf # <<>>
  <2>1. PICK t \in Tags : /\ Len(buf) < Len(Opener(t))
                          /\ \A j \in 1..Len(buf) : buf[j] = Opener(t)[j]
    BY <1>1, <1>9 DEF Waits
  <2>2. PICK o : o = Opener(t)
    OBVIOUS
  <2>3. o \in Seq(Chars) /\ Len(o) \in 3..4 /\ o[2] = t[1] /\ \A j \in 2..Len(o) : o[j] # "<"
    BY <2>2, TagsAre
  <2>4. Len(buf) < Len(o) /\ Len(buf) >= 1 /\ \A j \in 1..Len(buf) : buf[j] = o[j]
    <3>1. buf \in Seq(Chars) /\ buf # <<>> /\ Len(buf) \in Nat
      BY <1>2, <1>9
    <3>2. Len(buf) # 0
      BY <3>1, EmptySeq
    <3>3. Len(buf) >= 1
      BY <3>1, <3>2
    <3> QED
      BY <2>1, <2>2, <3>3
  <2>5. p \in 1..fed /\ p \in 1..Len(spoken) /\ p + Len(buf) = fed + 1
    <3>1. fed \in Nat /\ fed <= Len(spoken) /\ Len(spoken) \in Nat /\ Len(buf) \in Nat /\ Len(buf) <= fed
      BY <1>2
    <3>2. Len(buf) >= 1
      BY <2>4
    <3> QED
      BY <1>5, <3>1, <3>2
  <2>6. \A j \in 1..Len(buf) : spoken[p + j - 1] = o[j]
    <3>1. \A j \in 1..Len(buf) : buf[j] = spoken[fed - Len(buf) + j] /\ fed - Len(buf) + j = p + j - 1
      BY <1>2, <1>5 DEF Holds
    <3> QED
      BY <2>4, <3>1
  <2>7. ASSUME NEW u \in Tags PROVE ~Occurs(spoken, Opener(u), p, fed)
    <3> SUFFICES ASSUME Occurs(spoken, Opener(u), p, fed) PROVE FALSE
      OBVIOUS
    <3>1. PICK e : e = Opener(u)
      OBVIOUS
    <3>2. Len(e) \in 3..4 /\ e[2] = u[1]
      BY <3>1, TagsAre
    <3>3. p + Len(e) - 1 <= fed /\ \A j \in 1..Len(e) : spoken[p + j - 1] = e[j]
      BY <3>1 DEF Occurs
    <3>4. Len(e) <= Len(buf) /\ 2 \in 1..Len(e) /\ 2 \in 1..Len(buf)
      BY <1>2, <2>5, <3>2, <3>3
    <3>5. e[2] = o[2]
      BY <2>6, <3>3, <3>4
    <3>6. u = t
      BY <2>3, <3>2, <3>5, TagsDiffer
    <3>7. e = o
      BY <2>2, <3>1, <3>6
    <3> QED
      BY <1>2, <2>3, <2>4, <3>4, <3>7
  <2>8. c[p] = <<spoken[p]>> \o c[p + 1]
    BY <1>4, <2>5, <2>7 DEF Clears
  <2>9. c[p + 1] = SubSeq(spoken, p + 1, fed)
    <3>1. PICK i, j : i = p + 1 /\ j = fed + 1
      OBVIOUS
    <3>2. i \in 1..(fed + 1) /\ j \in i..(fed + 1) /\ j - 1 = fed
      BY <1>2, <2>5, <3>1
    <3>3. ASSUME NEW l \in i..(j - 1) PROVE spoken[l] # "<"
      <4>1. PICK y \in 1..Len(buf) : y >= 2 /\ p + y - 1 = l
        <5>1. l - p + 1 \in 1..Len(buf) /\ l - p + 1 >= 2 /\ p + (l - p + 1) - 1 = l
          BY <1>2, <2>5, <3>1, <3>3
        <5> QED
          BY <5>1
      <4>2. y \in 2..Len(o)
        BY <1>2, <2>3, <2>4, <4>1
      <4>3. spoken[l] = o[y]
        BY <2>6, <4>1
      <4>4. o[y] # "<"
        BY <2>3, <4>2
      <4> QED
        BY <4>3, <4>4
    <3>4. c[i] = SubSeq(spoken, i, j - 1) \o c[j]
      <4>1. spoken \in Seq(Chars)
        BY <1>2
      <4>2. fed \in 0..Len(spoken)
        BY <1>3
      <4>3. Clears(c, spoken, fed)
        BY <1>4
      <4>4. i \in 1..(fed + 1)
        BY <3>2
      <4>5. j \in i..(fed + 1)
        BY <3>2
      <4> QED
        BY <3>3, <4>1, <4>2, <4>3, <4>4, <4>5, PassesPlain
    <3>5. c[j] = <<>>
      BY <1>4, <3>1 DEF Clears
    <3>6. SubSeq(spoken, i, fed) \in Seq(Chars)
      <4>1. i \in Int /\ \A l \in i..fed : spoken[l] \in Chars
        BY <1>2, <2>5, <3>1
      <4> QED
        BY <1>2, <4>1, SubSeqProperties
    <3>7. PICK w : w = SubSeq(spoken, i, fed)
      OBVIOUS
    <3>8. w \in Seq(Chars)
      BY <3>6, <3>7
    <3>9. w \o <<>> = w
      BY <3>8, ConcatEmptySeq
    <3>10. c[i] = w
      BY <3>2, <3>4, <3>5, <3>7, <3>9
    <3> QED
      BY <3>1, <3>7, <3>10
  <2>10. c[p] = SubSeq(spoken, p, fed)
    <3>1. fed \in p..Len(spoken)
      BY <1>2, <2>5
    <3>2. SubSeq(spoken, p, fed) = <<spoken[p]>> \o SubSeq(spoken, p + 1, fed)
      BY <1>2, <2>5, <3>1, SubSeqRecursiveFirst
    <3> QED
      BY <2>8, <2>9, <3>2
  <2>11. SubSeq(spoken, p, fed) = buf
    <3>1. PICK x : x = Len(buf)
      OBVIOUS
    <3>2. x \in 0..Len(buf) /\ fed = fed - Len(buf) + x
      BY <1>2, <3>1
    <3>3. SubSeq(buf, 1, x) = SubSeq(spoken, p, fed)
      <4>1. PICK k : k = fed - Len(buf) + x
        OBVIOUS
      <4>2. k = fed
        BY <3>2, <4>1
      <4>3. spoken \in Seq(Chars)
        BY <1>2
      <4>4. Holds(buf, fed, spoken)
        BY <1>2
      <4>5. x \in 0..Len(buf)
        BY <3>2
      <4>6. SubSeq(buf, 1, x) = SubSeq(spoken, p, k)
        BY <1>5, <4>1, <4>3, <4>4, <4>5, FrontIsHeld
      <4> QED
        BY <4>2, <4>6
    <3>4. SubSeq(buf, 1, Len(buf)) = buf
      BY <1>2, SubSeqFull
    <3> QED
      BY <3>1, <3>3, <3>4
  <2>12. c[1] = clean \o buf
    BY <1>6, <1>9, <2>10, <2>11 DEF Owes
  <2>13. Len(buf) < MaxPartialKeep
    BY <1>2, <2>3, <2>4, KeepIsFour
  <2> QED
    BY <1>4, <1>9, <2>12, <2>13
<1> QED
  BY <1>7, <1>8, <1>9

\* The end of the stream.
LEMMA EndOfStreamStep ==
  ASSUME ScrubInv, EndOfStream
  PROVE  ScrubInv'
<1>1. BetweenChunks /\ fed = Len(spoken) /\ ScrubTypes /\ ~feeding
  BY DEF EndOfStream, ScrubInv, BetweenChunks
<1>2. /\ clean' = clean \o (IF inside THEN <<>> ELSE buf)
      /\ clean' \in Seq(Chars)
  <2>1. clean \in Seq(Chars) /\ buf \in Seq(Chars)
    BY <1>1 DEF ScrubTypes, Holds
  <2>2. clean \o <<>> = clean
    BY <2>1, ConcatEmptySeq
  <2>3. clean' = clean \o (IF inside THEN <<>> ELSE buf)
    BY <2>2 DEF EndOfStream
  <2>4. clean \o buf \in Seq(Chars)
    BY <2>1, ConcatProperties
  <2> QED
    BY <2>1, <2>2, <2>3, <2>4
<1>3. /\ buf' = <<>> /\ inside' = FALSE /\ flushed' = TRUE /\ UNCHANGED <<spoken, fed, feeding>>
  BY DEF EndOfStream
<1>4. ScrubTypes'
  <2>1. Holds(<<>>, fed, spoken)
    BY <1>1 DEF ScrubTypes, Holds
  <2> QED
    BY <1>1, <1>2, <1>3, <2>1 DEF ScrubTypes
<1>5. clean' = Unspanned(spoken)
  <2>1. SubSeq(spoken, 1, Len(spoken)) = spoken
    <3>1. spoken \in Seq(Chars)
      BY <1>1 DEF ScrubTypes
    <3> QED
      BY <3>1, SubSeqFull
  <2> QED
    BY <1>1, <1>2, <2>1, ClearSoFar
<1>6. Owing' /\ Waits(<<>>, FALSE, closer')
  BY <1>3 DEF Owing, Waits
<1> QED
  BY <1>1, <1>3, <1>4, <1>5, <1>6 DEF ScrubInv

\* Before anything was fed.
LEMMA ScrubStarts == ScrubInit => ScrubInv
<1> SUFFICES ASSUME ScrubInit PROVE ScrubInv
  OBVIOUS
<1>1. /\ fed = 0 /\ buf = <<>> /\ inside = FALSE /\ closer = <<>> /\ clean = <<>>
      /\ feeding = FALSE /\ flushed = FALSE
  BY DEF ScrubInit
<1>2. spoken \in Seq(Chars)
  <2>1. PICK k \in 0..MaxPieces : \E ss \in [1..k -> TextPieces] : spoken = FlattenSeq(ss)
    BY DEF ScrubInit, Texts
  <2>a. PICK ss \in [1..k -> TextPieces] : spoken = FlattenSeq(ss)
    BY <2>1
  <2>2. k \in Nat
    BY TextAssumption
  <2>3. Seq(STRING) \subseteq Seq(Chars)
    BY DEF Chars
  <2>4. ss \in Seq(Seq(Chars))
    <3>1. TextPieces \subseteq Seq(Chars)
      BY <2>3, TextAssumption
    <3>2. ss \in [1..k -> Seq(Chars)]
      BY <3>1
    <3> QED
      BY <2>2, <3>2
  <2>5. FlattenSeq(ss) \in Seq(Chars)
    BY <2>4, FlatIsSequence
  <2> QED
    BY <2>a, <2>5
<1>3. ScrubTypes
  <2>1. Holds(<<>>, 0, spoken)
    <3>1. <<>> \in Seq(Chars) /\ Len(<<>>) = 0 /\ Len(spoken) \in Nat
      BY <1>2
    <3>2. 0 \in 0..Len(spoken) /\ Len(<<>>) <= 0 /\ \A j \in 1..Len(<<>>) : FALSE
      BY <3>1
    <3> QED
      BY <3>1, <3>2 DEF Holds
  <2>2. Holds(buf, fed, spoken)
    BY <1>1, <2>1
  <2>3. clean \in Seq(Chars)
    BY <1>1
  <2> QED
    BY <1>1, <1>2, <2>2, <2>3 DEF ScrubTypes
<1>4. Owing
  <2>1. fed - Len(buf) + 1 = 1
    BY <1>1
  <2>2. ASSUME NEW m \in fed..Len(spoken), NEW c, Clears(c, spoken, m)
        PROVE  c[1] = <<>> \o c[1]
    <3>1. c[1] \in Seq(Chars)
      <4>1. Len(spoken) \in Nat
        BY <1>2
      <4>2. 1 \in 1..(m + 1)
        BY <1>1, <2>2, <4>1
      <4> QED
        BY <2>2, <4>2 DEF Clears
    <3>2. PICK y : y = c[1]
      OBVIOUS
    <3>3. y \in Seq(Chars)
      BY <3>1, <3>2
    <3>4. <<>> \o y = y
      BY <3>3, ConcatEmptySeq
    <3> QED
      BY <3>2, <3>4
  <2> QED
    BY <1>1, <2>1, <2>2 DEF Owing, Owes
<1>5. Waits(<<>>, FALSE, <<>>)
  BY DEF Waits
<1> QED
  BY <1>1, <1>3, <1>4, <1>5 DEF ScrubInv

\* No step breaks the invariant.
LEMMA ScrubSteps == ScrubInv /\ [ScrubNext]_scrubVars => ScrubInv'
<1> SUFFICES ASSUME ScrubInv, [ScrubNext]_scrubVars PROVE ScrubInv'
  OBVIOUS
<1>0. feeding => ~flushed
  BY DEF ScrubInv
<1>1. CASE \E n \in 1..Len(spoken) : Feed(n)
  BY <1>1, FeedStep
<1>2. CASE LeavesFeed
  BY <1>0, <1>2, LeavesStep DEF LeavesFeed
<1>3. CASE EndsSpan
  BY <1>0, <1>3, EndsStep DEF EndsSpan
<1>4. CASE DropsInside
  BY <1>0, <1>4, DropsStep DEF DropsInside
<1>5. CASE PassesAll
  BY <1>0, <1>5, PassesAllStep DEF PassesAll
<1>6. CASE BeginsSpan
  <2>1. feeding
    BY <1>6 DEF BeginsSpan, AtBracket
  <2> QED
    BY <1>0, <1>6, <2>1, BeginsStep
<1>7. CASE WaitsForMore
  <2>1. feeding
    BY <1>7 DEF WaitsForMore, AtBracket
  <2> QED
    BY <1>0, <1>7, <2>1, WaitsStep
<1>8. CASE PassesBracket
  <2>1. feeding
    BY <1>8 DEF PassesBracket, AtBracket
  <2> QED
    BY <1>0, <1>8, <2>1, PassesStep
<1>9. CASE EndOfStream
  BY <1>9, EndOfStreamStep
<1>10. CASE UNCHANGED scrubVars
  <2>1. UNCHANGED <<spoken, fed, buf, inside, closer, clean, feeding, flushed>>
    BY <1>10 DEF scrubVars
  <2>2. ScrubTypes' /\ Owing'
    BY <2>1 DEF ScrubInv, ScrubTypes, Owing
  <2> QED
    BY <2>1, <2>2 DEF ScrubInv
<1> QED
  BY <1>1, <1>2, <1>3, <1>4, <1>5, <1>6, <1>7, <1>8, <1>9, <1>10 DEF ScrubNext

(* However the stream is cut into chunks, the scrubber of streamed text       *)
(* (feed and flush of context/scrubber.py) passes on exactly the text without *)
(* its spans: between two chunks what was passed on and what is held back     *)
(* outside a span are together what is clear of what was fed, and less than   *)
(* an opening tag is held back; when the stream has ended, what was passed on *)
(* is what is clear of the whole text.                                        *)
THEOREM SpansStayStripped == ScrubSpec => []SpansAreStripped
<1>1. ScrubInv => SpansAreStripped
  <2> SUFFICES ASSUME ScrubInv PROVE SpansAreStripped
    OBVIOUS
  <2>1. flushed => clean = Unspanned(spoken)
    BY DEF ScrubInv
  <2> QED
    BY <2>1, ClearSoFar DEF SpansAreStripped
<1> QED
  BY <1>1, ScrubStarts, ScrubSteps, PTL DEF ScrubSpec

-----------------------------------------------------------------------------
(* A fold whose steps are those of g on what it is made from goes from one    *)
(* element to the next.                                                       *)
GoesOn(f, q, a, g, R) ==
  /\ f[{}] = a
  /\ \A s \in (SUBSET DOMAIN q) \ {{}} :
       f[s \ {Max(s)}] \in R => f[s] = g[<<f[s \ {Max(s)}], q[Max(s)]>>]

GoesTo(f, p, q, a, g) ==
  /\ p[0] = a /\ \A k \in 1..Len(q) : p[k] = g[<<p[k - 1], q[k]>>]
  /\ f[DOMAIN q] = p[Len(q)]

LEMMA FoldTakesSteps ==
  ASSUME NEW E, NEW R, NEW q \in Seq(E), NEW a \in R, NEW g \in [R \X E -> R], NEW f,
         GoesOn(f, q, a, g, R)
  PROVE  \E p \in [0..Len(q) -> R] : GoesTo(f, p, q, a, g)
<1> DEFINE p == [k \in 0..Len(q) |-> f[1..k]]
           S == {k \in 0..Len(q) : f[1..k] \in R}
<1>1. Len(q) \in Nat /\ DOMAIN q = 1..Len(q) /\ \A k \in 1..Len(q) : q[k] \in E
  OBVIOUS
<1>2. f[1..0] = a
  <2>1. 1..0 = {}
    OBVIOUS
  <2> QED
    BY <2>1 DEF GoesOn
<1>3. ASSUME NEW k \in 1..Len(q), f[1..(k - 1)] \in R
      PROVE  f[1..k] = g[<<f[1..(k - 1)], q[k]>>] /\ f[1..k] \in R
  <2>1. 1..k \in (SUBSET DOMAIN q) \ {{}} /\ (1..k) \ {k} = 1..(k - 1) /\ k \in Nat /\ k \in 1..k
    <3>1. k \in Nat /\ k <= Len(q) /\ k >= 1
      BY <1>1
    <3>2. k \in 1..k /\ (1..k) \ {k} = 1..(k - 1)
      BY <3>1
    <3>3. 1..k \subseteq 1..Len(q)
      BY <1>1, <3>1
    <3> QED
      BY <1>1, <3>1, <3>2, <3>3
  <2>2. Max(1..k) = k
    BY <2>1, GreatestIs
  <2>3. f[1..k] = g[<<f[1..(k - 1)], q[k]>>]
    BY <1>3, <2>1, <2>2 DEF GoesOn
  <2>4. <<f[1..(k - 1)], q[k]>> \in R \X E
    BY <1>1, <1>3
  <2> QED
    BY <2>3, <2>4
<1>4. 0..Len(q) \subseteq S
  <2>1. 0 \in S
    BY <1>1, <1>2
  <2>2. ASSUME NEW k \in 0..Len(q), k \in S, k + 1 <= Len(q) PROVE k + 1 \in S
    <3>1. PICK l \in 1..Len(q) : l = k + 1
      BY <1>1, <2>2
    <3>2. l - 1 = k /\ l \in 0..Len(q)
      BY <1>1, <3>1
    <3>3. f[1..(l - 1)] \in R
      BY <2>2, <3>2
    <3>4. f[1..l] \in R
      BY <1>3, <3>3
    <3> QED
      BY <3>1, <3>2, <3>4
  <2> HIDE DEF S
  <2> QED
    BY <1>1, <2>1, <2>2, StepByStep
<1>5. p \in [0..Len(q) -> R] /\ p[0] = a
  BY <1>1, <1>2, <1>4
<1>6. ASSUME NEW k \in 1..Len(q) PROVE p[k] = g[<<p[k - 1], q[k]>>]
  <2>1. k \in 0..Len(q) /\ k - 1 \in 0..Len(q)
    BY <1>1
  <2>2. f[1..(k - 1)] \in R
    BY <1>4, <2>1
  <2> QED
    BY <1>3, <2>1, <2>2
<1>7. f[DOMAIN q] = p[Len(q)]
  BY <1>1
<1> HIDE DEF p
<1> QED
  BY <1>5, <1>6, <1>7 DEF GoesTo

-----------------------------------------------------------------------------
(* The chunks of a document. The numbers of its lines, and of the empty line: *)
LineNumbers == 0..Len(doc)

LEMMA LineWeights ==
  ASSUME doc \in Seq(DocLines), NEW l \in LineNumbers
  PROVE  LineLength(l) \in Nat /\ LineCost(l) \in Nat /\ 1 <= LineCost(l) /\ 1 + LineLength(l) <= 4 * LineCost(l)
<1>1. LineLength(l) \in Nat
  <2>1. CASE l = 0
    BY <2>1 DEF LineLength
  <2>2. CASE l # 0
    <3>1. doc[l] \in DocLines
      BY <2>2 DEF LineNumbers
    <3>2. CASE doc[l] = [kind |-> "blank", n |-> 0]
      BY <2>2, <3>2 DEF LineLength, IsKind
    <3>3. CASE doc[l] \in [kind : {"heading"}, n : Levels]
      BY <2>2, <3>3, ChunkerAssumption DEF LineLength, IsKind
    <3>4. CASE doc[l] \in [kind : {"text"}, n : Lengths]
      BY <2>2, <3>4, ChunkerAssumption DEF LineLength, IsKind
    <3> QED
      BY <3>1, <3>2, <3>3, <3>4 DEF DocLines
  <2> QED
    BY <2>1, <2>2
<1>2. PICK n \in Nat : n = LineLength(l)
  BY <1>1
<1>3. TokensOf(n) \in Nat /\ 1 + n <= 4 * (TokensOf(n) + 1)
  BY DEF TokensOf
<1> QED
  BY <1>2, <1>3 DEF LineCost

\* What a sequence of lines costs, line by line.
LEMMA CostIs ==
  ASSUME doc \in Seq(DocLines), NEW q \in Seq(LineNumbers)
  PROVE  \E p \in [0..Len(q) -> Nat] :
           /\ p[0] = 0 /\ \A k \in 1..Len(q) : p[k] = p[k - 1] + LineCost(q[k])
           /\ Cost(q) = p[Len(q)]
<1> DEFINE E == LineNumbers
           g == [x \in Nat \X E |-> x[1] + LineCost(x[2])]
           body(F, s) == IF s = {} THEN 0 ELSE F[s \ {Max(s)}] + LineCost(q[Max(s)])
           Is(F) == F = [s \in SUBSET DOMAIN q |-> body(F, s)]
<1>0. Len(q) \in Nat /\ DOMAIN q = 1..Len(q) /\ \A k \in 1..Len(q) : q[k] \in E
  OBVIOUS
<1>1. g \in [Nat \X E -> Nat] /\ 0 \in Nat
  BY LineWeights
<1>2. PICK h \in [SUBSET DOMAIN q -> Nat] : Folds(h, q, 0, g)
  BY <1>1, FoldIsThere
<1>3. ASSUME NEW s \in SUBSET DOMAIN q PROVE h[s] = body(h, s)
  <2>1. CASE s = {}
    BY <1>2, <2>1 DEF Folds
  <2>2. CASE s # {}
    <3>1. Max(s) \in DOMAIN q
      BY <1>0, <2>2, MaxIsIn
    <3>2. <<h[s \ {Max(s)}], q[Max(s)]>> \in Nat \X E
      BY <3>1
    <3>3. h[s] = g[<<h[s \ {Max(s)}], q[Max(s)]>>]
      BY <1>2, <2>2 DEF Folds
    <3> QED
      BY <2>2, <3>2, <3>3
  <2> QED
    BY <2>1, <2>2
<1>4. Is(h)
  BY <1>3
<1>5. Is(CHOOSE F : Is(F))
  BY <1>4, Zenon
<1>6. Cost(q) = (CHOOSE F : Is(F))[DOMAIN q]
  BY Zenon DEF Cost, FoldLeft, MapThenFoldSet
<1> DEFINE f == CHOOSE F : Is(F)
<1>7. \A s \in SUBSET DOMAIN q : f[s] = body(f, s)
  <2> HIDE DEF body
  <2> QED
    BY <1>5, Zenon
<1> HIDE DEF f
<1>8. f[{}] = 0
  BY <1>7
<1>9. ASSUME NEW s \in (SUBSET DOMAIN q) \ {{}}, f[s \ {Max(s)}] \in Nat
      PROVE  f[s] = g[<<f[s \ {Max(s)}], q[Max(s)]>>]
  <2>1. Max(s) \in DOMAIN q
    BY <1>0, <1>9, MaxIsIn
  <2>2. <<f[s \ {Max(s)}], q[Max(s)]>> \in Nat \X E
    BY <1>9, <2>1
  <2> QED
    BY <1>7, <1>9, <2>2
<1>10. PICK p \in [0..Len(q) -> Nat] :
         /\ p[0] = 0 /\ \A k \in 1..Len(q) : p[k] = g[<<p[k - 1], q[k]>>]
         /\ f[DOMAIN q] = p[Len(q)]
  <2>1. PICK a, R, z, w, D : a = 0 /\ R = Nat /\ z = f /\ w = g /\ D = E
    OBVIOUS
  <2>2. q \in Seq(D)
    BY <2>1
  <2>3. w \in [R \X D -> R]
    BY <1>1, <2>1
  <2>4. a \in R
    BY <1>1, <2>1
  <2> HIDE DEF g, E
  <2>5. GoesOn(z, q, a, w, R)
    BY <1>8, <1>9, <2>1 DEF GoesOn
  <2>6. PICK p \in [0..Len(q) -> R] : GoesTo(z, p, q, a, w)
    BY <2>2, <2>3, <2>4, <2>5, FoldTakesSteps
  <2> QED
    BY <2>1, <2>6 DEF GoesTo
<1>11. ASSUME NEW k \in 1..Len(q) PROVE p[k] = p[k - 1] + LineCost(q[k])
  <2>1. k - 1 \in 0..Len(q)
    BY <1>0
  <2>2. PICK y \in Nat, e \in E : y = p[k - 1] /\ e = q[k]
    BY <1>0, <2>1
  <2>3. p[k] = g[<<y, e>>]
    BY <1>10, <2>2
  <2>4. g[<<y, e>>] = y + LineCost(e)
    OBVIOUS
  <2> QED
    BY <2>2, <2>3, <2>4
<1>12. Cost(q) = p[Len(q)]
  BY <1>6, <1>10 DEF f
<1> QED
  BY <1>10, <1>11, <1>12

\* The characters of a text, line by line.
LEMMA LengthIs ==
  ASSUME doc \in Seq(DocLines), NEW q \in Seq(LineNumbers)
  PROVE  \E p \in [0..Len(q) -> Int] :
           /\ p[0] = -1 /\ \A k \in 1..Len(q) : p[k] = p[k - 1] + 1 + LineLength(q[k])
           /\ TextLength(q) = p[Len(q)]
<1> DEFINE E == LineNumbers
           g == [x \in Int \X E |-> x[1] + 1 + LineLength(x[2])]
           body(F, s) == IF s = {} THEN -1 ELSE F[s \ {Max(s)}] + 1 + LineLength(q[Max(s)])
           Is(F) == F = [s \in SUBSET DOMAIN q |-> body(F, s)]
<1>0. Len(q) \in Nat /\ DOMAIN q = 1..Len(q) /\ \A k \in 1..Len(q) : q[k] \in E
  OBVIOUS
<1>1. g \in [Int \X E -> Int] /\ -1 \in Int
  BY LineWeights
<1>2. PICK h \in [SUBSET DOMAIN q -> Int] : Folds(h, q, -1, g)
  BY <1>1, FoldIsThere
<1>3. ASSUME NEW s \in SUBSET DOMAIN q PROVE h[s] = body(h, s)
  <2>1. CASE s = {}
    BY <1>2, <2>1 DEF Folds
  <2>2. CASE s # {}
    <3>1. Max(s) \in DOMAIN q
      BY <1>0, <2>2, MaxIsIn
    <3>2. <<h[s \ {Max(s)}], q[Max(s)]>> \in Int \X E
      BY <3>1
    <3>3. h[s] = g[<<h[s \ {Max(s)}], q[Max(s)]>>]
      BY <1>2, <2>2 DEF Folds
    <3> QED
      BY <2>2, <3>2, <3>3
  <2> QED
    BY <2>1, <2>2
<1>4. Is(h)
  BY <1>3
<1>5. Is(CHOOSE F : Is(F))
  BY <1>4, Zenon
<1>6. TextLength(q) = (CHOOSE F : Is(F))[DOMAIN q]
  BY Zenon DEF TextLength, FoldLeft, MapThenFoldSet
<1> DEFINE f == CHOOSE F : Is(F)
<1>7. \A s \in SUBSET DOMAIN q : f[s] = body(f, s)
  <2> HIDE DEF body
  <2> QED
    BY <1>5, Zenon
<1> HIDE DEF f
<1>8. f[{}] = -1
  BY <1>7
<1>9. ASSUME NEW s \in (SUBSET DOMAIN q) \ {{}}, f[s \ {Max(s)}] \in Int
      PROVE  f[s] = g[<<f[s \ {Max(s)}], q[Max(s)]>>]
  <2>1. Max(s) \in DOMAIN q
    BY <1>0, <1>9, MaxIsIn
  <2>2. <<f[s \ {Max(s)}], q[Max(s)]>> \in Int \X E
    BY <1>9, <2>1
  <2> QED
    BY <1>7, <1>9, <2>2
<1>10. PICK p \in [0..Len(q) -> Int] :
         /\ p[0] = -1 /\ \A k \in 1..Len(q) : p[k] = g[<<p[k - 1], q[k]>>]
         /\ f[DOMAIN q] = p[Len(q)]
  <2>1. PICK a, R, z, w, D : a = -1 /\ R = Int /\ z = f /\ w = g /\ D = E
    OBVIOUS
  <2>2. q \in Seq(D)
    BY <2>1
  <2>3. w \in [R \X D -> R]
    BY <1>1, <2>1
  <2>4. a \in R
    BY <1>1, <2>1
  <2> HIDE DEF g, E
  <2>5. GoesOn(z, q, a, w, R)
    BY <1>8, <1>9, <2>1 DEF GoesOn
  <2>6. PICK p \in [0..Len(q) -> R] : GoesTo(z, p, q, a, w)
    BY <2>2, <2>3, <2>4, <2>5, FoldTakesSteps
  <2> QED
    BY <2>1, <2>6 DEF GoesTo
<1>11. ASSUME NEW k \in 1..Len(q) PROVE p[k] = p[k - 1] + 1 + LineLength(q[k])
  <2>1. k - 1 \in 0..Len(q)
    BY <1>0
  <2>2. PICK y \in Int, e \in E : y = p[k - 1] /\ e = q[k]
    BY <1>0, <2>1
  <2>3. p[k] = g[<<y, e>>]
    BY <1>10, <2>2
  <2>4. g[<<y, e>>] = y + 1 + LineLength(e)
    OBVIOUS
  <2> QED
    BY <2>2, <2>3, <2>4
<1>12. TextLength(q) = p[Len(q)]
  BY <1>6, <1>10 DEF f
<1> QED
  BY <1>10, <1>11, <1>12

(* An estimate is at most the sum of what the lines cost.                     *)
LEMMA EstimateIs ==
  ASSUME doc \in Seq(DocLines), NEW q \in Seq(LineNumbers)
  PROVE  /\ Cost(q) \in Nat /\ Estimate(q) \in Nat
         /\ Len(q) >= 1 => Estimate(q) <= Cost(q)
<1>0. Len(q) \in Nat /\ \A k \in 1..Len(q) : q[k] \in LineNumbers
  OBVIOUS
<1>1. PICK p \in [0..Len(q) -> Nat] :
        /\ p[0] = 0 /\ \A k \in 1..Len(q) : p[k] = p[k - 1] + LineCost(q[k])
        /\ Cost(q) = p[Len(q)]
  BY CostIs
<1>2. PICK t \in [0..Len(q) -> Int] :
        /\ t[0] = -1 /\ \A k \in 1..Len(q) : t[k] = t[k - 1] + 1 + LineLength(q[k])
        /\ TextLength(q) = t[Len(q)]
  BY LengthIs
<1> DEFINE S == {k \in 0..Len(q) : t[k] + 1 <= 4 * p[k] /\ k <= p[k]}
<1>3. 0..Len(q) \subseteq S
  <2>1. 0 \in S
    BY <1>0, <1>1, <1>2
  <2>2. ASSUME NEW k \in 0..Len(q), k \in S, k + 1 <= Len(q) PROVE k + 1 \in S
    <3>1. PICK l \in 1..Len(q) : l = k + 1
      BY <1>0, <2>2
    <3>2. l - 1 = k /\ l \in 0..Len(q)
      BY <1>0, <3>1
    <3>3. p[l] = p[k] + LineCost(q[l]) /\ t[l] = t[k] + 1 + LineLength(q[l])
      BY <1>1, <1>2, <3>2
    <3>4. PICK w, c : w = LineLength(q[l]) /\ c = LineCost(q[l])
      OBVIOUS
    <3>5. w \in Nat /\ c \in Nat /\ 1 <= c /\ 1 + w <= 4 * c
      BY <1>0, <3>4, LineWeights
    <3>6. PICK x \in Int, y \in Nat : x = t[k] /\ y = p[k]
      BY <1>0
    <3>7. x + 1 <= 4 * y /\ k <= y
      BY <2>2, <3>6
    <3>8. t[l] = x + 1 + w /\ p[l] = y + c
      BY <3>3, <3>4, <3>6
    <3>9. (x + 1 + w) + 1 <= 4 * (y + c) /\ l <= y + c
      <4>1. k \in Nat
        BY <1>0
      <4> QED
        BY <3>1, <3>5, <3>7, <4>1
    <3>10. t[l] + 1 <= 4 * p[l] /\ l <= p[l]
      BY <3>8, <3>9
    <3> QED
      BY <3>1, <3>2, <3>10
  <2> HIDE DEF S
  <2> QED
    BY <1>0, <2>1, <2>2, StepByStep
<1>4. PICK T, C : T = TextLength(q) /\ C = Cost(q)
  OBVIOUS
<1>5. T \in Int /\ C \in Nat /\ T + 1 <= 4 * C /\ Len(q) <= C
  <2>1. Len(q) \in 0..Len(q)
    BY <1>0
  <2> QED
    BY <1>1, <1>2, <1>3, <1>4, <2>1
<1>6. TokensOf(T) \in Nat /\ (Len(q) >= 1 => TokensOf(T) <= C)
  BY <1>0, <1>5 DEF TokensOf
<1> QED
  BY <1>4, <1>5, <1>6 DEF Estimate

\* One line more.
LEMMA CostOfMore ==
  ASSUME doc \in Seq(DocLines), NEW q \in Seq(LineNumbers), NEW l \in LineNumbers
  PROVE  Cost(Append(q, l)) = Cost(q) + LineCost(l)
<1>1. PICK r : r = Append(q, l)
  OBVIOUS
<1>2. /\ r \in Seq(LineNumbers) /\ Len(q) \in Nat /\ Len(r) = Len(q) + 1 /\ r[Len(q) + 1] = l
      /\ \A k \in 1..Len(q) : r[k] = q[k]
  BY <1>1
<1>3. PICK p \in [0..Len(q) -> Nat] :
        /\ p[0] = 0 /\ \A k \in 1..Len(q) : p[k] = p[k - 1] + LineCost(q[k])
        /\ Cost(q) = p[Len(q)]
  BY CostIs
<1>4. PICK u \in [0..Len(r) -> Nat] :
        /\ u[0] = 0 /\ \A k \in 1..Len(r) : u[k] = u[k - 1] + LineCost(r[k])
        /\ Cost(r) = u[Len(r)]
  BY <1>2, CostIs
<1> DEFINE S == {k \in 0..Len(q) : u[k] = p[k]}
<1>5. 0..Len(q) \subseteq S
  <2>1. 0 \in S
    BY <1>2, <1>3, <1>4
  <2>2. ASSUME NEW k \in 0..Len(q), k \in S, k + 1 <= Len(q) PROVE k + 1 \in S
    <3>1. PICK m \in 1..Len(q) : m = k + 1
      BY <1>2, <2>2
    <3>2. m - 1 = k /\ m \in 0..Len(q) /\ m \in 1..Len(r)
      BY <1>2, <3>1
    <3>3. p[m] = p[k] + LineCost(q[m]) /\ u[m] = u[k] + LineCost(r[m]) /\ r[m] = q[m] /\ u[k] = p[k]
      BY <1>2, <1>3, <1>4, <2>2, <3>2
    <3> QED
      BY <3>1, <3>2, <3>3
  <2> HIDE DEF S
  <2> QED
    BY <1>2, <2>1, <2>2, StepByStep
<1>6. u[Len(q)] = p[Len(q)] /\ Len(q) + 1 \in 1..Len(r) /\ (Len(q) + 1) - 1 = Len(q)
  <2>1. Len(q) \in 0..Len(q) /\ Len(q) + 1 \in 1..Len(r) /\ (Len(q) + 1) - 1 = Len(q)
    BY <1>2
  <2>2. Len(q) \in S
    <3> HIDE DEF S
    <3> QED
      BY <1>5, <2>1
  <2> QED
    BY <2>1, <2>2
<1>7. u[Len(q) + 1] = u[Len(q)] + LineCost(l)
  BY <1>2, <1>4, <1>6
<1> QED
  BY <1>1, <1>2, <1>3, <1>4, <1>6, <1>7

(* The lines from behind the a-th to the b-th.                                *)
Run(a, b) == [i \in 1..(b - a) |-> a + i]

LEMMA RunIs ==
  ASSUME NEW a \in Nat, NEW b \in Nat, a <= b, b <= Len(doc), doc \in Seq(DocLines)
  PROVE  /\ Run(a, b) \in Seq(LineNumbers) /\ Len(Run(a, b)) = b - a
         /\ \A i \in 1..(b - a) : Run(a, b)[i] = a + i
<1>1. b - a \in Nat /\ Len(doc) \in Nat
  OBVIOUS
<1>2. PICK n \in Nat : n = b - a
  BY <1>1
<1>3. \A i \in 1..n : a + i \in LineNumbers
  BY <1>1, <1>2 DEF LineNumbers
<1> QED
  BY <1>2, <1>3 DEF Run

\* A line more, as one line and behind a run.
LEMMA RunOfMore ==
  ASSUME NEW a \in Nat, NEW b \in Nat, a <= b, b + 1 <= Len(doc), doc \in Seq(DocLines),
         NEW l, l = b + 1
  PROVE  <<l>> = Run(b, l) /\ Append(Run(a, b), l) = Run(a, l)
<1>0. PICK n \in Nat : n = b - a
  OBVIOUS
<1>1. /\ Run(a, b) \in Seq(LineNumbers) /\ Len(Run(a, b)) = n
      /\ \A i \in 1..n : Run(a, b)[i] = a + i
  <2>1. b <= Len(doc)
    <3>1. Len(doc) \in Nat
      OBVIOUS
    <3> QED
      BY <3>1
  <2> QED
    BY <1>0, <2>1, RunIs
<1>2. l - a = n + 1 /\ l = a + (n + 1) /\ l - b = 1
  BY <1>0
<1>3. <<l>> = Run(b, l)
  <2>1. \A i \in 1..1 : b + i = l
    OBVIOUS
  <2> QED
    BY <1>2, <2>1 DEF Run
<1>4. PICK r : r = Run(a, b)
  OBVIOUS
<1>5. Append(r, l) = [i \in 1..(n + 1) |-> IF i = n + 1 THEN l ELSE r[i]]
  BY <1>1, <1>4
<1>6. \A i \in 1..(n + 1) : (IF i = n + 1 THEN l ELSE r[i]) = a + i
  BY <1>0, <1>1, <1>2, <1>4
<1>7. Append(r, l) = [i \in 1..(n + 1) |-> a + i]
  BY <1>5, <1>6
<1> QED
  BY <1>2, <1>3, <1>4, <1>7 DEF Run

(* Where the pieces of the lines behind the a-th up to the b-th end.          *)
Cuts(e, pieces, a, b) ==
  /\ pieces \in Seq(Seq(LineNumbers)) /\ e \in [0..Len(pieces) -> Nat]
  /\ e[0] = a /\ e[Len(pieces)] = b
  /\ \A k \in 1..Len(pieces) :
       /\ a <= e[k - 1] /\ e[k - 1] < e[k] /\ e[k] <= b
       /\ pieces[k] = Run(e[k - 1], e[k])
       /\ e[k] = e[k - 1] + 1 \/ Cost(pieces[k]) <= ChunkLimit

AddsLine(pieces, l) ==
  IF pieces # <<>> /\ Cost(Last(pieces)) + LineCost(l) <= ChunkLimit
  THEN Append(Front(pieces), Append(Last(pieces), l))
  ELSE Append(pieces, <<l>>)

Extends(r, pieces, l, m) ==
  /\ m >= 1 /\ Cost(pieces[m]) + LineCost(l) <= ChunkLimit
  /\ Len(r) = m /\ r[m] = Append(pieces[m], l)
  /\ \A k \in 1..(m - 1) : r[k] = pieces[k]
BeginsOne(r, pieces, l, m) ==
  /\ Len(r) = m + 1 /\ r[m + 1] = <<l>>
  /\ \A k \in 1..m : r[k] = pieces[k]

LEMMA AddsLineIs ==
  ASSUME NEW pieces \in Seq(Seq(LineNumbers)), NEW l \in LineNumbers, NEW m, m = Len(pieces),
         NEW r, r = AddsLine(pieces, l)
  PROVE  r \in Seq(Seq(LineNumbers)) /\ (Extends(r, pieces, l, m) \/ BeginsOne(r, pieces, l, m))
<1>1. m \in Nat /\ \A k \in 1..m : pieces[k] \in Seq(LineNumbers)
  OBVIOUS
<1>2. CASE pieces # <<>> /\ Cost(Last(pieces)) + LineCost(l) <= ChunkLimit
  <2>1. m >= 1
    BY <1>1, <1>2
  <2>2. PICK f : f = SubSeq(pieces, 1, m - 1)
    OBVIOUS
  <2>3. f \in Seq(Seq(LineNumbers)) /\ Len(f) = m - 1 /\ \A k \in 1..(m - 1) : f[k] = pieces[k]
    <3>1. \A k \in 1..(m - 1) : pieces[k] \in Seq(LineNumbers)
      BY <1>1
    <3>2. /\ SubSeq(pieces, 1, m - 1) \in Seq(Seq(LineNumbers))
          /\ Len(SubSeq(pieces, 1, m - 1)) = IF 1 <= m - 1 THEN (m - 1) - 1 + 1 ELSE 0
          /\ \A k \in 1..(m - 1) - 1 + 1 : SubSeq(pieces, 1, m - 1)[k] = pieces[1 + k - 1]
      BY <1>1, <3>1, SubSeqProperties
    <3> QED
      BY <1>1, <2>1, <2>2, <3>2
  <2>4. PICK z : z = Append(pieces[m], l)
    OBVIOUS
  <2>5. z \in Seq(LineNumbers)
    BY <1>1, <2>1, <2>4
  <2>6. AddsLine(pieces, l) = Append(f, z)
    BY <1>2, <2>2, <2>4 DEF AddsLine, Last, Front
  <2>7. Append(f, z) \in Seq(Seq(LineNumbers)) /\ Len(Append(f, z)) = m /\ Append(f, z)[m] = z
        /\ \A k \in 1..(m - 1) : Append(f, z)[k] = f[k]
    BY <1>1, <2>1, <2>3, <2>5
  <2>8. Cost(pieces[m]) + LineCost(l) <= ChunkLimit
    BY <1>2 DEF Last
  <2> QED
    BY <2>1, <2>3, <2>4, <2>6, <2>7, <2>8 DEF Extends
<1>3. CASE ~(pieces # <<>> /\ Cost(Last(pieces)) + LineCost(l) <= ChunkLimit)
  <2>1. PICK z : z = <<l>>
    OBVIOUS
  <2>2. AddsLine(pieces, l) = Append(pieces, z) /\ z \in Seq(LineNumbers)
    BY <1>3, <2>1 DEF AddsLine
  <2>3. Append(pieces, z) \in Seq(Seq(LineNumbers)) /\ Len(Append(pieces, z)) = m + 1
        /\ Append(pieces, z)[m + 1] = z /\ \A k \in 1..m : Append(pieces, z)[k] = pieces[k]
    BY <1>1, <2>2
  <2> QED
    BY <2>1, <2>2, <2>3 DEF BeginsOne
<1> QED
  BY <1>2, <1>3

LEMMA CutsStep ==
  ASSUME doc \in Seq(DocLines), NEW a \in Nat, NEW b \in Nat, a <= b, b + 1 <= Len(doc),
         NEW e, NEW pieces, Cuts(e, pieces, a, b), NEW l, l = b + 1
  PROVE  \E f : Cuts(f, AddsLine(pieces, l), a, l)
<1>1. /\ pieces \in Seq(Seq(LineNumbers)) /\ e \in [0..Len(pieces) -> Nat]
      /\ e[0] = a /\ e[Len(pieces)] = b /\ Len(pieces) \in Nat
  BY DEF Cuts
<1>2. l \in LineNumbers /\ l \in Nat
  BY DEF LineNumbers
<1>3. PICK m \in Nat : m = Len(pieces)
  BY <1>1
<1>4. PICK r : r = AddsLine(pieces, l)
  OBVIOUS
<1>5. r \in Seq(Seq(LineNumbers)) /\ (Extends(r, pieces, l, m) \/ BeginsOne(r, pieces, l, m))
  BY <1>1, <1>2, <1>3, <1>4, AddsLineIs
<1>6. \A k \in 1..m : /\ a <= e[k - 1] /\ e[k - 1] < e[k] /\ e[k] <= b
                      /\ pieces[k] = Run(e[k - 1], e[k])
                      /\ e[k] = e[k - 1] + 1 \/ Cost(pieces[k]) <= ChunkLimit
  BY <1>3 DEF Cuts
<1>7. \A k \in 0..m : e[k] \in Nat
  BY <1>1, <1>3
<1>8. CASE Extends(r, pieces, l, m)
  <2> USE DEF Extends
  <2>1. PICK f : f = [k \in 0..m |-> IF k = m THEN l ELSE e[k]]
    OBVIOUS
  <2>2. f \in [0..m -> Nat] /\ f[m] = l /\ f[0] = a /\ \A k \in 0..(m - 1) : f[k] = e[k]
    BY <1>1, <1>2, <1>7, <1>8, <2>1
  <2>3. ASSUME NEW k \in 1..m
        PROVE  /\ a <= f[k - 1] /\ f[k - 1] < f[k] /\ f[k] <= l
               /\ r[k] = Run(f[k - 1], f[k])
               /\ f[k] = f[k - 1] + 1 \/ Cost(r[k]) <= ChunkLimit
    <3>1. k - 1 \in 0..(m - 1) /\ k - 1 \in 0..m /\ k \in 0..m /\ f[k - 1] = e[k - 1]
      BY <2>2
    <3>2. CASE k = m
      <4>1. PICK c \in Nat : c = e[m - 1]
        BY <1>7, <3>1, <3>2
      <4>2. a <= c /\ c < b /\ e[m] = b /\ pieces[m] = Run(c, b)
        BY <1>1, <1>3, <1>6, <3>2, <4>1
      <4>3. Append(Run(c, b), l) = Run(c, l)
        BY <4>2, RunOfMore
      <4>4. r[m] = Run(c, l)
        BY <1>8, <4>2, <4>3
      <4>5. Run(c, b) \in Seq(LineNumbers)
        BY <4>2, RunIs
      <4>6. PICK q \in Seq(LineNumbers) : q = pieces[m]
        BY <4>2, <4>5
      <4>7. Cost(Append(q, l)) = Cost(q) + LineCost(l)
        BY <1>2, CostOfMore
      <4>8. Cost(r[m]) <= ChunkLimit
        BY <1>8, <4>6, <4>7
      <4> QED
        BY <2>2, <3>1, <3>2, <4>1, <4>2, <4>4, <4>8
    <3>3. CASE k # m
      <4>1. k \in 0..(m - 1) /\ k \in 1..(m - 1) /\ f[k] = e[k] /\ r[k] = pieces[k]
        BY <1>8, <2>2, <3>3
      <4>2. e[k] <= l
        BY <1>6, <1>7, <3>1
      <4> QED
        BY <1>6, <3>1, <4>1, <4>2
    <3> QED
      BY <3>2, <3>3
  <2>4. Cuts(f, r, a, l)
    BY <1>5, <1>8, <2>2, <2>3 DEF Cuts
  <2> QED
    BY <1>4, <2>4
<1>9. CASE BeginsOne(r, pieces, l, m)
  <2> USE DEF BeginsOne
  <2>1. PICK f : f = [k \in 0..(m + 1) |-> IF k = m + 1 THEN l ELSE e[k]]
    OBVIOUS
  <2>2. f \in [0..(m + 1) -> Nat] /\ f[m + 1] = l /\ f[0] = a /\ \A k \in 0..m : f[k] = e[k]
    BY <1>1, <1>2, <1>7, <2>1
  <2>3. ASSUME NEW k \in 1..(m + 1)
        PROVE  /\ a <= f[k - 1] /\ f[k - 1] < f[k] /\ f[k] <= l
               /\ r[k] = Run(f[k - 1], f[k])
               /\ f[k] = f[k - 1] + 1 \/ Cost(r[k]) <= ChunkLimit
    <3>1. CASE k = m + 1
      <4>1. f[k - 1] = b /\ f[k] = l /\ r[k] = <<l>>
        BY <1>1, <1>3, <1>9, <2>2, <3>1
      <4>2. <<l>> = Run(b, l)
        BY RunOfMore
      <4> QED
        BY <4>1, <4>2
    <3>2. CASE k # m + 1
      <4>1. k \in 1..m /\ k \in 0..m /\ k - 1 \in 0..m /\ f[k] = e[k] /\ f[k - 1] = e[k - 1] /\ r[k] = pieces[k]
        BY <1>9, <2>2, <3>2
      <4>2. e[k] <= l
        BY <1>6, <1>7, <4>1
      <4> QED
        BY <1>6, <4>1, <4>2
    <3> QED
      BY <3>1, <3>2
  <2>4. Cuts(f, r, a, l)
    BY <1>5, <1>9, <2>2, <2>3 DEF Cuts
  <2> QED
    BY <1>4, <2>4
<1> QED
  BY <1>5, <1>8, <1>9

(* A paragraph is cut into its pieces: runs that follow each other, each a    *)
(* single line or within the limit.                                           *)
LEMMA PiecesAre ==
  ASSUME doc \in Seq(DocLines), NEW a \in Nat, NEW b \in Nat, a <= b, b <= Len(doc),
         NEW q, q = Run(a, b)
  PROVE  \E e : Cuts(e, Pieces(q), a, b)
<1> DEFINE E == LineNumbers
           R == Seq(Seq(E))
           g == [x \in R \X E |-> AddsLine(x[1], x[2])]
           body(F, s) == IF s = {} THEN <<>> ELSE
                           IF F[s \ {Max(s)}] # <<>> /\ Cost(Last(F[s \ {Max(s)}])) + LineCost(q[Max(s)]) <= ChunkLimit
                           THEN Append(Front(F[s \ {Max(s)}]), Append(Last(F[s \ {Max(s)}]), q[Max(s)]))
                           ELSE Append(F[s \ {Max(s)}], <<q[Max(s)]>>)
           Is(F) == F = [s \in SUBSET DOMAIN q |-> body(F, s)]
<1>0. /\ q \in Seq(E) /\ Len(q) = b - a /\ \A i \in 1..Len(q) : q[i] = a + i
      /\ Len(q) \in Nat /\ DOMAIN q = 1..Len(q)
  <2>1. Run(a, b) \in Seq(LineNumbers) /\ Len(Run(a, b)) = b - a /\ \A i \in 1..(b - a) : Run(a, b)[i] = a + i
    BY RunIs
  <2> QED
    BY <2>1
<1>1. g \in [R \X E -> R] /\ <<>> \in R
  <2>1. ASSUME NEW x \in R \X E PROVE AddsLine(x[1], x[2]) \in R
    <3>1. PICK y, l : y = x[1] /\ l = x[2]
      OBVIOUS
    <3>2. y \in Seq(Seq(LineNumbers))
      BY <3>1
    <3>3. l \in LineNumbers
      BY <3>1
    <3>4. AddsLine(y, l) \in Seq(Seq(LineNumbers))
      BY <3>2, <3>3, AddsLineIs
    <3> QED
      BY <3>1, <3>4
  <2> QED
    BY <2>1
<1>2. PICK h \in [SUBSET DOMAIN q -> R] : Folds(h, q, <<>>, g)
  BY <1>0, <1>1, FoldIsThere
<1>3. ASSUME NEW s \in SUBSET DOMAIN q PROVE h[s] = body(h, s)
  <2>1. CASE s = {}
    BY <1>2, <2>1 DEF Folds
  <2>2. CASE s # {}
    <3>1. Max(s) \in DOMAIN q
      BY <1>0, <2>2, MaxIsIn
    <3>2. PICK y \in R, l \in E : y = h[s \ {Max(s)}] /\ l = q[Max(s)]
      <4>1. s \ {Max(s)} \in SUBSET DOMAIN q
        OBVIOUS
      <4> HIDE DEF R
      <4>2. h[s \ {Max(s)}] \in R
        BY <1>2, <4>1
      <4>3. q[Max(s)] \in E
        BY <1>0, <3>1
      <4> QED
        BY <4>2, <4>3
    <3>3. h[s] = g[<<y, l>>]
      BY <1>2, <2>2, <3>2 DEF Folds
    <3>4. g[<<y, l>>] = AddsLine(y, l)
      OBVIOUS
    <3> QED
      BY <2>2, <3>2, <3>3, <3>4 DEF AddsLine
  <2> QED
    BY <2>1, <2>2
<1>4. Is(h)
  BY <1>3
<1>5. Is(CHOOSE F : Is(F))
  BY <1>4, Zenon
<1>6. Pieces(q) = (CHOOSE F : Is(F))[DOMAIN q]
  BY Zenon DEF Pieces, FoldLeft, MapThenFoldSet
<1>7. PICK f : f = CHOOSE F : Is(F)
  OBVIOUS
<1>8. \A s \in SUBSET DOMAIN q : f[s] = body(f, s)
  <2> HIDE DEF body
  <2> QED
    BY <1>5, <1>7, Zenon
<1>9. GoesOn(f, q, <<>>, g, R)
  <2>1. f[{}] = <<>>
    BY <1>8
  <2>2. ASSUME NEW s \in (SUBSET DOMAIN q) \ {{}}, f[s \ {Max(s)}] \in R
        PROVE  f[s] = g[<<f[s \ {Max(s)}], q[Max(s)]>>]
    <3>1. Max(s) \in DOMAIN q
      BY <1>0, <2>2, MaxIsIn
    <3>2. PICK y \in R, l \in E : y = f[s \ {Max(s)}] /\ l = q[Max(s)]
      BY <1>0, <2>2, <3>1
    <3>3. f[s] = AddsLine(y, l)
      BY <1>8, <2>2, <3>2 DEF AddsLine
    <3>4. g[<<y, l>>] = AddsLine(y, l)
      OBVIOUS
    <3> QED
      BY <3>2, <3>3, <3>4
  <2> HIDE DEF g, R
  <2> QED
    BY <2>1, <2>2 DEF GoesOn
<1>10. PICK p : p \in [0..Len(q) -> R] /\ GoesTo(f, p, q, <<>>, g)
  <2>1. PICK z, w, S, D : z = <<>> /\ w = g /\ S = R /\ D = E
    OBVIOUS
  <2>2. q \in Seq(D)
    BY <1>0, <2>1
  <2>3. z \in S
    BY <1>1, <2>1
  <2>4. w \in [S \X D -> S]
    BY <1>1, <2>1
  <2>5. GoesOn(f, q, z, w, S)
    BY <1>9, <2>1
  <2> HIDE DEF g, R, E
  <2>6. \E p \in [0..Len(q) -> S] : GoesTo(f, p, q, z, w)
    BY <2>2, <2>3, <2>4, <2>5, FoldTakesSteps
  <2> QED
    BY <2>1, <2>6
<1>11. p[0] = <<>> /\ (\A k \in 1..Len(q) : p[k] = g[<<p[k - 1], q[k]>>]) /\ Pieces(q) = p[Len(q)]
  BY <1>6, <1>7, <1>10 DEF GoesTo
<1> DEFINE S == {k \in 0..Len(q) : \E e : Cuts(e, p[k], a, a + k)}
<1>12. 0..Len(q) \subseteq S
  <2>1. 0 \in S
    <3>1. PICK e : e = [k \in 0..0 |-> a]
      OBVIOUS
    <3>2. Len(<<>>) = 0 /\ <<>> \in Seq(Seq(LineNumbers)) /\ e \in [0..0 -> Nat] /\ e[0] = a /\ a + 0 = a
      BY <3>1
    <3>3. Cuts(e, <<>>, a, a)
      BY <3>2 DEF Cuts
    <3> QED
      BY <1>0, <1>11, <3>2, <3>3
  <2>2. ASSUME NEW k \in 0..Len(q), k \in S, k + 1 <= Len(q) PROVE k + 1 \in S
    <3>1. PICK l \in 1..Len(q) : l = k + 1
      BY <1>0, <2>2
    <3>2. l - 1 = k /\ l \in 0..Len(q) /\ a + k \in Nat /\ a + l = (a + k) + 1 /\ a <= a + k /\ (a + k) + 1 <= Len(doc)
      BY <1>0, <3>1
    <3>3. PICK e : Cuts(e, p[k], a, a + k)
      BY <2>2
    <3>4. PICK y \in R, n \in E : y = p[k] /\ n = q[l]
      BY <1>0, <1>10
    <3>5. n = a + l
      BY <1>0, <3>4
    <3>6. p[l] = AddsLine(y, n)
      <4>1. p[l] = g[<<y, n>>]
        BY <1>11, <3>2, <3>4
      <4>2. g[<<y, n>>] = AddsLine(y, n)
        OBVIOUS
      <4> QED
        BY <4>1, <4>2
    <3>7. \E f1 : Cuts(f1, AddsLine(y, n), a, n)
      <4>1. PICK c \in Nat : c = a + k
        BY <3>2
      <4>2. Cuts(e, y, a, c)
        BY <3>3, <3>4, <4>1
      <4>3. a <= c /\ c + 1 <= Len(doc) /\ n = c + 1
        BY <3>2, <3>5, <4>1
      <4> HIDE DEF S, g, R, E
      <4> QED
        BY <4>2, <4>3, CutsStep
    <3> QED
      BY <3>1, <3>2, <3>5, <3>6, <3>7
  <2> HIDE DEF S
  <2> QED
    BY <1>0, <2>1, <2>2, StepByStep
<1>13. Len(q) \in S /\ a + Len(q) = b
  BY <1>0, <1>12
<1> QED
  BY <1>11, <1>13

-----------------------------------------------------------------------------
LinesIn(q) == {q[i] : i \in DOMAIN q} \ {0}

(* What a chunk promises, with the lines of the one before it.                *)
Climbs(q) == \A i, j \in DOMAIN q : i < j /\ q[i] # 0 /\ q[j] # 0 => q[i] < q[j]
OneHeading(q) == \A i \in DOMAIN q : i # 1 /\ q[i] # 0 => ~IsKind(q[i], "heading")
LiesIn(q, prev, start, end) == \A l \in LinesIn(q) \ prev : start <= l /\ l <= end
LiesBehind(q, prev) == \A l \in LinesIn(q) \ prev, k \in prev : k < l
PathOk(path, l) == NoLevelSkipped(l) => {path[i] : i \in DOMAIN path} = Over(l)
IsUnder(q, path) == \A l \in LinesIn(q) : PathOk(path, l)
Fits(c, before) == \E k \in 0..Len(before) : AddsTo(c, before, k)
WholeChunk(c, before) ==
  /\ Climbs(c.lines) /\ OneHeading(c.lines)
  /\ LiesIn(c.lines, LinesIn(before), c.start, c.end) /\ LiesBehind(c.lines, LinesIn(before))
  /\ IsUnder(c.lines, c.path) /\ Fits(c, before)

(* What a flush leaves: last lines of the chunk before, and nothing else.     *)
Takes(before, k) ==
  k > 0 => OverlapTarget > 0 /\ (k = 1 \/ Cost(LastLines(before, k)) <= OverlapTarget)
OnlyRepeats(b, before) ==
  \E k \in 0..Len(before) :
    b.lines = LastLines(before, k) /\ Takes(before, k) /\ b.tokens <= Estimate(b.lines)

(* What the chunks and the builder hold when the lines up to the u-th are     *)
(* taken, under the headings of a path.                                       *)
BeforeChunk(cs, c) == IF c = 1 THEN <<>> ELSE cs[c - 1].lines
Covered(cs, q) == (UNION {LinesIn(cs[c].lines) : c \in DOMAIN cs}) \cup LinesIn(q)
Filling(u) == {l \in 1..u : ~IsKind(l, "blank")}
NoHeading(a, b) == \A g \in (a + 1)..b : ~IsKind(g, "heading")
OpenAt(b, u, path) ==
  /\ b.path = path /\ b.start <= u + 1 /\ b.end <= u + 1
  /\ b.lines = <<>> => b.tokens = 0
  /\ b.lines # <<>> => b.lines[Len(b.lines)] # 0
  /\ \A l \in LinesIn(b.lines) : NoHeading(l, u)
ChunkOf == [lines : Seq(LineNumbers), tokens : Nat, path : Seq(LineNumbers), start : Nat, end : Nat]
OutOf == [chunks : Seq(ChunkOf), builder : ChunkOf]
ChunksWhole(cs) == \A c \in DOMAIN cs : WholeChunk(cs[c], BeforeChunk(cs, c))
Filled(out, u, path) ==
  /\ out \in OutOf /\ OpenAt(out.builder, u, path)
  /\ WholeChunk(out.builder, BeforeChunk(out.chunks, Len(out.chunks) + 1))
  /\ ChunksWhole(out.chunks)
  /\ Covered(out.chunks, out.builder.lines) = Filling(u)

LEMMA SuffixIs ==
  ASSUME NEW q \in Seq(LineNumbers), NEW k \in 1..Len(q), NEW r, r = SubSeq(q, k, Len(q))
  PROVE  /\ r \in Seq(LineNumbers) /\ r # <<>> /\ r[Len(r)] = q[Len(q)]
         /\ LinesIn(r) \subseteq LinesIn(q)
         /\ Climbs(q) => Climbs(r)
         /\ OneHeading(q) => OneHeading(r)
<1>1. Len(q) \in Nat /\ DOMAIN q = 1..Len(q) /\ \A i \in 1..Len(q) : q[i] \in LineNumbers
  OBVIOUS
<1>2. PICK n \in Nat : n = Len(q)
  BY <1>1
<1>3. /\ r \in Seq(LineNumbers) /\ Len(r) = n - k + 1
      /\ \A i \in 1..(n - k + 1) : r[i] = q[k + i - 1]
  <2>1. \A i \in k..n : q[i] \in LineNumbers
    BY <1>1, <1>2
  <2>2. /\ SubSeq(q, k, n) \in Seq(LineNumbers)
        /\ Len(SubSeq(q, k, n)) = IF k <= n THEN n - k + 1 ELSE 0
        /\ \A i \in 1..n - k + 1 : SubSeq(q, k, n)[i] = q[k + i - 1]
    BY <1>1, <1>2, <2>1, SubSeqProperties
  <2> QED
    BY <1>2, <2>2
<1>4. PICK d \in Nat : d = n - k + 1 /\ d >= 1
  <2>1. k \in 1..n
    BY <1>2
  <2>2. n - k + 1 \in Nat /\ n - k + 1 >= 1
    BY <2>1
  <2> QED
    BY <2>2
<1>5. Len(r) = d /\ DOMAIN r = 1..d /\ \A i \in 1..d : k + i - 1 \in 1..n /\ r[i] = q[k + i - 1]
  BY <1>2, <1>3, <1>4
<1>6. r # <<>> /\ r[Len(r)] = q[Len(q)]
  <2>1. d \in 1..d /\ k + d - 1 = n
    BY <1>2, <1>4
  <2>2. r[d] = q[n]
    BY <1>5, <2>1
  <2>3. r # <<>>
    <3>1. Len(r) # 0
      BY <1>4, <1>5
    <3> QED
      BY <3>1
  <2> QED
    BY <1>2, <1>5, <2>2, <2>3
<1>7. LinesIn(r) \subseteq LinesIn(q)
  BY <1>1, <1>2, <1>5 DEF LinesIn
<1>8. ASSUME Climbs(q) PROVE Climbs(r)
  <2> SUFFICES ASSUME NEW i \in 1..d, NEW j \in 1..d, i < j, r[i] # 0, r[j] # 0
               PROVE  r[i] < r[j]
    BY <1>5 DEF Climbs
  <2>1. PICK x \in 1..n, y \in 1..n : x = k + i - 1 /\ y = k + j - 1
    BY <1>5
  <2>2. x < y /\ r[i] = q[x] /\ r[j] = q[y]
    BY <1>5, <2>1
  <2> QED
    BY <1>1, <1>2, <1>8, <2>2 DEF Climbs
<1>9. ASSUME OneHeading(q) PROVE OneHeading(r)
  <2> SUFFICES ASSUME NEW i \in 1..d, i # 1, r[i] # 0
               PROVE  ~IsKind(r[i], "heading")
    BY <1>5 DEF OneHeading
  <2>1. PICK x \in 1..n : x = k + i - 1
    BY <1>5
  <2>2. x # 1 /\ r[i] = q[x]
    BY <1>5, <2>1
  <2> QED
    BY <1>1, <1>2, <1>9, <2>2 DEF OneHeading
<1> QED
  BY <1>3, <1>6, <1>7, <1>8, <1>9

(* What a flush repeats is nothing or the end of the chunk.                   *)
LEMMA CarriedIs ==
  ASSUME doc \in Seq(DocLines), NEW q \in Seq(LineNumbers), q # <<>>, NEW r, r = CarriedOverlap(q)
  PROVE  r = <<>> \/ \E k \in 1..Len(q) : r = SubSeq(q, k, Len(q)) /\ Takes(q, Len(q) - k + 1)
<1>1. CASE OverlapTarget = 0
  BY <1>1 DEF CarriedOverlap
<1>2. CASE OverlapTarget # 0
  <2>1. PICK n \in Nat : n = Len(q) /\ n >= 1 /\ DOMAIN q = 1..n
    OBVIOUS
  <2> DEFINE Fit(k) == k = Len(q) \/ Cost(SubSeq(q, k, Len(q))) <= OverlapTarget
             Is(k) == /\ Fit(k)
                      /\ \A j \in 1..k - 1 : Cost(SubSeq(q, j, Len(q))) > OverlapTarget
             S == {k \in 1..n : Fit(k)}
  <2>2. n \in S /\ S \in SUBSET Nat
    BY <2>1
  <2>3. PICK k \in S : \A j \in S : k <= j
    <3> HIDE DEF S
    <3>1. S # {}
      BY <2>2
    <3> QED
      BY <2>2, <3>1, LeastNumber
  <2>4. ASSUME NEW j \in 1..k - 1 PROVE Cost(SubSeq(q, j, Len(q))) > OverlapTarget
    <3>1. j \in 1..n /\ j < k /\ j \notin S /\ j \in 1..Len(q)
      BY <2>1, <2>3
    <3>2. ~(Cost(SubSeq(q, j, Len(q))) <= OverlapTarget)
      BY <3>1
    <3>3. PICK t : t = SubSeq(q, j, Len(q))
      OBVIOUS
    <3>4. t \in Seq(LineNumbers)
      BY <3>1, <3>3, SuffixIs
    <3>5. Cost(t) \in Nat
      BY <3>4, EstimateIs
    <3> QED
      BY <3>2, <3>3, <3>5, ChunkerAssumption
  <2>5. k \in DOMAIN q /\ Is(k)
    BY <2>1, <2>3, <2>4
  <2>6. PICK x : x = CHOOSE c \in DOMAIN q : Is(c)
    OBVIOUS
  <2>7. x \in DOMAIN q /\ Is(x)
    <3> HIDE DEF Is
    <3> QED
      BY <2>5, <2>6
  <2>8. CarriedOverlap(q) = SubSeq(q, x, Len(q))
    BY <1>2, <2>6 DEF CarriedOverlap
  <2>9. Takes(q, Len(q) - x + 1)
    <3>1. OverlapTarget > 0
      BY <1>2, ChunkerAssumption
    <3>2. x \in 1..n /\ Len(q) - (Len(q) - x + 1) + 1 = x
      BY <2>1, <2>7
    <3>3. LastLines(q, Len(q) - x + 1) = SubSeq(q, x, Len(q))
      BY <3>2 DEF LastLines
    <3>4. x = Len(q) \/ Cost(SubSeq(q, x, Len(q))) <= OverlapTarget
      BY <2>7
    <3>5. x = Len(q) => Len(q) - x + 1 = 1
      BY <2>1
    <3> QED
      BY <3>1, <3>3, <3>4, <3>5 DEF Takes
  <2> HIDE DEF Is
  <2> QED
    BY <2>1, <2>7, <2>8, <2>9
<1> QED
  BY <1>1, <1>2

-----------------------------------------------------------------------------
\* Without a heading in between, the headings over two lines are the same.
LEMMA OverSame ==
  ASSUME NEW l \in Nat, NEW u \in Nat, l <= u, NoHeading(l, u), NEW path
  PROVE  Over(l) = Over(u) /\ (PathOk(path, l) <=> PathOk(path, u))
<1>1. ASSUME NEW h \in Over(l) PROVE h \in Over(u)
  <2>1. h \in 1..u /\ IsKind(h, "heading")
    BY DEF Over
  <2>2. ASSUME NEW g \in (h + 1)..u, IsKind(g, "heading") PROVE doc[g].n > doc[h].n
    <3>1. h \in 1..l
      BY DEF Over
    <3>2. g \notin (l + 1)..u
      BY <2>2 DEF NoHeading
    <3>3. g \in (h + 1)..l
      BY <3>1, <3>2
    <3> QED
      BY <2>2, <3>3 DEF Over
  <2> QED
    BY <2>1, <2>2 DEF Over
<1>2. ASSUME NEW h \in Over(u) PROVE h \in Over(l)
  <2>1. h \in 1..u /\ IsKind(h, "heading")
    BY DEF Over
  <2>2. h \in 1..l
    <3>1. h \notin (l + 1)..u
      BY <2>1 DEF NoHeading
    <3> QED
      BY <2>1, <3>1
  <2>3. ASSUME NEW g \in (h + 1)..l, IsKind(g, "heading") PROVE doc[g].n > doc[h].n
    <3>1. g \in (h + 1)..u
      BY <2>2
    <3> QED
      BY <2>3, <3>1 DEF Over
  <2> QED
    BY <2>1, <2>2, <2>3 DEF Over
<1>3. Over(l) = Over(u)
  BY <1>1, <1>2
<1>4. NoLevelSkipped(l) <=> NoLevelSkipped(u)
  BY <1>3 DEF NoLevelSkipped
<1> QED
  BY <1>3, <1>4 DEF PathOk

(* The stack: of levels that are all there, from the first, it has the        *)
(* headings at their places, and it is not longer than the headings are deep. *)
HasLevel(l, n) == \E h \in Over(l) : doc[h].n = n
HasLevels(l, k) == \A n \in 1..k : HasLevel(l, n)
InPlace(path, l, k) == \A i \in 1..k : path[i] \in Over(l) /\ doc[path[i]].n = i
StackOk(path, l) ==
  /\ path \in Seq(LineNumbers)
  /\ \A k \in Nat : HasLevels(l, k) => k <= Len(path) /\ InPlace(path, l, k)
  /\ Len(path) = 0 \/ \E h \in Over(l) : Len(path) <= doc[h].n

LEMMA LevelIs ==
  ASSUME doc \in Seq(DocLines), NEW l \in Nat, l <= Len(doc), NEW h \in Over(l)
  PROVE  h \in 1..l /\ h \in Nat /\ doc[h].n \in Nat /\ doc[h].n >= 1
<1>1. h \in 1..l /\ IsKind(h, "heading") /\ h \in 1..Len(doc)
  <2>1. h \in 1..l /\ IsKind(h, "heading")
    BY DEF Over
  <2>2. Len(doc) \in Nat
    OBVIOUS
  <2> QED
    BY <2>1, <2>2
<1>2. doc[h] \in DocLines /\ doc[h].kind = "heading"
  BY <1>1 DEF IsKind
<1>3. doc[h] \in [kind : {"heading"}, n : Levels]
  BY <1>2 DEF DocLines
<1>4. doc[h].n \in 1..6
  BY <1>3, ChunkerAssumption
<1> QED
  BY <1>1, <1>4

LEMMA LevelOnce ==
  ASSUME doc \in Seq(DocLines), NEW l \in Nat, l <= Len(doc), NEW h \in Over(l), NEW g \in Over(l),
         doc[h].n = doc[g].n
  PROVE  h = g
<1>1. h \in 1..l /\ g \in 1..l /\ doc[h].n \in Nat /\ IsKind(h, "heading") /\ IsKind(g, "heading")
  BY LevelIs DEF Over
<1>2. ASSUME h < g PROVE FALSE
  <2>1. g \in (h + 1)..l
    BY <1>1, <1>2
  <2>2. doc[g].n > doc[h].n
    BY <1>1, <2>1 DEF Over
  <2> QED
    BY <1>1, <2>2
<1>3. ASSUME g < h PROVE FALSE
  <2>1. h \in (g + 1)..l
    BY <1>1, <1>3
  <2>2. doc[h].n > doc[g].n
    BY <1>1, <2>1 DEF Over
  <2> QED
    BY <1>1, <2>2
<1> QED
  BY <1>1, <1>2, <1>3

LEMMA StackIsPath ==
  ASSUME doc \in Seq(DocLines), NEW l \in Nat, l <= Len(doc), NEW path, StackOk(path, l)
  PROVE  PathOk(path, l)
<1> SUFFICES ASSUME NoLevelSkipped(l) PROVE {path[i] : i \in DOMAIN path} = Over(l)
  BY DEF PathOk
<1>1. Len(path) \in Nat /\ DOMAIN path = 1..Len(path)
  BY DEF StackOk
<1>2. ASSUME NEW h \in Over(l) PROVE HasLevels(l, doc[h].n)
  BY DEF NoLevelSkipped, HasLevels, HasLevel
<1>3. ASSUME NEW h \in Over(l) PROVE \E i \in DOMAIN path : path[i] = h
  <2>1. PICK k \in Nat : k = doc[h].n /\ k >= 1
    BY LevelIs
  <2>2. HasLevels(l, k)
    BY <1>2, <2>1
  <2>3. k <= Len(path) /\ InPlace(path, l, k)
    BY <2>2 DEF StackOk
  <2>4. k \in 1..k /\ k \in DOMAIN path
    BY <1>1, <2>1, <2>3
  <2>5. path[k] \in Over(l) /\ doc[path[k]].n = k
    BY <2>3, <2>4 DEF InPlace
  <2>6. PICK g \in Over(l) : g = path[k]
    BY <2>5
  <2>7. doc[g].n = doc[h].n
    BY <2>1, <2>5, <2>6
  <2>8. g = h
    BY <2>7, LevelOnce
  <2> QED
    BY <2>4, <2>6, <2>8
<1>4. ASSUME NEW i \in DOMAIN path PROVE path[i] \in Over(l)
  <2>1. PICK h \in Over(l) : Len(path) <= doc[h].n
    BY <1>1 DEF StackOk
  <2>2. HasLevels(l, doc[h].n) /\ doc[h].n \in Nat
    BY <1>2, LevelIs
  <2>3. PICK m \in Nat : m = Len(path)
    BY <1>1
  <2>4. HasLevels(l, m)
    BY <2>1, <2>2, <2>3 DEF HasLevels
  <2>5. InPlace(path, l, m)
    BY <2>4 DEF StackOk
  <2> QED
    BY <1>1, <2>3, <2>5 DEF InPlace
<1> QED
  BY <1>3, <1>4

LEMMA StackStays ==
  ASSUME NEW l \in Nat, NEW u \in Nat, l <= u, NoHeading(l, u), NEW path, StackOk(path, l)
  PROVE  StackOk(path, u)
<1>1. Over(l) = Over(u)
  BY OverSame
<1>2. \A k \in Nat : HasLevels(u, k) => HasLevels(l, k)
  BY <1>1 DEF HasLevels, HasLevel
<1>3. \A k \in Nat : InPlace(path, l, k) => InPlace(path, u, k)
  BY <1>1 DEF InPlace
<1> QED
  BY <1>1, <1>2, <1>3 DEF StackOk

\* The headings over a heading: it, and those of higher rank of before.
LEMMA OverHeading ==
  ASSUME doc \in Seq(DocLines), NEW u \in Nat, NEW l \in Nat, l = u + 1, l <= Len(doc),
         IsKind(l, "heading")
  PROVE  /\ l \in Over(l)
         /\ \A h : h # l => (h \in Over(l) <=> h \in Over(u) /\ doc[h].n < doc[l].n)
<1>1. l \in Over(l)
  BY DEF Over
<1>2. ASSUME NEW h \in Over(l), h # l PROVE h \in Over(u) /\ doc[h].n < doc[l].n
  <2>1. h \in 1..l /\ h \in 1..u /\ IsKind(h, "heading") /\ l \in (h + 1)..l
    <3>1. h \in 1..l /\ IsKind(h, "heading")
      BY DEF Over
    <3> QED
      BY <1>2, <3>1
  <2>2. \A g \in (h + 1)..l : IsKind(g, "heading") => doc[g].n > doc[h].n
    BY DEF Over
  <2>3. \A g \in (h + 1)..u : g \in (h + 1)..l
    OBVIOUS
  <2>4. doc[l].n \in Nat /\ doc[h].n \in Nat /\ doc[l].n > doc[h].n
    BY <1>1, <2>1, <2>2, LevelIs
  <2> QED
    BY <2>1, <2>2, <2>3, <2>4 DEF Over
<1>3. ASSUME NEW h \in Over(u), doc[h].n < doc[l].n PROVE h \in Over(l)
  <2>1. u <= Len(doc)
    <3>1. Len(doc) \in Nat
      OBVIOUS
    <3> QED
      BY <3>1
  <2>2. h \in 1..u /\ doc[h].n \in Nat /\ doc[l].n \in Nat /\ IsKind(h, "heading")
    BY <1>1, <2>1, LevelIs DEF Over
  <2>3. ASSUME NEW g \in (h + 1)..l, IsKind(g, "heading") PROVE doc[g].n > doc[h].n
    <3>1. CASE g = l
      BY <1>3, <2>2, <3>1
    <3>2. CASE g # l
      <4>1. g \in (h + 1)..u
        BY <2>2, <3>2
      <4> QED
        BY <2>3, <4>1 DEF Over
    <3> QED
      BY <3>1, <3>2
  <2>4. h \in 1..l
    BY <2>2
  <2> QED
    BY <2>2, <2>3, <2>4 DEF Over
<1> QED
  BY <1>1, <1>2, <1>3

LEMMA StackGrows ==
  ASSUME doc \in Seq(DocLines), NEW u \in Nat, NEW l \in Nat, l = u + 1, l <= Len(doc),
         IsKind(l, "heading"), NEW path, StackOk(path, u), NEW r, r = UpdatedPath(path, doc[l].n, l)
  PROVE  StackOk(r, l)
<1>1. /\ l \in Over(l)
      /\ \A h : h # l => (h \in Over(l) <=> h \in Over(u) /\ doc[h].n < doc[l].n)
  BY OverHeading
<1>2. PICK n \in Nat : n = doc[l].n /\ n >= 1
  BY <1>1, LevelIs
<1>3. PICK m \in Nat : m = Len(path) /\ path \in Seq(LineNumbers)
  BY DEF StackOk
<1>4. PICK d \in Nat : d = (IF n - 1 < m THEN n - 1 ELSE m) /\ d <= n - 1 /\ d <= m
  BY <1>2
<1>5. PICK f : f = SubSeq(path, 1, d)
  OBVIOUS
<1>6. f \in Seq(LineNumbers) /\ Len(f) = d /\ \A i \in 1..d : f[i] = path[i]
  <2>1. \A i \in 1..d : path[i] \in LineNumbers
    BY <1>3, <1>4
  <2>2. /\ SubSeq(path, 1, d) \in Seq(LineNumbers)
        /\ Len(SubSeq(path, 1, d)) = IF 1 <= d THEN d - 1 + 1 ELSE 0
        /\ \A i \in 1..d - 1 + 1 : SubSeq(path, 1, d)[i] = path[1 + i - 1]
    BY <2>1, SubSeqProperties
  <2>3. /\ SubSeq(path, 1, d) \in Seq(LineNumbers) /\ Len(SubSeq(path, 1, d)) = d
    BY <2>2
  <2>4. \A i \in 1..d : SubSeq(path, 1, d)[i] = path[i]
    BY <2>2
  <2> QED
    BY <1>5, <2>3, <2>4
<1>7. l \in LineNumbers
  BY DEF LineNumbers
<1>8. r = Append(f, l)
  BY <1>2, <1>3, <1>4, <1>5 DEF UpdatedPath
<1>9. /\ r \in Seq(LineNumbers) /\ Len(r) = d + 1 /\ r[d + 1] = l
      /\ \A i \in 1..d : r[i] = path[i]
  <2>1. /\ Append(f, l) \in Seq(LineNumbers) /\ Len(Append(f, l)) = Len(f) + 1
        /\ Append(f, l)[Len(f) + 1] = l /\ \A i \in 1..Len(f) : Append(f, l)[i] = f[i]
    <3>1. f \in Seq(LineNumbers)
      BY <1>6
    <3> QED
      BY <1>7, <3>1, AppendProperties
  <2>2. Len(f) = d
    BY <1>6
  <2> QED
    BY <1>6, <1>8, <2>1, <2>2
<1>10. ASSUME NEW k \in Nat, HasLevels(l, k)
       PROVE  k <= n /\ (k = n \/ HasLevels(u, k))
              /\ \A j \in Nat : j < n /\ j <= k => HasLevels(u, j)
  <2>1. ASSUME NEW j \in 1..k, j # n PROVE j < n /\ HasLevel(u, j)
    <3>1. PICK h \in Over(l) : doc[h].n = j
      BY <1>10 DEF HasLevels, HasLevel
    <3>2. h # l
      BY <1>2, <2>1, <3>1
    <3>3. h \in Over(u) /\ doc[h].n < doc[l].n
      BY <1>1, <3>2
    <3> QED
      BY <1>2, <3>1, <3>3 DEF HasLevel
  <2>2. k <= n
    <3>1. CASE k = 0
      BY <3>1
    <3>2. CASE k # 0
      <4>1. k \in 1..k
        BY <3>2
      <4> QED
        BY <2>1, <4>1
    <3> QED
      BY <3>1, <3>2
  <2>3. \A j \in Nat : j < n /\ j <= k => HasLevels(u, j)
    BY <2>1 DEF HasLevels
  <2> QED
    BY <2>2, <2>3
<1>11. ASSUME NEW k \in Nat, HasLevels(l, k)
       PROVE  k <= d + 1 /\ InPlace(r, l, k)
  <2>1. PICK j \in Nat : j = (IF k = n THEN n - 1 ELSE k)
    BY <1>2
  <2>2. k <= n
    BY <1>10, <1>11
  <2>3. j < n /\ j <= k
    BY <2>1, <2>2, <1>2
  <2>4. HasLevels(u, j)
    BY <1>10, <1>11, <2>3
  <2>5. j <= m /\ InPlace(path, u, j)
    BY <1>3, <2>4 DEF StackOk
  <2>6. j <= d
    BY <1>4, <2>3, <2>5
  <2>7. ASSUME NEW i \in 1..j PROVE r[i] \in Over(l) /\ doc[r[i]].n = i
    <3>1. i \in 1..d /\ r[i] = path[i]
      BY <1>9, <2>6
    <3>2. path[i] \in Over(u) /\ doc[path[i]].n = i
      BY <2>5 DEF InPlace
    <3>3. path[i] # l /\ doc[path[i]].n < doc[l].n
      BY <1>2, <2>3, <3>2
    <3>4. path[i] \in Over(l)
      BY <1>1, <3>2, <3>3
    <3> QED
      BY <3>1, <3>2, <3>4
  <2>8. CASE k = n
    <3>1. j = n - 1 /\ d = n - 1 /\ k = d + 1
      BY <1>2, <1>4, <2>1, <2>6, <2>8
    <3>2. ASSUME NEW i \in 1..k PROVE r[i] \in Over(l) /\ doc[r[i]].n = i
      <4>1. CASE i = k
        BY <1>1, <1>2, <1>9, <2>8, <3>1, <4>1
      <4>2. CASE i # k
        <5>1. i \in 1..j
          BY <3>1, <4>2
        <5> QED
          BY <2>7, <5>1
      <4> QED
        BY <4>1, <4>2
    <3> QED
      BY <3>1, <3>2 DEF InPlace
  <2>9. CASE k # n
    <3>1. j = k
      BY <2>1, <2>9
    <3> QED
      BY <2>6, <2>7, <3>1 DEF InPlace
  <2> QED
    BY <2>8, <2>9
<1>12. Len(r) <= doc[l].n
  BY <1>2, <1>4, <1>9
<1>13. \A k \in Nat : HasLevels(l, k) => k <= Len(r) /\ InPlace(r, l, k)
  <2>1. Len(r) = d + 1
    BY <1>9
  <2> QED
    BY <1>11, <2>1
<1>14. \E h \in Over(l) : Len(r) <= doc[h].n
  BY <1>1, <1>12
<1>15. r \in Seq(LineNumbers)
  BY <1>9
<1> QED
  BY <1>13, <1>14, <1>15 DEF StackOk

-----------------------------------------------------------------------------
\* What a chunk has when lines are added to it.
LEMMA JoinIs ==
  ASSUME NEW a \in Seq(LineNumbers), NEW q \in Seq(LineNumbers), a # <<>>, q # <<>>,
         NEW r, r = a \o << 0 >> \o q
  PROVE  /\ r \in Seq(LineNumbers) /\ r # <<>> /\ r[Len(r)] = q[Len(q)]
         /\ LinesIn(r) = LinesIn(a) \cup LinesIn(q)
         /\ Climbs(a) /\ Climbs(q) /\ (\A x \in LinesIn(a), y \in LinesIn(q) : x < y) => Climbs(r)
         /\ OneHeading(a) /\ (\A y \in LinesIn(q) : ~IsKind(y, "heading")) => OneHeading(r)
<1>1. PICK n \in Nat : n = Len(a) /\ n >= 1 /\ DOMAIN a = 1..n
  OBVIOUS
<1>2. PICK m \in Nat : m = Len(q) /\ m >= 1 /\ DOMAIN q = 1..m
  OBVIOUS
<1>3. 0 \in LineNumbers
  <2>1. PICK s : s = a[1]
    OBVIOUS
  <2>2. s \in 0..Len(doc)
    BY <1>1, <2>1 DEF LineNumbers
  <2> QED
    BY <2>2 DEF LineNumbers
<1>4. PICK z : z = a \o << 0 >>
  OBVIOUS
<1>5. z \in Seq(LineNumbers) /\ Len(z) = n + 1 /\ (\A i \in 1..n : z[i] = a[i]) /\ z[n + 1] = 0
  BY <1>1, <1>3, <1>4
<1>6. PICK d \in Nat : d = n + 1 + m
  BY <1>2
<1>7. /\ r \in Seq(LineNumbers) /\ Len(r) = d
      /\ \A i \in 1..d : r[i] = IF i <= n + 1 THEN z[i] ELSE q[i - (n + 1)]
  <2>1. r = z \o q
    BY <1>4
  <2>2. z \in Seq(LineNumbers)
    BY <1>5
  <2>3. /\ z \o q \in Seq(LineNumbers) /\ Len(z \o q) = Len(z) + Len(q)
        /\ \A i \in 1..Len(z) + Len(q) : (z \o q)[i] = IF i <= Len(z) THEN z[i] ELSE q[i - Len(z)]
    BY <2>2, ConcatProperties
  <2>4. Len(z) = n + 1 /\ Len(q) = m
    BY <1>2, <1>5
  <2>5. Len(z) + Len(q) = d
    BY <1>6, <2>4
  <2> QED
    BY <2>1, <2>3, <2>4, <2>5
<1>8. DOMAIN r = 1..d /\ r # <<>>
  <2>1. Len(r) # 0
    BY <1>2, <1>6, <1>7
  <2> QED
    BY <1>7, <2>1
<1>9. ASSUME NEW i \in 1..d
      PROVE  \/ i \in 1..n /\ r[i] = a[i]
             \/ i = n + 1 /\ r[i] = 0
             \/ i - (n + 1) \in 1..m /\ r[i] = q[i - (n + 1)]
  <2>1. CASE i <= n
    BY <1>5, <1>7, <2>1
  <2>2. CASE i = n + 1
    BY <1>5, <1>7, <2>2
  <2>3. CASE i > n + 1
    BY <1>6, <1>7, <2>3
  <2>4. i <= n \/ i = n + 1 \/ i > n + 1
    OBVIOUS
  <2> QED
    BY <2>1, <2>2, <2>3, <2>4
<1>10. \A i \in 1..n : i \in 1..d /\ r[i] = a[i]
  BY <1>5, <1>6, <1>7
<1>11. ASSUME NEW j \in 1..m PROVE n + 1 + j \in 1..d /\ r[n + 1 + j] = q[j]
  <2>1. n + 1 + j \in 1..d /\ ~(n + 1 + j <= n + 1) /\ (n + 1 + j) - (n + 1) = j
    BY <1>6
  <2> QED
    BY <1>7, <2>1
<1>12. r[Len(r)] = q[Len(q)]
  BY <1>2, <1>6, <1>7, <1>11
<1>13. LinesIn(r) = LinesIn(a) \cup LinesIn(q)
  <2>1. ASSUME NEW l \in LinesIn(r) PROVE l \in LinesIn(a) \cup LinesIn(q)
    <3>1. PICK i \in 1..d : r[i] = l /\ l # 0
      BY <1>8 DEF LinesIn
    <3>2. \/ i \in 1..n /\ l = a[i]
          \/ i - (n + 1) \in 1..m /\ l = q[i - (n + 1)]
      BY <1>9, <3>1
    <3> QED
      BY <1>1, <1>2, <3>1, <3>2 DEF LinesIn
  <2>2. ASSUME NEW l \in LinesIn(a) PROVE l \in LinesIn(r)
    BY <1>1, <1>8, <1>10 DEF LinesIn
  <2>3. ASSUME NEW l \in LinesIn(q) PROVE l \in LinesIn(r)
    <3>1. PICK j \in 1..m : q[j] = l /\ l # 0
      BY <1>2 DEF LinesIn
    <3>2. PICK i \in 1..d : r[i] = l
      BY <1>11, <3>1
    <3> QED
      BY <1>8, <3>1, <3>2 DEF LinesIn
  <2> QED
    BY <2>1, <2>2, <2>3
<1>14. ASSUME Climbs(a), Climbs(q), \A x \in LinesIn(a), y \in LinesIn(q) : x < y
       PROVE  Climbs(r)
  <2> SUFFICES ASSUME NEW i \in 1..d, NEW j \in 1..d, i < j, r[i] # 0, r[j] # 0
               PROVE  r[i] < r[j]
    BY <1>8 DEF Climbs
  <2>1. CASE i \in 1..n /\ r[i] = a[i]
    <3>1. CASE j \in 1..n /\ r[j] = a[j]
      BY <1>1, <1>14, <2>1, <3>1 DEF Climbs
    <3>2. CASE j - (n + 1) \in 1..m /\ r[j] = q[j - (n + 1)]
      <4>1. r[i] \in LinesIn(a) /\ r[j] \in LinesIn(q)
        BY <1>1, <1>2, <2>1, <3>2 DEF LinesIn
      <4> QED
        BY <1>14, <4>1
    <3> QED
      BY <1>9, <3>1, <3>2
  <2>2. CASE i - (n + 1) \in 1..m /\ r[i] = q[i - (n + 1)]
    <3>1. j - (n + 1) \in 1..m /\ r[j] = q[j - (n + 1)]
      <4>1. i > n + 1 /\ j > n + 1
        BY <2>2
      <4>2. j \notin 1..n /\ j # n + 1
        BY <4>1
      <4> QED
        BY <1>9, <4>2
    <3>2. PICK x \in 1..m, y \in 1..m : x = i - (n + 1) /\ y = j - (n + 1)
      BY <2>2, <3>1
    <3>3. x < y
      BY <3>2
    <3>4. r[i] = q[x] /\ r[j] = q[y]
      BY <2>2, <3>1, <3>2
    <3> QED
      BY <1>2, <1>14, <3>3, <3>4 DEF Climbs
  <2> QED
    BY <1>9, <2>1, <2>2
<1>15. ASSUME OneHeading(a), \A y \in LinesIn(q) : ~IsKind(y, "heading")
       PROVE  OneHeading(r)
  <2> SUFFICES ASSUME NEW i \in 1..d, i # 1, r[i] # 0
               PROVE  ~IsKind(r[i], "heading")
    BY <1>8 DEF OneHeading
  <2>1. CASE i \in 1..n /\ r[i] = a[i]
    BY <1>1, <1>15, <2>1 DEF OneHeading
  <2>2. CASE i - (n + 1) \in 1..m /\ r[i] = q[i - (n + 1)]
    <3>1. r[i] \in LinesIn(q)
      BY <1>2, <2>2 DEF LinesIn
    <3> QED
      BY <1>15, <3>1
  <2> QED
    BY <1>9, <2>1, <2>2
<1> QED
  BY <1>7, <1>8, <1>12, <1>13, <1>14, <1>15

\* A run, as a chunk's lines.
LEMMA RunHas ==
  ASSUME doc \in Seq(DocLines), NEW u \in Nat, NEW v \in Nat, u < v, v <= Len(doc), NEW q, q = Run(u, v)
  PROVE  /\ q \in Seq(LineNumbers) /\ q # <<>> /\ q[Len(q)] = v /\ q[1] = u + 1 /\ Len(q) >= 1
         /\ LinesIn(q) = (u + 1)..v /\ Climbs(q)
         /\ (\A l \in (u + 1)..v : IsKind(l, "heading") => l = u + 1) => OneHeading(q)
<1>1. PICK n \in Nat : n = v - u /\ n >= 1 /\ v = u + n
  OBVIOUS
<1>2. u <= v
  OBVIOUS
<1>3. q \in Seq(LineNumbers) /\ Len(q) = n /\ (\A i \in 1..n : q[i] = u + i) /\ DOMAIN q = 1..n
  <2>1. /\ Run(u, v) \in Seq(LineNumbers) /\ Len(Run(u, v)) = v - u
        /\ \A i \in 1..(v - u) : Run(u, v)[i] = u + i
    BY <1>2, RunIs
  <2>2. /\ q \in Seq(LineNumbers) /\ Len(q) = n /\ (\A i \in 1..n : q[i] = u + i)
    BY <1>1, <2>1
  <2> QED
    BY <2>2
<1>4. q # <<>> /\ q[Len(q)] = v /\ q[1] = u + 1
  <2>1. Len(q) # 0 /\ n \in 1..n /\ 1 \in 1..n
    BY <1>1, <1>3
  <2> QED
    BY <1>1, <1>3, <2>1
<1>5. LinesIn(q) = (u + 1)..v
  <2>1. ASSUME NEW l \in (u + 1)..v PROVE l \in LinesIn(q)
    <3>1. PICK i \in 1..n : l = u + i
      <4>1. l - u \in 1..n /\ l = u + (l - u)
        BY <1>1
      <4> QED
        BY <4>1
    <3> QED
      BY <1>3, <3>1 DEF LinesIn
  <2>2. ASSUME NEW l \in LinesIn(q) PROVE l \in (u + 1)..v
    BY <1>1, <1>3 DEF LinesIn
  <2> QED
    BY <2>1, <2>2
<1>6. Climbs(q)
  BY <1>3 DEF Climbs
<1>7. ASSUME \A l \in (u + 1)..v : IsKind(l, "heading") => l = u + 1 PROVE OneHeading(q)
  <2> SUFFICES ASSUME NEW i \in 1..n, i # 1 PROVE ~IsKind(q[i], "heading")
    BY <1>3 DEF OneHeading
  <2>1. PICK l \in (u + 1)..v : l = u + i
    BY <1>1
  <2>2. l # u + 1 /\ q[i] = l
    BY <1>3, <2>1
  <2> QED
    BY <1>7, <2>2
<1> QED
  BY <1>1, <1>3, <1>4, <1>5, <1>6, <1>7

-----------------------------------------------------------------------------
Joined(a, q) == IF a = <<>> THEN q ELSE a \o << 0 >> \o q

(* What add makes of a chunk.                                                 *)
HasAdded(c, b, q, v) ==
  /\ c \in ChunkOf /\ c.tokens = b.tokens + Estimate(q) /\ c.path = b.path
  /\ c.start = b.start /\ c.end = v /\ c.lines = Joined(b.lines, q)

LEMMA AddedHas ==
  ASSUME doc \in Seq(DocLines), NEW b \in ChunkOf, NEW q \in Seq(LineNumbers), q # <<>>, NEW v \in Nat
  PROVE  HasAdded(Added(b, q, v), b, q, v)
<1> SUFFICES ASSUME NEW c, c = Added(b, q, v) PROVE HasAdded(c, b, q, v)
  OBVIOUS
<1>1. PICK e \in Nat : e = Estimate(q)
  BY EstimateIs
<1>2. PICK r : r = Joined(b.lines, q)
  OBVIOUS
<1>3. r \in Seq(LineNumbers)
  <2>1. CASE b.lines = <<>>
    BY <1>2, <2>1 DEF Joined
  <2>2. CASE b.lines # <<>>
    <3>1. PICK a \in Seq(LineNumbers) : a = b.lines
      BY DEF ChunkOf
    <3>2. a # <<>> /\ r = a \o << 0 >> \o q
      BY <1>2, <2>2, <3>1 DEF Joined
    <3> QED
      BY <3>2, JoinIs
  <2> QED
    BY <2>1, <2>2
<1>4. PICK t \in Nat : t = b.tokens + e
  BY <1>1 DEF ChunkOf
<1>5. c = [b EXCEPT !.lines = r, !.tokens = t, !.end = v]
  BY <1>1, <1>2, <1>4 DEF Added, ChunkOf, Joined
<1>6. c = [lines |-> r, tokens |-> t, path |-> b.path, start |-> b.start, end |-> v]
  BY <1>5 DEF ChunkOf
<1>7. c \in ChunkOf
  <2>1. b.path \in Seq(LineNumbers) /\ b.start \in Nat
    BY DEF ChunkOf
  <2> QED
    BY <1>3, <1>6, <2>1 DEF ChunkOf
<1> QED
  BY <1>1, <1>2, <1>4, <1>6, <1>7 DEF HasAdded

LEMMA ResetHas ==
  ASSUME NEW path \in Seq(LineNumbers), NEW s \in Nat, NEW c, c = Reset(path, s)
  PROVE  /\ c \in ChunkOf /\ c.lines = <<>> /\ c.tokens = 0 /\ c.path = path /\ c.start = s /\ c.end = s
BY DEF Reset, ChunkOf

LEMMA LastLinesHas ==
  ASSUME NEW q \in Seq(LineNumbers), NEW k \in 0..Len(q), NEW t, t = LastLines(q, k)
  PROVE  t \in Seq(LineNumbers) /\ Len(t) = k /\ SubSeq(t, 1, k) = t
<1>1. PICK n \in Nat : n = Len(q) /\ k \in 0..n
  OBVIOUS
<1>2. \A i \in (n - k + 1)..n : q[i] \in LineNumbers
  BY <1>1
<1>3. n - k + 1 \in Int /\ n - (n - k + 1) + 1 = k
  BY <1>1
<1>4. t \in Seq(LineNumbers) /\ Len(t) = k
  BY <1>1, <1>2, <1>3, SubSeqProperties DEF LastLines
<1> QED
  BY <1>4

LEMMA StartStays ==
  ASSUME NEW a \in Seq(LineNumbers), NEW q \in Seq(LineNumbers), NEW r \in Seq(LineNumbers), r = Joined(a, q),
         NEW k \in 0..Len(a)
  PROVE  /\ k <= Len(r) /\ SubSeq(r, 1, k) = SubSeq(a, 1, k)
         /\ \A i \in DOMAIN r : i > k /\ r[i] # 0 =>
              (i \in DOMAIN a /\ r[i] = a[i]) \/ r[i] \in LinesIn(q)
<1>1. CASE a = <<>>
  <2>1. k = 0 /\ r = q
    BY <1>1 DEF Joined
  <2> QED
    BY <1>1, <2>1 DEF LinesIn
<1>2. CASE a # <<>>
  <2>1. PICK n \in Nat, m \in Nat : n = Len(a) /\ m = Len(q)
    OBVIOUS
  <2>2. r = a \o << 0 >> \o q
    BY <1>2 DEF Joined
  <2>3. /\ Len(r) = n + 1 + m /\ (\A i \in 1..n : r[i] = a[i]) /\ r[n + 1] = 0
        /\ \A i \in (n + 2)..(n + 1 + m) : r[i] = q[i - n - 1]
    BY <2>1, <2>2
  <2>4. k <= Len(r)
    BY <2>1, <2>3
  <2>5. SubSeq(r, 1, k) = SubSeq(a, 1, k)
    BY <2>1, <2>3
  <2>6. ASSUME NEW i \in DOMAIN r, r[i] # 0 PROVE (i \in DOMAIN a /\ r[i] = a[i]) \/ r[i] \in LinesIn(q)
    <3>1. i \in 1..n \/ i = n + 1 \/ i \in (n + 2)..(n + 1 + m)
      BY <2>3
    <3>2. CASE i \in (n + 2)..(n + 1 + m)
      <4>1. i - n - 1 \in DOMAIN q
        BY <2>1, <3>2
      <4> QED
        BY <2>3, <2>6, <3>2, <4>1 DEF LinesIn
    <3> QED
      BY <2>1, <2>3, <2>6, <3>1, <3>2
  <2> QED
    BY <2>4, <2>5, <2>6
<1> QED
  BY <1>1, <1>2

\* What fits as it is, and what fits when more lines come.
LEMMA RepeatsFit ==
  ASSUME doc \in Seq(DocLines), NEW before \in Seq(LineNumbers), NEW c \in ChunkOf, OnlyRepeats(c, before)
  PROVE  Fits(c, before)
<1>1. PICK k \in 0..Len(before) :
        c.lines = LastLines(before, k) /\ Takes(before, k) /\ c.tokens <= Estimate(c.lines)
  BY DEF OnlyRepeats
<1>2. PICK t : t = LastLines(before, k)
  OBVIOUS
<1>3. t \in Seq(LineNumbers) /\ Len(t) = k /\ SubSeq(t, 1, k) = t
  BY <1>2, LastLinesHas
<1>4. Estimate(t) \in Nat /\ c.tokens \in Nat
  BY <1>3, EstimateIs DEF ChunkOf
<1>5. c.tokens <= ChunkLimit + Estimate(t)
  BY <1>1, <1>2, <1>4, ChunkerAssumption
<1>6. \A i \in DOMAIN t : ~(i > k)
  BY <1>3
<1>7. AddsTo(c, before, k)
  BY <1>1, <1>2, <1>3, <1>5, <1>6 DEF AddsTo, Takes
<1> QED
  BY <1>7 DEF Fits

LEMMA RepeatsGrow ==
  ASSUME doc \in Seq(DocLines), NEW before \in Seq(LineNumbers), NEW b \in ChunkOf, OnlyRepeats(b, before),
         NEW q \in Seq(LineNumbers), Estimate(q) <= ChunkLimit, LinesIn(q) \cap LinesIn(before) = {},
         NEW c \in ChunkOf, c.lines = Joined(b.lines, q), c.tokens = b.tokens + Estimate(q)
  PROVE  Fits(c, before)
<1>1. PICK k \in 0..Len(before) :
        b.lines = LastLines(before, k) /\ Takes(before, k) /\ b.tokens <= Estimate(b.lines)
  BY DEF OnlyRepeats
<1>2. PICK t : t = LastLines(before, k)
  OBVIOUS
<1>3. t \in Seq(LineNumbers) /\ Len(t) = k /\ SubSeq(t, 1, k) = t
  BY <1>2, LastLinesHas
<1>4. PICK r \in Seq(LineNumbers) : r = c.lines
  BY DEF ChunkOf
<1>5. r = Joined(t, q) /\ k \in 0..Len(t)
  BY <1>1, <1>2, <1>3, <1>4
<1>6. /\ k <= Len(r) /\ SubSeq(r, 1, k) = SubSeq(t, 1, k)
      /\ \A i \in DOMAIN r : i > k /\ r[i] # 0 => (i \in DOMAIN t /\ r[i] = t[i]) \/ r[i] \in LinesIn(q)
  BY <1>3, <1>5, StartStays
<1>7. Estimate(t) \in Nat /\ b.tokens \in Nat /\ Estimate(q) \in Nat
  BY <1>3, EstimateIs DEF ChunkOf
<1>8. c.tokens <= ChunkLimit + Estimate(t)
  BY <1>1, <1>2, <1>7, ChunkerAssumption
<1>9. \A i \in DOMAIN t : ~(i > k)
  BY <1>3
<1>10. \A i \in DOMAIN r : i > k /\ r[i] # 0 => \A j \in DOMAIN before : before[j] # r[i]
  BY <1>6, <1>9 DEF LinesIn
<1>11. AddsTo(c, before, k)
  BY <1>1, <1>2, <1>3, <1>4, <1>6, <1>8, <1>10 DEF AddsTo, Takes
<1> QED
  BY <1>11 DEF Fits

LEMMA FitsGrow ==
  ASSUME doc \in Seq(DocLines), NEW before \in Seq(LineNumbers), NEW b \in ChunkOf, Fits(b, before),
         NEW q \in Seq(LineNumbers), b.tokens + Estimate(q) <= ChunkLimit, LinesIn(q) \cap LinesIn(before) = {},
         NEW c \in ChunkOf, c.lines = Joined(b.lines, q), c.tokens = b.tokens + Estimate(q)
  PROVE  Fits(c, before)
<1>1. PICK k \in 0..Len(before) : AddsTo(b, before, k)
  BY DEF Fits
<1>2. PICK a \in Seq(LineNumbers) : a = b.lines
  BY DEF ChunkOf
<1>3. PICK r \in Seq(LineNumbers) : r = c.lines
  BY DEF ChunkOf
<1>4. PICK t : t = LastLines(before, k)
  OBVIOUS
<1>5. t \in Seq(LineNumbers)
  BY <1>4, LastLinesHas
<1>6. k <= Len(a) /\ SubSeq(a, 1, k) = t /\ k \in 0..Len(a)
  BY <1>1, <1>2, <1>4 DEF AddsTo
<1>7. /\ k <= Len(r) /\ SubSeq(r, 1, k) = SubSeq(a, 1, k)
      /\ \A i \in DOMAIN r : i > k /\ r[i] # 0 => (i \in DOMAIN a /\ r[i] = a[i]) \/ r[i] \in LinesIn(q)
  BY <1>2, <1>3, <1>6, StartStays
<1>8. Estimate(t) \in Nat /\ c.tokens \in Nat
  BY <1>5, EstimateIs DEF ChunkOf
<1>9. c.tokens <= ChunkLimit + Estimate(t)
  BY <1>8, ChunkerAssumption
<1>10. \A i \in DOMAIN r : i > k /\ r[i] # 0 => \A j \in DOMAIN before : before[j] # r[i]
  <2>1. \A i \in DOMAIN a : i > k /\ a[i] # 0 => \A j \in DOMAIN before : before[j] # a[i]
    BY <1>1, <1>2 DEF AddsTo
  <2> QED
    BY <1>7, <2>1 DEF LinesIn
<1>11. AddsTo(c, before, k)
  BY <1>1, <1>3, <1>4, <1>6, <1>7, <1>9, <1>10 DEF AddsTo
<1> QED
  BY <1>11 DEF Fits

LEMMA SingleFits ==
  ASSUME doc \in Seq(DocLines), NEW before \in Seq(LineNumbers), NEW c, NEW q \in Seq(LineNumbers),
         c.lines = q, Len(q) <= 1, q = <<>> => c.tokens = 0, LinesIn(q) \cap LinesIn(before) = {}
  PROVE  Fits(c, before)
<1>1. PICK t : t = LastLines(before, 0)
  OBVIOUS
<1>2. PICK k \in 0..Len(before) : k = 0
  OBVIOUS
<1>3. t \in Seq(LineNumbers) /\ Len(t) = 0
  BY <1>1, <1>2, LastLinesHas
<1>4. t = <<>> /\ SubSeq(q, 1, 0) = <<>>
  BY <1>3
<1>5. Estimate(t) \in Nat
  BY <1>3, EstimateIs
<1>6. Len(q) = 1 \/ c.tokens <= ChunkLimit + Estimate(t)
  <2>1. CASE q = <<>>
    BY <1>5, <2>1, ChunkerAssumption
  <2>2. CASE q # <<>>
    <3>1. PICK n \in Nat : n = Len(q)
      OBVIOUS
    <3>2. n # 0
      BY <2>2, <3>1
    <3>3. n <= 1
      BY <3>1
    <3>4. n = 1
      BY <3>2, <3>3
    <3> QED
      BY <3>1, <3>4
  <2> QED
    BY <2>1, <2>2
<1>7. \A i \in DOMAIN q : q[i] # 0 => \A j \in DOMAIN before : before[j] # q[i]
  BY DEF LinesIn
<1>8. k <= Len(q) /\ SubSeq(q, 1, k) = LastLines(before, k) /\ ~(k > 0)
  <2>1. Len(q) \in Nat
    OBVIOUS
  <2>2. k <= Len(q)
    BY <1>2, <2>1
  <2>3. SubSeq(q, 1, k) = LastLines(before, k)
    BY <1>1, <1>2, <1>4
  <2>4. ~(k > 0)
    BY <1>2
  <2> QED
    BY <2>2, <2>3, <2>4
<1>9. Len(q) = 1 \/ c.tokens <= ChunkLimit + Estimate(LastLines(before, k))
  BY <1>1, <1>2, <1>6
<1>10. AddsTo(c, before, k)
  BY <1>7, <1>8, <1>9 DEF AddsTo
<1> QED
  BY <1>10 DEF Fits

\* An empty chunk promises nothing.
LEMMA EmptyIsWhole ==
  ASSUME doc \in Seq(DocLines), NEW c, c.lines = <<>>, c.tokens = 0, NEW before \in Seq(LineNumbers)
  PROVE  WholeChunk(c, before) /\ LinesIn(c.lines) = {}
<1>1. PICK q : q = c.lines
  OBVIOUS
<1>2. DOMAIN q = {} /\ LinesIn(q) = {}
  BY <1>1 DEF LinesIn
<1>3. /\ Climbs(q) /\ OneHeading(q) /\ LiesIn(q, LinesIn(before), c.start, c.end)
      /\ LiesBehind(q, LinesIn(before)) /\ IsUnder(q, c.path)
  BY <1>2 DEF Climbs, OneHeading, LiesIn, LiesBehind, IsUnder
<1>4. Fits(c, before)
  <2>1. q \in Seq(LineNumbers) /\ Len(q) <= 1
    BY <1>1
  <2> QED
    BY <1>1, <1>2, <2>1, SingleFits
<1> QED
  BY <1>1, <1>2, <1>3, <1>4 DEF WholeChunk

(* The lines that may come next: none is blank, and a heading only first.     *)
MayCome(q, u, v) ==
  \A l \in (u + 1)..v : ~IsKind(l, "blank") /\ (IsKind(l, "heading") => q = <<>> /\ l = u + 1)
(* The rooms there are: by weight, behind an overlap alone, for a single line.*)
Room(b, before, q, u, v) ==
  \/ b.tokens + Estimate(q) <= ChunkLimit
  \/ OnlyRepeats(b, before) /\ Estimate(q) <= ChunkLimit
  \/ b.lines = <<>> /\ v = u + 1

HasGrown(c, b, before, u, v, path) ==
  /\ c \in ChunkOf /\ OpenAt(c, v, path) /\ WholeChunk(c, before) /\ c.lines # <<>>
  /\ LinesIn(c.lines) = LinesIn(b.lines) \cup ((u + 1)..v)

LEMMA LinesGrow ==
  ASSUME doc \in Seq(DocLines), NEW u \in Nat, NEW v \in Nat, u < v, v <= Len(doc),
         NEW b \in ChunkOf, NEW before \in Seq(LineNumbers), LinesIn(before) \subseteq 1..u,
         LinesIn(b.lines) \subseteq 1..u,
         NEW path, OpenAt(b, u, path), WholeChunk(b, before), MayCome(b.lines, u, v), PathOk(path, v),
         Room(b, before, Run(u, v), u, v)
  PROVE  HasGrown(Added(b, Run(u, v), v), b, before, u, v, path)
<1>a. PICK q, c : q = Run(u, v) /\ c = Added(b, q, v)
  OBVIOUS
<1>b. PICK prev \in SUBSET (1..u) : prev = LinesIn(before)
  OBVIOUS
<1>1. /\ q \in Seq(LineNumbers) /\ q # <<>> /\ q[Len(q)] = v /\ Len(q) >= 1
      /\ LinesIn(q) = (u + 1)..v /\ Climbs(q)
      /\ (\A l \in (u + 1)..v : IsKind(l, "heading") => l = u + 1) => OneHeading(q)
  BY <1>a, RunHas
<1>2. /\ c \in ChunkOf /\ c.tokens = b.tokens + Estimate(q) /\ c.path = b.path
      /\ c.start = b.start /\ c.end = v /\ c.lines = Joined(b.lines, q)
  <2>1. q \in Seq(LineNumbers)
    BY <1>1
  <2>2. q # <<>>
    BY <1>1
  <2>3. HasAdded(Added(b, q, v), b, q, v)
    BY <2>1, <2>2, AddedHas
  <2>4. HasAdded(c, b, q, v)
    BY <1>a, <2>3
  <2> QED
    BY <2>4 DEF HasAdded
<1>3. PICK a \in Seq(LineNumbers) : a = b.lines
  BY DEF ChunkOf
<1>4. PICK r : r = c.lines
  OBVIOUS
<1>5. Climbs(a) /\ OneHeading(a) /\ LiesIn(a, prev, b.start, b.end) /\ LiesBehind(a, prev) /\ IsUnder(a, b.path)
  BY <1>b, <1>3 DEF WholeChunk
<1>6. /\ r # <<>> /\ r[Len(r)] = v /\ LinesIn(r) = LinesIn(a) \cup ((u + 1)..v)
      /\ Climbs(r) /\ OneHeading(r)
  <2>1. CASE a = <<>>
    <3>1. r = q /\ LinesIn(a) = {}
      BY <1>2, <1>3, <1>4, <2>1 DEF LinesIn, Joined
    <3>2. OneHeading(q)
      BY <1>1 DEF MayCome
    <3> QED
      BY <1>1, <3>1, <3>2
  <2>2. CASE a # <<>>
    <3>1. r = a \o << 0 >> \o q
      BY <1>2, <1>3, <1>4, <2>2 DEF Joined
    <3>2. /\ r # <<>> /\ r[Len(r)] = q[Len(q)]
          /\ LinesIn(r) = LinesIn(a) \cup LinesIn(q)
          /\ Climbs(a) /\ Climbs(q) /\ (\A x \in LinesIn(a), y \in LinesIn(q) : x < y) => Climbs(r)
          /\ OneHeading(a) /\ (\A y \in LinesIn(q) : ~IsKind(y, "heading")) => OneHeading(r)
      BY <1>1, <2>2, <3>1, JoinIs
    <3>3. \A x \in LinesIn(a), y \in LinesIn(q) : x < y
      <4>1. \A x \in 1..u, y \in (u + 1)..v : x < y
        OBVIOUS
      <4> QED
        BY <1>1, <1>3, <4>1
    <3>4. \A y \in LinesIn(q) : ~IsKind(y, "heading")
      BY <1>1, <1>3, <2>2 DEF MayCome
    <3> QED
      BY <1>1, <1>5, <3>2, <3>3, <3>4
  <2> QED
    BY <2>1, <2>2
<1>7. LinesIn(a) \subseteq 1..u
  BY <1>3
<1>8. ASSUME NEW l \in LinesIn(r) \ prev PROVE b.start <= l /\ l <= v
  <2>0. b.start \in Nat /\ b.start <= u + 1 /\ b.end \in Nat
    BY DEF OpenAt, ChunkOf
  <2>1. CASE l \in LinesIn(a)
    <3>1. l \in 1..u /\ b.start <= l
      BY <1>5, <1>7, <1>8, <2>1 DEF LiesIn
    <3> QED
      BY <3>1
  <2>2. CASE l \in (u + 1)..v
    BY <2>0, <2>2
  <2> QED
    BY <1>6, <1>8, <2>1, <2>2
<1>9. ASSUME NEW l \in LinesIn(r) \ prev, NEW k \in prev PROVE k < l
  <2>1. CASE l \in LinesIn(a)
    BY <1>5, <1>9, <2>1 DEF LiesBehind
  <2>2. CASE l \in (u + 1)..v
    BY <2>2
  <2> QED
    BY <1>6, <1>9, <2>1, <2>2
<1>10. ASSUME NEW l \in LinesIn(r) PROVE NoHeading(l, v) /\ l \in Nat /\ l <= v
  <2>1. CASE l \in LinesIn(a)
    <3>1. l \in 1..u /\ NoHeading(l, u) /\ a # <<>>
      BY <1>3, <1>7, <2>1 DEF OpenAt, LinesIn
    <3>2. ASSUME NEW g \in (l + 1)..v PROVE ~IsKind(g, "heading")
      <4>1. CASE g \in (l + 1)..u
        BY <3>1, <4>1 DEF NoHeading
      <4>2. CASE g \in (u + 1)..v
        BY <1>3, <3>1, <4>2 DEF MayCome
      <4>3. g \in (l + 1)..u \/ g \in (u + 1)..v
        BY <3>1
      <4> QED
        BY <4>1, <4>2, <4>3
    <3> QED
      BY <3>1, <3>2 DEF NoHeading
  <2>2. CASE l \in (u + 1)..v
    <3>1. ASSUME NEW g \in (l + 1)..v PROVE ~IsKind(g, "heading")
      <4>1. g \in (u + 1)..v /\ g # u + 1
        BY <2>2
      <4> QED
        BY <4>1 DEF MayCome
    <3> QED
      BY <2>2, <3>1 DEF NoHeading
  <2> QED
    BY <1>6, <1>10, <2>1, <2>2
<1>11. ASSUME NEW l \in LinesIn(r) PROVE PathOk(path, l)
  <2>1. NoHeading(l, v) /\ l \in Nat /\ l <= v
    BY <1>10
  <2>2. PathOk(path, l) <=> PathOk(path, v)
    BY <2>1, OverSame
  <2> QED
    BY <2>2
<1>12. Fits(c, before)
  <2>1. LinesIn(q) \cap LinesIn(before) = {}
    <3>1. (1..u) \cap ((u + 1)..v) = {}
      OBVIOUS
    <3> QED
      BY <1>1, <1>b, <3>1
  <2>2. q \in Seq(LineNumbers) /\ c \in ChunkOf /\ c.lines = Joined(b.lines, q) /\ c.tokens = b.tokens + Estimate(q)
    BY <1>1, <1>2
  <2>3. CASE b.tokens + Estimate(q) <= ChunkLimit
    <3>1. Fits(b, before)
      BY DEF WholeChunk
    <3> QED
      BY <2>1, <2>2, <2>3, <3>1, FitsGrow
  <2>4. CASE OnlyRepeats(b, before) /\ Estimate(q) <= ChunkLimit
    BY <2>1, <2>2, <2>4, RepeatsGrow
  <2>5. CASE b.lines = <<>> /\ v = u + 1
    <3>1. c.lines = q
      BY <1>2, <2>5 DEF Joined
    <3>2. Len(q) <= 1 /\ q # <<>>
      <4>1. Len(Run(u, v)) = v - u
        BY RunIs
      <4>2. v = u + 1
        BY <2>5
      <4>3. v - u = 1
        BY <4>2
      <4>4. Len(q) = 1
        BY <1>a, <4>1, <4>3
      <4>5. q # <<>>
        BY <1>1
      <4> QED
        BY <4>4, <4>5
    <3> QED
      BY <2>1, <2>2, <3>1, <3>2, SingleFits
  <2> QED
    BY <1>a, <2>3, <2>4, <2>5 DEF Room
<1>13. b.path = path
  BY DEF OpenAt
<1>14. LiesIn(r, prev, c.start, c.end) /\ LiesBehind(r, prev) /\ IsUnder(r, c.path)
  BY <1>2, <1>8, <1>9, <1>11, <1>13 DEF LiesIn, LiesBehind, IsUnder
<1>15. WholeChunk(c, before)
  BY <1>b, <1>4, <1>6, <1>12, <1>14 DEF WholeChunk
<1>16. OpenAt(c, v, path)
  <2>1. c.start <= v + 1 /\ c.end <= v + 1
    <3>1. b.start \in Nat /\ b.start <= u + 1
      BY DEF OpenAt, ChunkOf
    <3> QED
      BY <1>2, <3>1
  <2>2. c.path = path /\ c.lines # <<>> /\ c.lines[Len(c.lines)] # 0
    <3>1. v # 0
      OBVIOUS
    <3> QED
      BY <1>2, <1>4, <1>6, <1>13, <3>1
  <2>3. \A l \in LinesIn(c.lines) : NoHeading(l, v)
    BY <1>4, <1>10
  <2> QED
    BY <2>1, <2>2, <2>3 DEF OpenAt
<1> QED
  BY <1>a, <1>2, <1>3, <1>4, <1>6, <1>15, <1>16 DEF HasGrown

-----------------------------------------------------------------------------
LEMMA BeforeIsLines ==
  ASSUME NEW cs \in Seq(ChunkOf), NEW c \in 1..(Len(cs) + 1)
  PROVE  BeforeChunk(cs, c) \in Seq(LineNumbers)
<1>1. CASE c = 1
  BY <1>1 DEF BeforeChunk
<1>2. CASE c # 1
  <2>1. c - 1 \in DOMAIN cs
    BY <1>2
  <2>2. cs[c - 1] \in ChunkOf
    BY <2>1
  <2> QED
    BY <1>2, <2>2 DEF BeforeChunk, ChunkOf
<1> QED
  BY <1>1, <1>2

LEMMA FilledHas ==
  ASSUME NEW u \in Nat, NEW out, NEW path, Filled(out, u, path)
  PROVE  /\ out.chunks \in Seq(ChunkOf) /\ out.builder \in ChunkOf
         /\ out = [chunks |-> out.chunks, builder |-> out.builder]
         /\ LinesIn(out.builder.lines) \subseteq 1..u
         /\ BeforeChunk(out.chunks, Len(out.chunks) + 1) \in Seq(LineNumbers)
         /\ LinesIn(BeforeChunk(out.chunks, Len(out.chunks) + 1)) \in SUBSET (1..u)
<1>1. /\ out.chunks \in Seq(ChunkOf) /\ out.builder \in ChunkOf
      /\ out = [chunks |-> out.chunks, builder |-> out.builder]
  BY DEF Filled, OutOf
<1>2. PICK cs \in Seq(ChunkOf) : cs = out.chunks
  BY <1>1
<1>3. PICK q : q = out.builder.lines
  OBVIOUS
<1>4. Covered(cs, q) \subseteq 1..u
  BY <1>2, <1>3 DEF Filled, Filling
<1>5. LinesIn(q) \subseteq 1..u /\ \A c \in DOMAIN cs : LinesIn(cs[c].lines) \subseteq 1..u
  BY <1>4 DEF Covered
<1>6. LinesIn(BeforeChunk(cs, Len(cs) + 1)) \in SUBSET (1..u)
  <2>1. Len(cs) \in Nat /\ DOMAIN cs = 1..Len(cs)
    OBVIOUS
  <2>2. CASE Len(cs) = 0
    <3>1. BeforeChunk(cs, Len(cs) + 1) = <<>>
      BY <2>2 DEF BeforeChunk
    <3> QED
      BY <3>1 DEF LinesIn
  <2>3. CASE Len(cs) # 0
    <3>1. PICK n \in DOMAIN cs : n = Len(cs) /\ (Len(cs) + 1) - 1 = n /\ Len(cs) + 1 # 1
      BY <2>1, <2>3
    <3> QED
      BY <1>5, <3>1 DEF BeforeChunk
  <2> QED
    BY <2>2, <2>3
<1>7. BeforeChunk(cs, Len(cs) + 1) \in Seq(LineNumbers)
  BY BeforeIsLines
<1> QED
  BY <1>1, <1>2, <1>3, <1>5, <1>6, <1>7

LEMMA GrowsBy ==
  ASSUME doc \in Seq(DocLines), NEW u \in Nat, NEW v \in Nat, u < v, v <= Len(doc),
         NEW out, NEW path, Filled(out, u, path), MayCome(out.builder.lines, u, v), PathOk(path, v),
         NEW q, q = Run(u, v), Room(out.builder, BeforeChunk(out.chunks, Len(out.chunks) + 1), q, u, v),
         NEW r, r = [chunks |-> out.chunks, builder |-> Added(out.builder, q, v)]
  PROVE  Filled(r, v, path) /\ r.builder.lines # <<>>
<1>1. PICK cs, b : cs = out.chunks /\ b = out.builder
  OBVIOUS
<1>2. PICK before : before = BeforeChunk(cs, Len(cs) + 1)
  OBVIOUS
<1>3. /\ cs \in Seq(ChunkOf) /\ b \in ChunkOf
      /\ LinesIn(b.lines) \subseteq 1..u /\ before \in Seq(LineNumbers) /\ LinesIn(before) \subseteq 1..u
  BY <1>1, <1>2, FilledHas
<1>4. OpenAt(b, u, path) /\ WholeChunk(b, before)
  BY <1>1, <1>2 DEF Filled
<1>5. MayCome(b.lines, u, v)
  BY <1>1
<1>6. Room(b, before, Run(u, v), u, v)
  BY <1>1, <1>2
<1>7. PICK c : c = Added(b, Run(u, v), v)
  OBVIOUS
<1>8. /\ c \in ChunkOf /\ OpenAt(c, v, path) /\ WholeChunk(c, before) /\ c.lines # <<>>
      /\ LinesIn(c.lines) = LinesIn(b.lines) \cup ((u + 1)..v)
  <2>1. b \in ChunkOf
    BY <1>3
  <2>2. before \in Seq(LineNumbers)
    BY <1>3
  <2>3. LinesIn(before) \subseteq 1..u
    BY <1>3
  <2>4. LinesIn(b.lines) \subseteq 1..u
    BY <1>3
  <2>5. OpenAt(b, u, path)
    BY <1>4
  <2>6. WholeChunk(b, before)
    BY <1>4
  <2>7. HasGrown(Added(b, Run(u, v), v), b, before, u, v, path)
    BY <1>5, <1>6, <2>1, <2>2, <2>3, <2>4, <2>5, <2>6, LinesGrow
  <2> QED
    BY <1>7, <2>7 DEF HasGrown
<1>9. r.chunks = cs /\ r.builder = c /\ r \in OutOf
  BY <1>1, <1>3, <1>7, <1>8 DEF OutOf
<1>10. ChunksWhole(cs) /\ Covered(cs, b.lines) = Filling(u)
  BY <1>1 DEF Filled
<1>11. Covered(cs, c.lines) = Filling(u) \cup ((u + 1)..v)
  BY <1>8, <1>10 DEF Covered
<1>12. Filling(v) = Filling(u) \cup ((u + 1)..v)
  <2>1. 1..v = (1..u) \cup ((u + 1)..v)
    OBVIOUS
  <2> QED
    BY <1>5, <2>1 DEF Filling, MayCome
<1> QED
  BY <1>2, <1>8, <1>9, <1>10, <1>11, <1>12 DEF Filled

CoversToo(ds, cs, a) == \A q : Covered(ds, q) = Covered(cs, a) \cup LinesIn(q)

LEMMA OneMoreWhole ==
  ASSUME NEW cs \in Seq(ChunkOf), ChunksWhole(cs), NEW b \in ChunkOf,
         NEW before, before = BeforeChunk(cs, Len(cs) + 1), WholeChunk(b, before),
         NEW ds, ds = Append(cs, b)
  PROVE  /\ ds \in Seq(ChunkOf) /\ ChunksWhole(ds)
         /\ BeforeChunk(ds, Len(ds) + 1) = b.lines
         /\ CoversToo(ds, cs, b.lines)
<1>1. PICK n \in Nat : n = Len(cs) /\ DOMAIN cs = 1..n
  OBVIOUS
<1>2. ds \in Seq(ChunkOf) /\ Len(ds) = n + 1 /\ ds[n + 1] = b /\ (\A c \in 1..n : ds[c] = cs[c])
  BY <1>1, AppendProperties
<1>3. DOMAIN ds = 1..(n + 1)
  BY <1>2
<1>4. ASSUME NEW c \in 1..(n + 1) PROVE BeforeChunk(ds, c) = BeforeChunk(cs, c)
  <2>1. CASE c = 1
    BY <2>1 DEF BeforeChunk
  <2>2. CASE c # 1
    <3>1. PICK d \in 1..n : d = c - 1
      BY <2>2
    <3> QED
      BY <1>2, <2>2, <3>1 DEF BeforeChunk
  <2> QED
    BY <2>1, <2>2
<1>5. ASSUME NEW c \in 1..(n + 1) PROVE WholeChunk(ds[c], BeforeChunk(ds, c))
  <2>1. CASE c = n + 1
    <3>1. n + 1 \in 1..(n + 1)
      OBVIOUS
    <3>2. BeforeChunk(ds, n + 1) = BeforeChunk(cs, n + 1)
      BY <1>4, <3>1
    <3> QED
      BY <1>1, <1>2, <2>1, <3>2
  <2>2. CASE c # n + 1
    <3>1. c \in 1..n
      BY <2>2
    <3>2. WholeChunk(cs[c], BeforeChunk(cs, c))
      BY <1>1, <3>1 DEF ChunksWhole
    <3>3. ds[c] = cs[c] /\ BeforeChunk(ds, c) = BeforeChunk(cs, c)
      BY <1>2, <1>4, <3>1
    <3> QED
      BY <3>2, <3>3
  <2> QED
    BY <2>1, <2>2
<1>6. BeforeChunk(ds, Len(ds) + 1) = b.lines
  <2>1. Len(ds) + 1 # 1 /\ (Len(ds) + 1) - 1 = n + 1
    BY <1>2
  <2> QED
    BY <1>2, <2>1 DEF BeforeChunk
<1>7. ASSUME NEW q PROVE Covered(ds, q) = Covered(cs, b.lines) \cup LinesIn(q)
  <2>1. 1..(n + 1) = (1..n) \cup {n + 1}
    OBVIOUS
  <2>2. UNION {LinesIn(ds[c].lines) : c \in 1..(n + 1)}
          = (UNION {LinesIn(cs[c].lines) : c \in 1..n}) \cup LinesIn(b.lines)
    BY <1>2, <2>1
  <2> QED
    BY <1>1, <1>3, <2>2 DEF Covered
<1> QED
  BY <1>2, <1>3, <1>5, <1>6, <1>7 DEF ChunksWhole, CoversToo

LEMMA BuiltIs ==
  ASSUME doc \in Seq(DocLines), NEW u \in Nat, NEW out, NEW path, Filled(out, u, path),
         NEW other \in Seq(LineNumbers), NEW s \in Nat, s <= u + 1,
         NEW r, r = [chunks |-> Built(out), builder |-> Reset(other, s)]
  PROVE  Filled(r, u, other) /\ r.builder.lines = <<>> /\ r.builder.tokens = 0
<1>1. PICK cs, b : cs = out.chunks /\ b = out.builder
  OBVIOUS
<1>2. cs \in Seq(ChunkOf) /\ b \in ChunkOf
  BY <1>1, FilledHas
<1>3. PICK c : c = Reset(other, s)
  OBVIOUS
<1>4. c \in ChunkOf /\ c.lines = <<>> /\ c.tokens = 0 /\ c.path = other /\ c.start = s /\ c.end = s
  BY <1>3, ResetHas
<1>5. PICK ds : ds = Built(out)
  OBVIOUS
<1>6. r.chunks = ds /\ r.builder = c
  BY <1>3, <1>5
<1>7. ChunksWhole(cs) /\ WholeChunk(b, BeforeChunk(cs, Len(cs) + 1)) /\ Covered(cs, b.lines) = Filling(u)
  BY <1>1 DEF Filled
<1>8. LinesIn(c.lines) = {} /\ \A before \in Seq(LineNumbers) : WholeChunk(c, before)
  <2>1. \A before \in Seq(LineNumbers) : WholeChunk(c, before) /\ LinesIn(c.lines) = {}
    BY <1>4, EmptyIsWhole
  <2>2. <<>> \in Seq(LineNumbers)
    OBVIOUS
  <2> QED
    BY <2>1, <2>2
<1>9. ds \in Seq(ChunkOf) /\ ChunksWhole(ds) /\ Covered(ds, c.lines) = Filling(u)
  <2>1. CASE b.lines = <<>>
    <3>1. ds = cs
      BY <1>1, <1>5, <2>1 DEF Built
    <3>2. c.lines = b.lines
      BY <1>4, <2>1
    <3> QED
      BY <1>2, <1>7, <3>1, <3>2
  <2>2. CASE b.lines # <<>>
    <3>1. ds = Append(cs, b)
      BY <1>1, <1>5, <2>2 DEF Built
    <3>2. /\ ds \in Seq(ChunkOf) /\ ChunksWhole(ds)
          /\ CoversToo(ds, cs, b.lines)
      <4>1. cs \in Seq(ChunkOf)
        BY <1>2
      <4>2. b \in ChunkOf
        BY <1>2
      <4>3. ChunksWhole(cs)
        BY <1>7
      <4>4. PICK p : p = BeforeChunk(cs, Len(cs) + 1)
        OBVIOUS
      <4>5. WholeChunk(b, p)
        BY <1>7, <4>4
      <4> QED
        BY <3>1, <4>1, <4>2, <4>3, <4>4, <4>5, OneMoreWhole
    <3> QED
      BY <1>7, <1>8, <3>2 DEF CoversToo
  <2> QED
    BY <2>1, <2>2
<1>10. OpenAt(c, u, other)
  BY <1>4, <1>8 DEF OpenAt
<1>11. r \in OutOf
  BY <1>4, <1>3, <1>5, <1>9 DEF OutOf
<1>12. BeforeChunk(ds, Len(ds) + 1) \in Seq(LineNumbers)
  <2>1. ds \in Seq(ChunkOf)
    BY <1>9
  <2>2. Len(ds) + 1 \in 1..(Len(ds) + 1)
    BY <2>1
  <2> QED
    BY <2>1, <2>2, BeforeIsLines
<1> QED
  BY <1>4, <1>6, <1>8, <1>9, <1>10, <1>11, <1>12 DEF Filled

AfterFlush(out) == OnlyRepeats(out.builder, BeforeChunk(out.chunks, Len(out.chunks) + 1))

\* An empty builder repeats nothing.
LEMMA EmptyRepeats ==
  ASSUME doc \in Seq(DocLines), NEW b, b.lines = <<>>, b.tokens = 0, NEW before \in Seq(LineNumbers)
  PROVE  OnlyRepeats(b, before)
<1>1. PICK k \in 0..Len(before) : k = 0
  OBVIOUS
<1>2. PICK t : t = LastLines(before, k)
  OBVIOUS
<1>3. t \in Seq(LineNumbers) /\ Len(t) = k
  BY <1>2, LastLinesHas
<1>4. t = <<>>
  BY <1>1, <1>3
<1>5. Estimate(t) \in Nat
  BY <1>3, EstimateIs
<1>6. Takes(before, k)
  BY <1>1 DEF Takes
<1>7. b.lines = LastLines(before, k) /\ b.tokens <= Estimate(b.lines)
  BY <1>2, <1>4, <1>5
<1> QED
  BY <1>6, <1>7 DEF OnlyRepeats

LEMMA RepeatsHas ==
  ASSUME doc \in Seq(DocLines), NEW path \in Seq(LineNumbers), NEW e \in Nat,
         NEW tail \in Seq(LineNumbers), tail # <<>>, NEW c, c = Added(Reset(path, e), tail, e)
  PROVE  /\ c \in ChunkOf /\ c.path = path /\ c.start = e /\ c.end = e /\ c.lines = tail
         /\ c.tokens = Estimate(tail)
<1>1. PICK z : z = Reset(path, e)
  OBVIOUS
<1>2. z \in ChunkOf /\ z.lines = <<>> /\ z.path = path /\ z.start = e /\ z.tokens = 0
  BY <1>1, ResetHas
<1>3. c = Added(z, tail, e)
  BY <1>1
<1>4. /\ c \in ChunkOf /\ c.path = z.path /\ c.start = z.start /\ c.end = e /\ c.lines = Joined(z.lines, tail)
      /\ c.tokens = z.tokens + Estimate(tail)
  <2>1. z \in ChunkOf
    BY <1>2
  <2>2. HasAdded(Added(z, tail, e), z, tail, e)
    BY <2>1, AddedHas
  <2>3. HasAdded(c, z, tail, e)
    BY <1>3, <2>2
  <2> QED
    BY <1>2, <2>3 DEF HasAdded
<1>5. Estimate(tail) \in Nat
  BY EstimateIs
<1> QED
  BY <1>2, <1>4, <1>5 DEF Joined

LEMMA FlushedIs ==
  ASSUME doc \in Seq(DocLines), NEW u \in Nat, NEW out, Filled(out, u, stack),
         stack \in Seq(LineNumbers), NEW r, r = Flushed(out)
  PROVE  Filled(r, u, stack) /\ AfterFlush(r)
<1>1. PICK cs, b : cs = out.chunks /\ b = out.builder
  OBVIOUS
<1>2. cs \in Seq(ChunkOf) /\ b \in ChunkOf /\ LinesIn(b.lines) \subseteq 1..u
  BY <1>1, FilledHas
<1>3. OpenAt(b, u, stack)
  BY <1>1 DEF Filled
<1>4. CASE b.lines = <<>>
  <2>1. r = out
    BY <1>1, <1>4 DEF Flushed
  <2>2. b.tokens = 0
    BY <1>3, <1>4 DEF OpenAt
  <2>3. PICK before \in Seq(LineNumbers) : before = BeforeChunk(out.chunks, Len(out.chunks) + 1)
    BY FilledHas
  <2>4. OnlyRepeats(b, before)
    BY <1>4, <2>2, <2>3, EmptyRepeats
  <2> QED
    BY <1>1, <2>1, <2>3, <2>4 DEF AfterFlush
<1>5. CASE b.lines # <<>>
  <2>1. PICK e \in Nat : e = b.end /\ e <= u + 1
    BY <1>2, <1>3 DEF OpenAt, ChunkOf
  <2>2. PICK tail : tail = CarriedOverlap(b.lines)
    OBVIOUS
  <2>3. PICK ds : ds = Built(out)
    OBVIOUS
  <2>4. r = [chunks |-> ds,
             builder |-> IF tail = <<>> THEN Reset(stack, e) ELSE Added(Reset(stack, e), tail, e)]
    <3>1. (out.builder.lines = <<>>) = FALSE
      BY <1>1, <1>5
    <3>2. out.builder.end = e /\ CarriedOverlap(out.builder.lines) = tail
      BY <1>1, <2>1, <2>2
    <3>3. PICK x : x = Reset(stack, e)
      OBVIOUS
    <3>4. (Reset(stack, e)).end = e
      BY DEF Reset
    <3> QED
      BY <3>1, <3>2, <3>4, <2>3 DEF Flushed
  <2>5. PICK o : o = [chunks |-> ds, builder |-> Reset(stack, e)]
    OBVIOUS
  <2>6. Filled(o, u, stack) /\ o.builder.lines = <<>> /\ o.builder.tokens = 0
    BY <2>1, <2>3, <2>5, BuiltIs
  <2>7. CASE tail = <<>>
    <3>1. r = o
      BY <2>4, <2>5, <2>7
    <3>2. PICK before \in Seq(LineNumbers) : before = BeforeChunk(o.chunks, Len(o.chunks) + 1)
      BY <2>6, FilledHas
    <3>3. PICK z : z = o.builder
      OBVIOUS
    <3>4. z.lines = <<>> /\ z.tokens = 0
      BY <2>6, <3>3
    <3>5. OnlyRepeats(z, before)
      BY <3>2, <3>4, EmptyRepeats
    <3> QED
      BY <2>6, <3>1, <3>2, <3>3, <3>5 DEF AfterFlush
  <2>8. CASE tail # <<>>
    <3>3. PICK a \in Seq(LineNumbers) : a = b.lines /\ a # <<>>
      BY <1>2, <1>5 DEF ChunkOf
    <3>4. tail = <<>> \/ \E k \in 1..Len(a) : tail = SubSeq(a, k, Len(a)) /\ Takes(a, Len(a) - k + 1)
      <4>1. tail = CarriedOverlap(a)
        BY <2>2, <3>3
      <4> QED
        BY <3>3, <4>1, CarriedIs
    <3>5. PICK k \in 1..Len(a) : tail = SubSeq(a, k, Len(a)) /\ Takes(a, Len(a) - k + 1)
      BY <2>8, <3>4
    <3>6. /\ tail \in Seq(LineNumbers) /\ tail[Len(tail)] = a[Len(a)]
          /\ LinesIn(tail) \subseteq LinesIn(a)
          /\ Climbs(a) => Climbs(tail)
          /\ OneHeading(a) => OneHeading(tail)
      BY <3>5, SuffixIs
    <3>7. PICK c : c = Added(Reset(stack, e), tail, e)
      OBVIOUS
    <3>8. c \in ChunkOf /\ c.path = stack /\ c.start = e /\ c.end = e /\ c.lines = tail /\ c.tokens = Estimate(tail)
      <4>1. tail \in Seq(LineNumbers)
        BY <3>6
      <4> QED
        BY <2>8, <3>7, <4>1, RepeatsHas
    <3>9. c.lines = tail
      BY <3>8
    <3>10. r.chunks = ds /\ r.builder = c
      BY <2>4, <2>8, <3>7
    <3>11. ds = Append(cs, b)
      BY <1>1, <1>5, <2>3 DEF Built
    <3>12. ChunksWhole(cs) /\ WholeChunk(b, BeforeChunk(cs, Len(cs) + 1)) /\ Covered(cs, b.lines) = Filling(u)
      BY <1>1 DEF Filled
    <3>13. /\ ds \in Seq(ChunkOf) /\ ChunksWhole(ds)
           /\ BeforeChunk(ds, Len(ds) + 1) = b.lines
           /\ CoversToo(ds, cs, b.lines)
      <4>1. cs \in Seq(ChunkOf)
        BY <1>2
      <4>2. b \in ChunkOf
        BY <1>2
      <4>3. ChunksWhole(cs)
        BY <3>12
      <4>4. PICK p : p = BeforeChunk(cs, Len(cs) + 1)
        OBVIOUS
      <4>5. WholeChunk(b, p)
        BY <3>12, <4>4
      <4> QED
        BY <3>11, <4>1, <4>2, <4>3, <4>4, <4>5, OneMoreWhole
    <3>14. PICK prev : prev = LinesIn(a)
      OBVIOUS
    <3>15. LinesIn(tail) \ prev = {}
      BY <3>6, <3>14
    <3>16. OnlyRepeats(c, a)
      <4>1. PICK j \in 0..Len(a) : j = Len(a) - k + 1 /\ Len(a) - j + 1 = k
        <5>1. PICK n \in Nat : n = Len(a)
          BY <3>3
        <5>2. k \in 1..n
          BY <3>5, <5>1
        <5>3. n - k + 1 \in 0..n /\ n - (n - k + 1) + 1 = k
          BY <5>2
        <5> QED
          BY <5>1, <5>3
      <4>2. LastLines(a, j) = SubSeq(a, k, Len(a))
        BY <4>1 DEF LastLines
      <4>3. tail = LastLines(a, j) /\ Takes(a, j)
        BY <3>5, <4>1, <4>2
      <4>4. Estimate(tail) \in Nat
        <5>1. tail \in Seq(LineNumbers)
          BY <3>6
        <5> QED
          BY <5>1, EstimateIs
      <4>5. c.lines = LastLines(a, j) /\ c.tokens <= Estimate(c.lines)
        BY <3>8, <4>3, <4>4
      <4> QED
        BY <4>3, <4>5 DEF OnlyRepeats
    <3>17. Climbs(a) /\ OneHeading(a) /\ IsUnder(a, b.path) /\ b.path = stack
      BY <1>3, <3>3, <3>12 DEF WholeChunk, OpenAt
    <3>18. LiesIn(tail, prev, c.start, c.end) /\ LiesBehind(tail, prev) /\ Fits(c, a)
      BY <3>3, <3>8, <3>15, <3>16, RepeatsFit DEF LiesIn, LiesBehind
    <3>19. IsUnder(tail, c.path)
      BY <3>6, <3>8, <3>17 DEF IsUnder
    <3>20. WholeChunk(c, a)
      BY <3>6, <3>9, <3>14, <3>17, <3>18, <3>19 DEF WholeChunk
    <3>21. OpenAt(c, u, stack)
      <4>1. tail[Len(tail)] # 0
        BY <1>3, <3>3, <3>6 DEF OpenAt
      <4>2. \A l \in LinesIn(tail) : NoHeading(l, u)
        BY <1>3, <3>3, <3>6 DEF OpenAt
      <4> QED
        BY <2>1, <2>8, <3>8, <3>9, <4>1, <4>2 DEF OpenAt
    <3>22. Covered(ds, c.lines) = Filling(u)
      <4>1. Covered(ds, tail) = Covered(cs, b.lines) \cup LinesIn(tail)
        BY <3>13 DEF CoversToo
      <4>2. LinesIn(tail) \subseteq Covered(cs, b.lines)
        BY <3>3, <3>6 DEF Covered
      <4> QED
        BY <3>9, <3>12, <4>1, <4>2
    <3>23. r \in OutOf
      BY <2>4, <2>8, <3>7, <3>8, <3>13 DEF OutOf
    <3>24. BeforeChunk(ds, Len(ds) + 1) = a
      BY <3>3, <3>13
    <3>25. Filled(r, u, stack)
      BY <3>10, <3>13, <3>20, <3>21, <3>22, <3>23, <3>24 DEF Filled
    <3> QED
      BY <3>9, <3>10, <3>16, <3>24, <3>25 DEF AfterFlush
  <2> QED
    BY <2>7, <2>8
<1> QED
  BY <1>4, <1>5

-----------------------------------------------------------------------------
LEMMA FlushTyped ==
  ASSUME doc \in Seq(DocLines), stack \in Seq(LineNumbers), NEW out \in OutOf, NEW r, r = Flushed(out)
  PROVE  r \in OutOf
<1>1. PICK cs \in Seq(ChunkOf), b \in ChunkOf : out = [chunks |-> cs, builder |-> b]
  BY DEF OutOf
<1>2. CASE b.lines = <<>>
  BY <1>1, <1>2 DEF Flushed
<1>3. CASE b.lines # <<>>
  <2>1. PICK e \in Nat : e = b.end
    BY DEF ChunkOf
  <2>2. PICK tail : tail = CarriedOverlap(b.lines)
    OBVIOUS
  <2>3. PICK c : c = IF tail = <<>> THEN Reset(stack, e) ELSE Added(Reset(stack, e), tail, e)
    OBVIOUS
  <2>4. r = [chunks |-> Append(cs, b), builder |-> c]
    <3>1. (Reset(stack, e)).end = e
      BY DEF Reset
    <3> QED
      BY <1>1, <1>3, <2>1, <2>2, <2>3, <3>1 DEF Flushed, Built
  <2>5. c \in ChunkOf
    <3>1. CASE tail = <<>>
      BY <2>3, <3>1, ResetHas
    <3>2. CASE tail # <<>>
      <4>1. PICK a \in Seq(LineNumbers) : a = b.lines /\ a # <<>>
        BY <1>3 DEF ChunkOf
      <4>2. tail = CarriedOverlap(a)
        BY <2>2, <4>1
      <4>3. tail = <<>> \/ \E k \in 1..Len(a) : tail = SubSeq(a, k, Len(a))
        BY <4>1, <4>2, CarriedIs
      <4>4. PICK k \in 1..Len(a) : tail = SubSeq(a, k, Len(a))
        BY <3>2, <4>3
      <4>5. tail \in Seq(LineNumbers)
        BY <4>4, SuffixIs
      <4>6. c = Added(Reset(stack, e), tail, e)
        BY <2>3, <3>2
      <4> QED
        BY <3>2, <4>5, <4>6, RepeatsHas
    <3> QED
      BY <3>1, <3>2
  <2>6. Append(cs, b) \in Seq(ChunkOf)
    OBVIOUS
  <2> QED
    BY <2>4, <2>5, <2>6 DEF OutOf
<1> QED
  BY <1>2, <1>3

\* What a piece is put behind: an empty builder.
Emptied(out, piece) ==
  [chunks |-> Built(out),
   builder |-> IF out.builder.lines = <<>> THEN out.builder ELSE Reset(stack, piece[1])]
PieceAdded(out, piece) ==
  [chunks |-> Emptied(out, piece).chunks,
   builder |-> Added(Emptied(out, piece).builder, piece, Last(piece))]

LEMMA WithPieceHas ==
  ASSUME NEW out, NEW piece, NEW full, full = PieceAdded(out, piece)
  PROVE  WithPiece(out, piece) = IF full.builder.tokens >= ChunkLimit THEN Flushed(full) ELSE full
<1>1. full = [chunks |-> Built(out),
              builder |-> Added(IF out.builder.lines = <<>> THEN out.builder
                                ELSE Reset(stack, piece[1]), piece, Last(piece))]
  BY DEF PieceAdded, Emptied
<1> QED
  BY <1>1 DEF WithPiece

PieceLines == Seq(LineNumbers) \ {<<>>}

LEMMA WithPieceTyped ==
  ASSUME doc \in Seq(DocLines), stack \in Seq(LineNumbers), NEW out \in OutOf, NEW piece \in PieceLines
  PROVE  WithPiece(out, piece) \in OutOf
<1>1. PICK cs \in Seq(ChunkOf), b \in ChunkOf : out = [chunks |-> cs, builder |-> b]
  BY DEF OutOf
<1>2. PICK q \in Seq(LineNumbers) : q = piece /\ q # <<>>
  BY DEF PieceLines
<1>3. q[1] \in Nat /\ Last(q) \in Nat
  <2>1. q[1] \in LineNumbers /\ q[Len(q)] \in LineNumbers
    BY <1>2
  <2> QED
    BY <2>1 DEF LineNumbers, Last
<1>4. PICK x \in Nat, y \in Nat : x = q[1] /\ y = Last(q)
  BY <1>3
<1>5. PICK z : z = IF b.lines = <<>> THEN b ELSE Reset(stack, x)
  OBVIOUS
<1>6. z \in ChunkOf
  <2>1. Reset(stack, x) \in ChunkOf
    <3>1. PICK w : w = Reset(stack, x)
      OBVIOUS
    <3> QED
      BY <3>1, ResetHas
  <2> QED
    BY <1>5, <2>1
<1>7. PICK c : c = Added(z, q, y)
  OBVIOUS
<1>8. c \in ChunkOf
  <2>1. HasAdded(Added(z, q, y), z, q, y)
    BY <1>2, <1>4, <1>6, AddedHas
  <2> QED
    BY <1>7, <2>1 DEF HasAdded
<1>9. PICK ds : ds = IF b.lines = <<>> THEN cs ELSE Append(cs, b)
  OBVIOUS
<1>10. ds \in Seq(ChunkOf)
  BY <1>9
<1>11. PICK full : full = PieceAdded(out, piece)
  OBVIOUS
<1>12. full = [chunks |-> ds, builder |-> c]
  BY <1>1, <1>2, <1>4, <1>5, <1>7, <1>9, <1>11 DEF PieceAdded, Emptied, Built
<1>13. full \in OutOf
  BY <1>8, <1>10, <1>12 DEF OutOf
<1>14. Flushed(full) \in OutOf
  BY <1>13, FlushTyped
<1> QED
  BY <1>11, <1>13, <1>14, WithPieceHas

(* A piece in a chunk of its own.                                             *)
LEMMA WithPieceIs ==
  ASSUME doc \in Seq(DocLines), stack \in Seq(LineNumbers), NEW u \in Nat, NEW v \in Nat, u < v, v <= Len(doc),
         NEW out, Filled(out, u, stack), PathOk(stack, v), \A l \in (u + 1)..v : IsKind(l, "text"),
         NEW piece, piece = Run(u, v), v = u + 1 \/ Cost(piece) <= ChunkLimit
  PROVE  Filled(WithPiece(out, piece), v, stack)
<1>1. PICK cs, b : cs = out.chunks /\ b = out.builder
  OBVIOUS
<1>2. cs \in Seq(ChunkOf) /\ b \in ChunkOf /\ out = [chunks |-> cs, builder |-> b]
  BY <1>1, FilledHas
<1>3. piece \in Seq(LineNumbers) /\ piece # <<>> /\ piece[Len(piece)] = v /\ piece[1] = u + 1 /\ Len(piece) >= 1
  BY RunHas
<1>4. PICK z : z = Emptied(out, piece)
  OBVIOUS
<1>5. Filled(z, u, stack) /\ z.builder.lines = <<>> /\ z.builder.tokens = 0
  <2>1. CASE b.lines = <<>>
    <3>1. z = out
      BY <1>1, <1>2, <1>4, <2>1 DEF Emptied, Built
    <3>2. b.tokens = 0
      BY <1>1, <2>1 DEF Filled, OpenAt
    <3> QED
      BY <1>1, <2>1, <3>1, <3>2
  <2>2. CASE b.lines # <<>>
    <3>1. PICK s \in Nat : s = u + 1
      OBVIOUS
    <3>2. z = [chunks |-> Built(out), builder |-> Reset(stack, s)]
      BY <1>1, <1>3, <1>4, <2>2, <3>1 DEF Emptied
    <3>3. s <= u + 1
      BY <3>1
    <3> QED
      BY <3>2, <3>3, BuiltIs
  <2> QED
    BY <2>1, <2>2
<1>6. MayCome(z.builder.lines, u, v)
  BY DEF MayCome, IsKind
<1>7. Room(z.builder, BeforeChunk(z.chunks, Len(z.chunks) + 1), piece, u, v)
  <2>1. CASE v = u + 1
    BY <1>5, <2>1 DEF Room
  <2>2. CASE Cost(piece) <= ChunkLimit
    <3>1. PICK x \in Nat, y \in Nat : x = Cost(piece) /\ y = Estimate(piece) /\ y <= x
      BY <1>3, EstimateIs
    <3>2. z.builder.tokens + Estimate(piece) <= ChunkLimit
      BY <1>5, <2>2, <3>1, ChunkerAssumption
    <3> QED
      BY <3>2 DEF Room
  <2> QED
    BY <2>1, <2>2
<1>8. PICK full : full = PieceAdded(out, piece)
  OBVIOUS
<1>9. full = [chunks |-> z.chunks, builder |-> Added(z.builder, piece, v)]
  BY <1>3, <1>4, <1>8 DEF PieceAdded, Last
<1>10. Filled(full, v, stack)
  <2>1. Filled(z, u, stack)
    BY <1>5
  <2> QED
    BY <1>6, <1>7, <1>9, <2>1, GrowsBy
<1>11. Filled(Flushed(full), v, stack)
  BY <1>10, FlushedIs
<1> QED
  BY <1>8, <1>10, <1>11, WithPieceHas

LEMMA SplitIs ==
  ASSUME doc \in Seq(DocLines), stack \in Seq(LineNumbers), NEW u \in Nat, NEW v \in Nat, u < v, v <= Len(doc),
         NEW out, Filled(out, u, stack), StackOk(stack, u), \A l \in (u + 1)..v : IsKind(l, "text"),
         NEW q, q = Run(u, v)
  PROVE  Filled(FoldLeft(WithPiece, out, Pieces(q)), v, stack)
<1>1. PICK pieces : pieces = Pieces(q)
  OBVIOUS
<1>2. PICK e : Cuts(e, pieces, u, v)
  <2>1. u <= v
    OBVIOUS
  <2> QED
    BY <1>1, <2>1, PiecesAre
<1>3. /\ pieces \in Seq(Seq(LineNumbers)) /\ e \in [0..Len(pieces) -> Nat]
      /\ e[0] = u /\ e[Len(pieces)] = v /\ Len(pieces) \in Nat /\ DOMAIN pieces = 1..Len(pieces)
  BY <1>2 DEF Cuts
<1>4. \A k \in 1..Len(pieces) :
        /\ u <= e[k - 1] /\ e[k - 1] < e[k] /\ e[k] <= v
        /\ pieces[k] = Run(e[k - 1], e[k])
        /\ e[k] = e[k - 1] + 1 \/ Cost(pieces[k]) <= ChunkLimit
  BY <1>2 DEF Cuts
<1>5. pieces \in Seq(PieceLines)
  <2>1. ASSUME NEW k \in 1..Len(pieces) PROVE pieces[k] \in PieceLines
    <3>1. PICK a \in Nat, b \in Nat : a = e[k - 1] /\ b = e[k]
      <4>1. k - 1 \in 0..Len(pieces) /\ k \in 0..Len(pieces)
        BY <1>3
      <4> QED
        BY <1>3, <4>1
    <3>2. a < b /\ b <= Len(doc) /\ pieces[k] = Run(a, b)
      <4>1. a < b /\ b <= v /\ pieces[k] = Run(a, b)
        BY <1>4, <3>1
      <4>2. Len(doc) \in Nat
        OBVIOUS
      <4> QED
        BY <4>1, <4>2
    <3>3. pieces[k] \in Seq(LineNumbers) /\ pieces[k] # <<>>
      BY <3>2, RunHas
    <3> QED
      BY <3>3 DEF PieceLines
  <2> QED
    BY <1>3, <2>1
<1> DEFINE E == PieceLines
           R == OutOf
           g == [x \in R \X E |-> WithPiece(x[1], x[2])]
           body(F, s) == IF s = {} THEN out ELSE WithPiece(F[s \ {Max(s)}], pieces[Max(s)])
           Is(F) == F = [s \in SUBSET DOMAIN pieces |-> body(F, s)]
<1>6. g \in [R \X E -> R] /\ out \in R
  <2>1. ASSUME NEW x \in R \X E PROVE WithPiece(x[1], x[2]) \in R
    <3>1. PICK y \in R, l \in E : y = x[1] /\ l = x[2]
      OBVIOUS
    <3>2. WithPiece(y, l) \in OutOf
      BY WithPieceTyped
    <3> QED
      BY <3>1, <3>2
  <2>2. out \in R
    BY DEF Filled
  <2> QED
    BY <2>1, <2>2
<1>7. PICK h \in [SUBSET DOMAIN pieces -> R] : Folds(h, pieces, out, g)
  <2>1. PICK y, z : y = out /\ z = g
    OBVIOUS
  <2>2. y \in R /\ z \in [R \X E -> R] /\ pieces \in Seq(E)
    BY <1>5, <1>6, <2>1
  <2> HIDE DEF g, R, E
  <2>3. \E h \in [SUBSET DOMAIN pieces -> R] : Folds(h, pieces, y, z)
    BY <2>2, FoldIsThere
  <2> QED
    BY <2>1, <2>3
<1>8. ASSUME NEW s \in SUBSET DOMAIN pieces PROVE h[s] = body(h, s)
  <2>1. CASE s = {}
    BY <1>7, <2>1 DEF Folds
  <2>2. CASE s # {}
    <3>1. Max(s) \in DOMAIN pieces
      BY <1>3, <2>2, MaxIsIn
    <3>2. PICK y \in R, l \in E : y = h[s \ {Max(s)}] /\ l = pieces[Max(s)]
      <4>1. s \ {Max(s)} \in SUBSET DOMAIN pieces
        OBVIOUS
      <4> HIDE DEF R, E
      <4>2. h[s \ {Max(s)}] \in R
        BY <1>7, <4>1
      <4>3. pieces[Max(s)] \in E
        BY <1>5, <3>1 DEF E
      <4> QED
        BY <4>2, <4>3
    <3>3. h[s] = g[<<y, l>>]
      BY <1>7, <2>2, <3>2 DEF Folds
    <3>4. g[<<y, l>>] = WithPiece(y, l)
      OBVIOUS
    <3> QED
      BY <2>2, <3>2, <3>3, <3>4
  <2> QED
    BY <2>1, <2>2
<1>9. Is(h)
  BY <1>8
<1>10. Is(CHOOSE F : Is(F))
  BY <1>9, Zenon
<1>11. FoldLeft(WithPiece, out, pieces) = (CHOOSE F : Is(F))[DOMAIN pieces]
  BY Zenon DEF FoldLeft, MapThenFoldSet
<1>12. PICK f : f = CHOOSE F : Is(F)
  OBVIOUS
<1>13. \A s \in SUBSET DOMAIN pieces : f[s] = body(f, s)
  <2> HIDE DEF body
  <2> QED
    BY <1>10, <1>12, Zenon
<1>14. GoesOn(f, pieces, out, g, R)
  <2>1. f[{}] = out
    BY <1>13
  <2>2. ASSUME NEW s \in (SUBSET DOMAIN pieces) \ {{}}, f[s \ {Max(s)}] \in R
        PROVE  f[s] = g[<<f[s \ {Max(s)}], pieces[Max(s)]>>]
    <3>1. Max(s) \in DOMAIN pieces
      BY <1>3, <2>2, MaxIsIn
    <3>2. PICK y \in R, l \in E : y = f[s \ {Max(s)}] /\ l = pieces[Max(s)]
      BY <1>5, <2>2, <3>1
    <3>3. f[s] = WithPiece(y, l)
      BY <1>13, <2>2, <3>2
    <3>4. g[<<y, l>>] = WithPiece(y, l)
      OBVIOUS
    <3> QED
      BY <3>2, <3>3, <3>4
  <2> HIDE DEF g, R
  <2> QED
    BY <2>1, <2>2 DEF GoesOn
<1>15. PICK p : p \in [0..Len(pieces) -> R] /\ GoesTo(f, p, pieces, out, g)
  <2>1. PICK z, w, S, D : z = out /\ w = g /\ S = R /\ D = E
    OBVIOUS
  <2>2. pieces \in Seq(D)
    BY <1>5, <2>1
  <2>3. z \in S
    BY <1>6, <2>1
  <2>4. w \in [S \X D -> S]
    BY <1>6, <2>1
  <2>5. GoesOn(f, pieces, z, w, S)
    BY <1>14, <2>1
  <2> HIDE DEF g, R, E
  <2>6. \E p \in [0..Len(pieces) -> S] : GoesTo(f, p, pieces, z, w)
    BY <2>2, <2>3, <2>4, <2>5, FoldTakesSteps
  <2> QED
    BY <2>1, <2>6
<1>16. /\ p[0] = out /\ (\A k \in 1..Len(pieces) : p[k] = g[<<p[k - 1], pieces[k]>>])
       /\ FoldLeft(WithPiece, out, pieces) = p[Len(pieces)]
  BY <1>11, <1>12, <1>15 DEF GoesTo
<1> DEFINE S == {k \in 0..Len(pieces) : Filled(p[k], e[k], stack)}
<1>17. 0..Len(pieces) \subseteq S
  <2>1. 0 \in S
    BY <1>3, <1>16
  <2>2. ASSUME NEW k \in 0..Len(pieces), k \in S, k + 1 <= Len(pieces) PROVE k + 1 \in S
    <3>1. PICK m \in 1..Len(pieces) : m = k + 1
      BY <1>3, <2>2
    <3>2. m - 1 = k /\ m \in 0..Len(pieces)
      BY <1>3, <3>1
    <3>3. PICK a \in Nat, b \in Nat : a = e[k] /\ b = e[m]
      BY <1>3, <3>2
    <3>4. PICK y \in R, piece \in E : y = p[k] /\ piece = pieces[m]
      <4> HIDE DEF R, E
      <4>1. p[k] \in R
        BY <1>15
      <4>2. pieces[m] \in E
        BY <1>5 DEF E
      <4> QED
        BY <4>1, <4>2
    <3>5. /\ u <= a /\ a < b /\ b <= v /\ piece = Run(a, b)
          /\ b = a + 1 \/ Cost(piece) <= ChunkLimit
      BY <1>4, <3>2, <3>3, <3>4
    <3>6. p[m] = WithPiece(y, piece)
      <4>1. p[m] = g[<<y, piece>>]
        BY <1>16, <3>2, <3>4
      <4>2. g[<<y, piece>>] = WithPiece(y, piece)
        OBVIOUS
      <4> QED
        BY <4>1, <4>2
    <3>7. Filled(y, a, stack)
      BY <2>2, <3>3, <3>4
    <3>8. b <= Len(doc)
      <4>1. Len(doc) \in Nat
        OBVIOUS
      <4> QED
        BY <3>5, <4>1
    <3>9. \A l \in (a + 1)..b : IsKind(l, "text")
      <4>1. \A l \in (a + 1)..b : l \in (u + 1)..v
        BY <3>5
      <4> QED
        BY <4>1
    <3>10. PathOk(stack, b)
      <4>1. NoHeading(u, b)
        <5>1. \A l \in (u + 1)..b : l \in (u + 1)..v
          BY <3>5
        <5> QED
          BY <5>1 DEF NoHeading, IsKind
      <4>2. u <= b
        BY <3>5
      <4>3. StackOk(stack, b)
        BY <4>1, <4>2, StackStays
      <4> QED
        BY <3>8, <4>3, StackIsPath
    <3>11. a < b
      BY <3>5
    <3>12. piece = Run(a, b)
      BY <3>5
    <3>13. b = a + 1 \/ Cost(piece) <= ChunkLimit
      BY <3>5
    <3>14. Filled(WithPiece(y, piece), b, stack)
      <4> HIDE DEF S, g, R, E
      <4> QED
        BY <3>7, <3>8, <3>9, <3>10, <3>11, <3>12, <3>13, WithPieceIs
    <3> QED
      BY <3>1, <3>2, <3>3, <3>6, <3>14
  <2> HIDE DEF S
  <2> QED
    BY <1>3, <2>1, <2>2, StepByStep
<1>18. Len(pieces) \in S
  <2>1. Len(pieces) \in 0..Len(pieces)
    BY <1>3
  <2> HIDE DEF S
  <2> QED
    BY <1>17, <2>1
<1> QED
  BY <1>1, <1>3, <1>16, <1>18

-----------------------------------------------------------------------------
(* Nothing is written into a document.                                        *)
LEMMA SameHeadings ==
  ASSUME doc' = doc, NEW l, NEW path
  PROVE  /\ Over(l)' = Over(l) /\ (NoLevelSkipped(l)' <=> NoLevelSkipped(l))
         /\ (PathOk(path, l)' <=> PathOk(path, l))
<1>1. Over(l)' = Over(l)
  BY DEF Over, IsKind
<1>2. NoLevelSkipped(l)' <=> NoLevelSkipped(l)
  BY <1>1 DEF NoLevelSkipped
<1>3. PathOk(path, l)' <=> PathOk(path, l)
  BY <1>1, <1>2 DEF PathOk
<1> QED
  BY <1>1, <1>2, <1>3

LEMMA SameStack ==
  ASSUME doc' = doc, NEW l, NEW path, StackOk(path, l)
  PROVE  StackOk(path, l)'
<1>1. Over(l)' = Over(l)
  BY SameHeadings
<1>2. \A k \in Nat : HasLevels(l, k)' <=> HasLevels(l, k)
  BY <1>1 DEF HasLevels, HasLevel
<1>3. \A k \in Nat : InPlace(path, l, k)' <=> InPlace(path, l, k)
  BY <1>1 DEF InPlace
<1>4. LineNumbers' = LineNumbers
  BY DEF LineNumbers
<1> QED
  BY <1>1, <1>2, <1>3, <1>4 DEF StackOk

LEMMA SameWeights ==
  ASSUME doc' = doc, NEW q
  PROVE  Cost(q)' = Cost(q) /\ Estimate(q)' = Estimate(q)
<1>1. \A l : LineLength(l)' = LineLength(l) /\ LineCost(l)' = LineCost(l)
  BY DEF LineCost, LineLength, IsKind
<1>2. Cost(q)' = Cost(q)
  BY <1>1 DEF Cost, FoldLeft, MapThenFoldSet
<1>3. TextLength(q)' = TextLength(q)
  BY <1>1 DEF TextLength, FoldLeft, MapThenFoldSet
<1> QED
  BY <1>2, <1>3 DEF Estimate

LEMMA SameWhole ==
  ASSUME doc' = doc, NEW c, NEW prev, WholeChunk(c, prev)
  PROVE  WholeChunk(c, prev)'
<1>1. OneHeading(c.lines)' <=> OneHeading(c.lines)
  BY DEF OneHeading, IsKind
<1>2. IsUnder(c.lines, c.path)' <=> IsUnder(c.lines, c.path)
  <2>1. PICK q, p : q = c.lines /\ p = c.path
    OBVIOUS
  <2>2. \A l : PathOk(p, l)' <=> PathOk(p, l)
    BY SameHeadings
  <2>3. IsUnder(q, p)' <=> IsUnder(q, p)
    BY <2>2 DEF IsUnder
  <2> QED
    BY <2>1, <2>3
<1>3. Fits(c, prev)' <=> Fits(c, prev)
  <2>1. \A q : Cost(q)' = Cost(q) /\ Estimate(q)' = Estimate(q)
    BY SameWeights
  <2>2. ASSUME NEW k PROVE AddsTo(c, prev, k)' <=> AddsTo(c, prev, k)
    <3>1. PICK t : t = LastLines(prev, k)
      OBVIOUS
    <3>2. LastLines(prev, k)' = LastLines(prev, k)
      BY DEF LastLines
    <3>3. Cost(LastLines(prev, k))' = Cost(LastLines(prev, k))
      BY <2>1, <3>2
    <3>4. Estimate(LastLines(prev, k))' = Estimate(LastLines(prev, k))
      BY <2>1, <3>2
    <3> QED
      BY <3>2, <3>3, <3>4 DEF AddsTo
  <2> QED
    BY <2>2 DEF Fits
<1> QED
  BY <1>1, <1>2, <1>3 DEF WholeChunk

LEMMA SameFilled ==
  ASSUME doc' = doc, NEW out, NEW u, NEW path, Filled(out, u, path)
  PROVE  Filled(out, u, path)'
<1>1. LineNumbers' = LineNumbers
  BY DEF LineNumbers
<1>2. OutOf' = OutOf
  BY <1>1 DEF OutOf, ChunkOf
<1>3. OpenAt(out.builder, u, path)' <=> OpenAt(out.builder, u, path)
  <2>1. PICK b : b = out.builder
    OBVIOUS
  <2>2. \A l : NoHeading(l, u)' <=> NoHeading(l, u)
    BY DEF NoHeading, IsKind
  <2>3. OpenAt(b, u, path)' <=> OpenAt(b, u, path)
    BY <2>2 DEF OpenAt
  <2> QED
    BY <2>1, <2>3
<1>4. WholeChunk(out.builder, BeforeChunk(out.chunks, Len(out.chunks) + 1))'
  <2>1. PICK b, prev : b = out.builder /\ prev = BeforeChunk(out.chunks, Len(out.chunks) + 1)
    OBVIOUS
  <2>2. WholeChunk(b, prev)
    BY <2>1 DEF Filled
  <2>3. WholeChunk(b, prev)'
    BY <2>2, SameWhole
  <2> QED
    BY <2>1, <2>3
<1>5. ChunksWhole(out.chunks)'
  <2>1. PICK cs : cs = out.chunks
    OBVIOUS
  <2>2. ASSUME NEW c \in DOMAIN cs PROVE WholeChunk(cs[c], BeforeChunk(cs, c))'
    <3>1. PICK b, prev : b = cs[c] /\ prev = BeforeChunk(cs, c)
      OBVIOUS
    <3>2. WholeChunk(b, prev)
      BY <2>1, <3>1 DEF Filled, ChunksWhole
    <3>3. WholeChunk(b, prev)'
      BY <3>2, SameWhole
    <3> QED
      BY <3>1, <3>3
  <2>3. ChunksWhole(cs)'
    BY <2>2 DEF ChunksWhole
  <2> QED
    BY <2>1, <2>3
<1>6. Filling(u)' = Filling(u)
  BY DEF Filling, IsKind
<1> QED
  BY <1>2, <1>3, <1>4, <1>5, <1>6 DEF Filled

ChunkInv ==
  /\ doc \in Seq(DocLines) /\ next \in 0..(Len(doc) + 2)
  /\ next = 0 => doc = <<>> /\ stack = <<>> /\ chunks = <<>> /\ builder = Reset(<<>>, 1)
  /\ next \in 1..(Len(doc) + 1) => Filled(Out, next - 1, stack) /\ StackOk(stack, next - 1)
  /\ doc # <<>> /\ next = Len(doc) + 2 => Filled(Out, Len(doc), <<>>) /\ builder.lines = <<>>

\* The loop has taken the lines up to the u-th.
LEMMA ChunkInvStays ==
  ASSUME doc' = doc, doc \in Seq(DocLines), NEW u \in 0..Len(doc), NEW out, NEW path,
         Filled(out, u, path), StackOk(path, u),
         next' = u + 1, stack' = path, chunks' = out.chunks, builder' = out.builder
  PROVE  ChunkInv'
<1>1. Filled(out, u, path)' /\ StackOk(path, u)'
  BY SameFilled, SameStack
<1>2. Out' = out
  <2>1. out = [chunks |-> out.chunks, builder |-> out.builder]
    BY DEF Filled, OutOf
  <2> QED
    BY <2>1 DEF Out
<1>3. (next - 1)' = u
  OBVIOUS
<1>4. Filled(Out, next - 1, stack)' /\ StackOk(stack, next - 1)'
  BY <1>1, <1>2, <1>3
<1>5. next' \in 1..(Len(doc') + 1) /\ doc' \in Seq(DocLines)
  OBVIOUS
<1> QED
  BY <1>4, <1>5 DEF ChunkInv

Unstarted == [chunks |-> <<>>, builder |-> Reset(<<>>, 1)]
LEMMA UnstartedIsFilled ==
  ASSUME doc \in Seq(DocLines)
  PROVE  Filled(Unstarted, 0, <<>>) /\ StackOk(<<>>, 0)
<1>1. PICK b, cs, e : b = Reset(<<>>, 1) /\ cs = <<>> /\ e = <<>>
  OBVIOUS
<1>2. e \in Seq(LineNumbers) /\ cs \in Seq(ChunkOf) /\ Len(cs) = 0 /\ Len(e) = 0 /\ DOMAIN cs = {}
  BY <1>1
<1>3. b \in ChunkOf /\ b.lines = <<>> /\ b.tokens = 0 /\ b.path = e /\ b.start = 1 /\ b.end = 1
  <2>1. PICK s \in Nat : s = 1
    OBVIOUS
  <2>2. b = Reset(e, s)
    BY <1>1, <2>1
  <2>3. /\ b \in ChunkOf /\ b.lines = <<>> /\ b.tokens = 0 /\ b.path = e /\ b.start = s /\ b.end = s
    <3>1. e \in Seq(LineNumbers)
      BY <1>2
    <3> QED
      BY <2>2, <3>1, ResetHas
  <2> QED
    BY <2>1, <2>3
<1>4. WholeChunk(b, e) /\ LinesIn(b.lines) = {} /\ BeforeChunk(cs, Len(cs) + 1) = e
  <2>1. e \in Seq(LineNumbers) /\ b.lines = <<>>
    BY <1>1, <1>2, <1>3
  <2>2. BeforeChunk(cs, Len(cs) + 1) = e
    BY <1>1, <1>2 DEF BeforeChunk
  <2> QED
    BY <1>3, <2>1, <2>2, EmptyIsWhole
<1>5. OpenAt(b, 0, e)
  BY <1>3, <1>4 DEF OpenAt
<1>6. ChunksWhole(cs) /\ Covered(cs, b.lines) = {} /\ Filling(0) = {}
  BY <1>2, <1>4 DEF ChunksWhole, Covered, Filling
<1>7. Unstarted.chunks = cs /\ Unstarted.builder = b /\ Unstarted \in OutOf
  BY <1>1, <1>2, <1>3 DEF Unstarted, OutOf
<1>8. Filled(Unstarted, 0, e)
  BY <1>4, <1>5, <1>6, <1>7 DEF Filled
<1>9. StackOk(e, 0)
  <2>1. Over(0) = {}
    BY DEF Over
  <2>2. ASSUME NEW k \in Nat, HasLevels(0, k) PROVE k = 0
    <3>1. CASE k # 0
      <4>1. 1 \in 1..k
        BY <3>1
      <4> QED
        BY <2>1, <2>2, <4>1 DEF HasLevels, HasLevel
    <3> QED
      BY <3>1
  <2>3. ASSUME NEW k \in Nat, HasLevels(0, k) PROVE k <= Len(e) /\ InPlace(e, 0, k)
    <3>1. k = 0
      BY <2>2, <2>3
    <3> QED
      BY <1>2, <3>1 DEF InPlace
  <2> QED
    BY <1>2, <2>3 DEF StackOk
<1> QED
  BY <1>1, <1>8, <1>9

LEMMA ParagraphIs ==
  ASSUME doc \in Seq(DocLines), LineIs("text")
  PROVE  \E u \in Nat, v \in Nat :
           /\ u = next - 1 /\ v = ParagraphEnd /\ u < v /\ v <= Len(doc)
           /\ \A l \in (u + 1)..v : IsKind(l, "text")
           /\ Paragraph = Run(u, v)
<1>1. PICK n \in Nat : n = Len(doc) /\ next \in 1..n /\ IsKind(next, "text")
  BY DEF LineIs
<1> DEFINE S == {j \in next..n : j = n \/ ~IsKind(j + 1, "text")}
           Is(j) == /\ \A l \in next..j : IsKind(l, "text")
                    /\ j = Len(doc) \/ ~IsKind(j + 1, "text")
<1>2. PICK m \in S : \A j \in S : m <= j
  <2>1. S \in SUBSET Nat /\ n \in S
    BY <1>1
  <2>2. S # {}
    BY <2>1
  <2> HIDE DEF S
  <2> QED
    BY <2>1, <2>2, LeastNumber
<1>3. ASSUME NEW l \in next..m PROVE IsKind(l, "text")
  <2>1. CASE l = next
    BY <1>1, <2>1
  <2>2. CASE l # next
    <3>1. PICK j \in next..n : j = l - 1 /\ j + 1 = l
      BY <1>1, <2>2
    <3>2. j \notin S
      <4>1. j < m
        BY <3>1
      <4> QED
        BY <1>1, <1>2, <4>1
    <3> QED
      BY <3>1, <3>2
  <2> QED
    BY <2>1, <2>2
<1>4. m \in next..Len(doc) /\ Is(m)
  BY <1>1, <1>2, <1>3
<1>5. (CHOOSE j \in next..Len(doc) : Is(j)) \in next..Len(doc) /\ Is(CHOOSE j \in next..Len(doc) : Is(j))
  <2> HIDE DEF Is
  <2> QED
    BY <1>4
<1>6. ParagraphEnd = CHOOSE j \in next..Len(doc) : Is(j)
  BY DEF ParagraphEnd
<1>7. PICK v : v = ParagraphEnd
  OBVIOUS
<1>8. v \in next..n /\ \A l \in next..v : IsKind(l, "text")
  BY <1>1, <1>5, <1>6, <1>7
<1>9. PICK u \in Nat : u = next - 1 /\ u + 1 = next
  BY <1>1
<1>10. Paragraph = Run(u, v)
  <2>1. \A i \in 1..(v - u) : next + i - 1 = u + i
    BY <1>1, <1>8, <1>9
  <2>2. v - next + 1 = v - u
    BY <1>1, <1>8, <1>9
  <2> QED
    BY <1>7, <2>1, <2>2 DEF Paragraph, Run
<1>11. v \in Nat /\ u < v /\ v <= Len(doc)
  BY <1>1, <1>8, <1>9
<1> QED
  BY <1>7, <1>8, <1>9, <1>10, <1>11

\* The steps of the loop.
LEMMA BlankIsSkipped ==
  ASSUME doc \in Seq(DocLines), NEW u \in Nat, NEW v \in Nat, v = u + 1, NEW out, NEW path,
         ~IsKind(v, "heading"), IsKind(v, "blank"), Filled(out, u, path), StackOk(path, u)
  PROVE  Filled(out, v, path) /\ StackOk(path, v)
<1>1. u <= v /\ NoHeading(u, v)
  <2>1. \A g \in (u + 1)..v : g = v
    OBVIOUS
  <2> QED
    BY <2>1 DEF NoHeading
<1>2. StackOk(path, v)
  BY <1>1, StackStays
<1>3. LinesIn(out.builder.lines) \subseteq 1..u /\ out.builder \in ChunkOf
  BY FilledHas
<1>4. OpenAt(out.builder, v, path)
  <2>1. PICK b : b = out.builder
    OBVIOUS
  <2>2. OpenAt(b, u, path)
    BY <2>1 DEF Filled
  <2>3. b.start <= v + 1 /\ b.end <= v + 1
    <3>1. b.start \in Nat /\ b.end \in Nat
      BY <1>3, <2>1 DEF ChunkOf
    <3>2. b.start <= u + 1 /\ b.end <= u + 1
      BY <2>2 DEF OpenAt
    <3> QED
      BY <3>1, <3>2
  <2>4. ASSUME NEW l \in LinesIn(b.lines) PROVE NoHeading(l, v)
    <3>1. l \in 1..u /\ NoHeading(l, u)
      BY <1>3, <2>1, <2>2 DEF OpenAt
    <3>2. \A g \in (l + 1)..v : g \in (l + 1)..u \/ g = v
      BY <3>1
    <3> QED
      BY <3>1, <3>2 DEF NoHeading
  <2>5. OpenAt(b, v, path)
    BY <2>2, <2>3, <2>4 DEF OpenAt
  <2> QED
    BY <2>1, <2>5
<1>5. Filling(v) = Filling(u)
  <2>1. 1..v = (1..u) \cup {v}
    OBVIOUS
  <2> QED
    BY <2>1 DEF Filling
<1> QED
  BY <1>2, <1>4, <1>5 DEF Filled

LEMMA HeadingIsTaken ==
  ASSUME doc \in Seq(DocLines), NEW u \in Nat, NEW v \in Nat, v = u + 1, v <= Len(doc),
         IsKind(v, "heading"), NEW out, NEW path, Filled(out, u, path), StackOk(path, u),
         NEW other, other = UpdatedPath(path, doc[v].n, v),
         NEW r, r = [chunks |-> Built(out), builder |-> Added(Reset(other, v), <<v>>, v)]
  PROVE  Filled(r, v, other) /\ StackOk(other, v)
<1>1. StackOk(other, v)
  BY StackGrows
<1>2. PathOk(other, v)
  BY <1>1, StackIsPath
<1>3. other \in Seq(LineNumbers)
  BY <1>1 DEF StackOk
<1>4. PICK z : z = [chunks |-> Built(out), builder |-> Reset(other, v)]
  OBVIOUS
<1>5. Filled(z, u, other) /\ z.builder.lines = <<>> /\ z.builder.tokens = 0
  <2>1. v <= u + 1
    OBVIOUS
  <2> QED
    BY <1>3, <1>4, <2>1, BuiltIs
<1>6. PICK q : q = <<v>>
  OBVIOUS
<1>7. q = Run(u, v)
  <2>1. u <= u /\ u + 1 <= Len(doc)
    OBVIOUS
  <2> QED
    BY <1>6, <2>1, RunOfMore
<1>8. MayCome(z.builder.lines, u, v)
  <2>1. \A l \in (u + 1)..v : l = v
    OBVIOUS
  <2> QED
    BY <1>5, <2>1 DEF MayCome, IsKind
<1>9. Room(z.builder, BeforeChunk(z.chunks, Len(z.chunks) + 1), q, u, v)
  BY <1>5 DEF Room
<1>10. r = [chunks |-> z.chunks, builder |-> Added(z.builder, q, v)]
  BY <1>4, <1>6
<1>11. Filled(z, u, other)
  BY <1>5
<1>12. u < v
  OBVIOUS
<1>13. Filled(r, v, other)
  BY <1>2, <1>7, <1>8, <1>9, <1>10, <1>11, <1>12, GrowsBy
<1> QED
  BY <1>1, <1>13

LEMMA ParagraphIsTaken ==
  ASSUME doc \in Seq(DocLines), stack \in Seq(LineNumbers), NEW u \in Nat, NEW v \in Nat, u < v, v <= Len(doc),
         NEW old, Filled(old, u, stack), StackOk(stack, u), \A l \in (u + 1)..v : IsKind(l, "text"),
         NEW q, q = Run(u, v), Estimate(q) <= ChunkLimit,
         NEW out, out = IF old.builder.tokens + Estimate(q) > ChunkLimit THEN Flushed(old) ELSE old,
         NEW r, r = [chunks |-> out.chunks, builder |-> Added(out.builder, q, v)]
  PROVE  Filled(r, v, stack) /\ StackOk(stack, v) /\ out \in OutOf
<1>1. StackOk(stack, v)
  <2>1. u <= v /\ NoHeading(u, v)
    BY DEF NoHeading, IsKind
  <2> QED
    BY <2>1, StackStays
<1>2. PathOk(stack, v)
  BY <1>1, StackIsPath
<1>3. PICK x \in Nat : x = Estimate(q)
  <2>1. q \in Seq(LineNumbers)
    BY RunHas
  <2> QED
    BY <2>1, EstimateIs
<1>4. MayCome(out.builder.lines, u, v)
  BY DEF MayCome, IsKind
<1>5. Filled(out, u, stack) /\ Room(out.builder, BeforeChunk(out.chunks, Len(out.chunks) + 1), q, u, v)
  <2>1. PICK t \in Nat : t = old.builder.tokens
    <3>1. old.builder \in ChunkOf
      BY FilledHas
    <3> QED
      BY <3>1 DEF ChunkOf
  <2>2. CASE t + x > ChunkLimit
    <3>1. out = Flushed(old)
      BY <1>3, <2>1, <2>2
    <3>2. Filled(out, u, stack) /\ AfterFlush(out)
      BY <3>1, FlushedIs
    <3> QED
      BY <3>2 DEF AfterFlush, Room
  <2>3. CASE ~(t + x > ChunkLimit)
    <3>1. out = old
      BY <1>3, <2>1, <2>3
    <3>2. old.builder.tokens + Estimate(q) <= ChunkLimit
      BY <1>3, <2>1, <2>3, ChunkerAssumption
    <3> QED
      BY <3>1, <3>2 DEF Room
  <2> QED
    BY <2>2, <2>3
<1>6. Filled(out, u, stack)
  BY <1>5
<1>7. Room(out.builder, BeforeChunk(out.chunks, Len(out.chunks) + 1), q, u, v)
  BY <1>5
<1>8. Filled(r, v, stack)
  BY <1>2, <1>4, <1>6, <1>7, GrowsBy
<1> QED
  BY <1>1, <1>6, <1>8 DEF Filled

(* chunk_markdown (memory/chunker.py), of every document and for every limit  *)
(* and overlap: its chunks have each line with text, in order and each under  *)
(* the headings it stands under; what a chunk repeats is the end of the one   *)
(* before, one line or within the overlap, and it is over max_tokens by no    *)
(* more than that, or a single line; flushes and the pieces of a paragraph    *)
(* that is too large included.                                                *)
THEOREM ChunksStayTheDocument == ChunkerSpec => []ChunksAreTheDocument
<1>1. ChunkerInit => ChunkInv
  BY DEF ChunkerInit, ChunkInv
<1>2. ASSUME ChunkInv, [ChunkerNext]_chunkVars PROVE ChunkInv'
  <2>0. /\ doc \in Seq(DocLines) /\ next \in 0..(Len(doc) + 2) /\ Len(doc) \in Nat
        /\ DOMAIN doc = 1..Len(doc) /\ Out.chunks = chunks /\ Out.builder = builder
    BY <1>2 DEF ChunkInv, Out
  <2>1. ASSUME next \in 1..(Len(doc) + 1)
        PROVE  \E u \in 0..Len(doc) :
                 /\ u = next - 1 /\ u + 1 = next /\ Filled(Out, u, stack) /\ StackOk(stack, u)
                 /\ stack \in Seq(LineNumbers)
    <3>1. PICK u \in 0..Len(doc) : u = next - 1 /\ u + 1 = next
      BY <2>0, <2>1
    <3>2. Filled(Out, u, stack) /\ StackOk(stack, u)
      BY <1>2, <2>1, <3>1 DEF ChunkInv
    <3> QED
      BY <3>1, <3>2 DEF StackOk
  <2>2. CASE Opens
    <3>1. PICK n \in 1..MaxLines : doc' \in [1..n -> DocLines]
      BY <2>2 DEF Opens
    <3>2. doc' \in Seq(DocLines) /\ Len(doc') = n /\ n \in Nat /\ n >= 1 /\ next' = 1
      BY <2>2, <3>1 DEF Opens
    <3>3. stack' = <<>> /\ chunks' = <<>> /\ builder' = Reset(<<>>, 1)
      BY <1>2, <2>2 DEF Opens, ChunkInv
    <3>4. Filled(Unstarted, 0, <<>>)' /\ StackOk(<<>>, 0)'
      <4>1. (doc \in Seq(DocLines) => Filled(Unstarted, 0, <<>>) /\ StackOk(<<>>, 0))'
        BY UnstartedIsFilled, PTL
      <4> QED
        BY <3>2, <4>1
    <3>5. Out' = Unstarted /\ (next - 1)' = 0
      BY <3>2, <3>3 DEF Out, Unstarted, Reset
    <3>6. Filled(Out, next - 1, stack)' /\ StackOk(stack, next - 1)'
      BY <3>3, <3>4, <3>5
    <3> QED
      BY <3>2, <3>6 DEF ChunkInv
  <2>3. CASE SkipsBlank
    <3>1. next \in 1..Len(doc) /\ IsKind(next, "blank") /\ next \in 1..(Len(doc) + 1)
      BY <2>0, <2>3 DEF SkipsBlank, LineIs
    <3>2. PICK u \in 0..Len(doc) : u + 1 = next /\ Filled(Out, u, stack) /\ StackOk(stack, u)
      BY <2>1, <3>1
    <3>3. PICK v \in 0..Len(doc) : v = next
      BY <3>1
    <3>4. Filled(Out, v, stack) /\ StackOk(stack, v)
      <4>1. u \in Nat /\ v \in Nat /\ v = u + 1 /\ ~IsKind(v, "heading") /\ IsKind(v, "blank")
        BY <3>1, <3>2, <3>3 DEF IsKind
      <4> QED
        BY <2>0, <3>2, <4>1, BlankIsSkipped
    <3> QED
      BY <2>0, <2>3, <3>3, <3>4, ChunkInvStays DEF SkipsBlank
  <2>4. CASE TakesHeading
    <3>1. next \in 1..Len(doc) /\ IsKind(next, "heading") /\ next \in 1..(Len(doc) + 1)
      BY <2>0, <2>4 DEF TakesHeading, LineIs
    <3>2. PICK u \in 0..Len(doc) : u + 1 = next /\ Filled(Out, u, stack) /\ StackOk(stack, u)
      BY <2>1, <3>1
    <3>3. PICK v \in 0..Len(doc) : v = next
      BY <3>1
    <3>4. PICK path : path = UpdatedPath(stack, doc[v].n, v)
      OBVIOUS
    <3>5. PICK out : out = [chunks |-> Built(Out), builder |-> Added(Reset(path, v), <<v>>, v)]
      OBVIOUS
    <3>6. Filled(out, v, path) /\ StackOk(path, v)
      <4>1. u \in Nat /\ v \in Nat /\ v = u + 1 /\ IsKind(v, "heading") /\ v <= Len(doc)
        BY <3>1, <3>2, <3>3
      <4> QED
        BY <2>0, <3>2, <3>4, <3>5, <4>1, HeadingIsTaken
    <3>7. next' = v + 1 /\ stack' = path /\ chunks' = out.chunks /\ builder' = out.builder /\ doc' = doc
      BY <2>4, <3>3, <3>4, <3>5 DEF TakesHeading
    <3> QED
      BY <2>0, <3>6, <3>7, ChunkInvStays
  <2>5. CASE TakesParagraph
    <3>1. LineIs("text") /\ next \in 1..(Len(doc) + 1)
      BY <2>0, <2>5 DEF TakesParagraph, LineIs
    <3>2. PICK u \in 0..Len(doc) : /\ u = next - 1 /\ Filled(Out, u, stack) /\ StackOk(stack, u)
                                   /\ stack \in Seq(LineNumbers)
      BY <2>1, <3>1
    <3>3. PICK v \in Nat : /\ v = ParagraphEnd /\ u < v /\ v <= Len(doc)
                           /\ (\A l \in (u + 1)..v : IsKind(l, "text")) /\ Paragraph = Run(u, v)
      BY <2>0, <3>1, <3>2, ParagraphIs
    <3>4. PICK q : q = Paragraph
      OBVIOUS
    <3>5. PICK out : out = IF Overflows(q) THEN Flushed(Out) ELSE Out
      OBVIOUS
    <3>6. PICK r : r = [chunks |-> out.chunks, builder |-> Added(out.builder, q, v)]
      OBVIOUS
    <3>7. Filled(r, v, stack) /\ StackOk(stack, v) /\ out \in OutOf
      <4>1. u \in Nat /\ Estimate(q) <= ChunkLimit /\ Out.builder.tokens = builder.tokens
        BY <2>0, <2>5, <3>4 DEF TakesParagraph
      <4>2. q = Run(u, v)
        BY <3>3, <3>4
      <4>3. PICK old : old = Out
        OBVIOUS
      <4>4. out = IF old.builder.tokens + Estimate(q) > ChunkLimit THEN Flushed(old) ELSE old
        BY <3>5, <4>1, <4>3 DEF Overflows
      <4>5. Filled(old, u, stack)
        BY <3>2, <4>3
      <4>6. StackOk(stack, u)
        BY <3>2
      <4>7. u < v
        BY <3>3
      <4>8. v <= Len(doc)
        BY <3>3
      <4>9. \A l \in (u + 1)..v : IsKind(l, "text")
        BY <3>3
      <4>10. doc \in Seq(DocLines)
        BY <2>0
      <4>11. stack \in Seq(LineNumbers)
        BY <3>2
      <4>12. Estimate(q) <= ChunkLimit
        BY <4>1
      <4> QED
        BY <3>6, <4>1, <4>2, <4>4, <4>5, <4>6, <4>7, <4>8, <4>9, <4>10, <4>11, <4>12, ParagraphIsTaken
    <3>8. next' = v + 1 /\ stack' = stack /\ chunks' = r.chunks /\ builder' = r.builder /\ doc' = doc
      <4>1. r = [out EXCEPT !.builder = Added(@, q, v)]
        BY <3>6, <3>7 DEF OutOf
      <4>2. Becomes(r) /\ next' = v + 1 /\ stack' = stack /\ doc' = doc
        BY <2>5, <3>3, <3>4, <3>5, <4>1 DEF TakesParagraph
      <4> QED
        BY <4>2 DEF Becomes
    <3>9. PICK path : path = stack
      OBVIOUS
    <3>10. v \in 0..Len(doc) /\ Filled(r, v, path) /\ StackOk(path, v) /\ stack' = path
      BY <3>3, <3>7, <3>8, <3>9
    <3> QED
      BY <2>0, <3>8, <3>10, ChunkInvStays
  <2>6. CASE SplitsParagraph
    <3>1. LineIs("text") /\ next \in 1..(Len(doc) + 1)
      BY <2>0, <2>6 DEF SplitsParagraph, LineIs
    <3>2. PICK u \in 0..Len(doc) : /\ u = next - 1 /\ Filled(Out, u, stack) /\ StackOk(stack, u)
                                   /\ stack \in Seq(LineNumbers)
      BY <2>1, <3>1
    <3>3. PICK v \in Nat : /\ v = ParagraphEnd /\ u < v /\ v <= Len(doc)
                           /\ (\A l \in (u + 1)..v : IsKind(l, "text")) /\ Paragraph = Run(u, v)
      BY <2>0, <3>1, <3>2, ParagraphIs
    <3>4. PICK q, out : q = Paragraph /\ out = Flushed(Out)
      OBVIOUS
    <3>5. PICK r : r = FoldLeft(WithPiece, out, Pieces(q))
      OBVIOUS
    <3>6. Filled(r, v, stack) /\ StackOk(stack, v)
      <4>1. Filled(out, u, stack) /\ u \in Nat
        BY <2>0, <3>2, <3>4, FlushedIs
      <4>2. Filled(FoldLeft(WithPiece, out, Pieces(q)), v, stack)
        BY <2>0, <3>2, <3>3, <3>4, <4>1, SplitIs
      <4>3. NoHeading(u, v) /\ u <= v
        BY <3>3 DEF NoHeading, IsKind
      <4>4. StackOk(stack, v)
        BY <3>2, <4>3, StackStays
      <4> QED
        BY <3>5, <4>2, <4>4
    <3>7. next' = v + 1 /\ stack' = stack /\ chunks' = r.chunks /\ builder' = r.builder /\ doc' = doc
      BY <2>6, <3>3, <3>4, <3>5 DEF SplitsParagraph, Becomes
    <3>8. PICK path : path = stack
      OBVIOUS
    <3>9. v \in 0..Len(doc) /\ Filled(r, v, path) /\ StackOk(path, v) /\ stack' = path
      BY <3>3, <3>6, <3>7, <3>8
    <3> QED
      BY <2>0, <3>7, <3>9, ChunkInvStays
  <2>7. CASE Finishes
    <3>1. next = Len(doc) + 1 /\ doc # <<>> /\ next' = next + 1 /\ doc' = doc
          /\ chunks' = Built(Out) /\ builder' = Reset(<<>>, 1) /\ next \in 1..(Len(doc) + 1)
      BY <2>0, <2>7 DEF Finishes
    <3>2. PICK u \in 0..Len(doc) : u = next - 1 /\ Filled(Out, u, stack)
      BY <2>1, <3>1
    <3>3. PICK s \in Nat, none \in Seq(LineNumbers) : s = 1 /\ none = <<>>
      <4>1. <<>> \in Seq(LineNumbers)
        OBVIOUS
      <4> QED
        BY <4>1
    <3>4. PICK r : r = [chunks |-> Built(Out), builder |-> Reset(none, s)]
      OBVIOUS
    <3>5. Filled(r, u, none) /\ r.builder.lines = <<>>
      <4>1. s <= u + 1 /\ u \in Nat
        BY <3>3
      <4> QED
        BY <2>0, <3>2, <3>4, <4>1, BuiltIs
    <3>6. Filled(r, u, none)'
      BY <3>1, <3>5, SameFilled
    <3>7. Out' = r /\ Len(doc)' = u /\ builder' = r.builder
      BY <2>0, <3>1, <3>2, <3>3, <3>4 DEF Out
    <3>8. Filled(Out, Len(doc), <<>>)'
      BY <3>3, <3>6, <3>7
    <3> QED
      BY <2>0, <3>1, <3>5, <3>7, <3>8 DEF ChunkInv
  <2>8. CASE UNCHANGED chunkVars
    <3>1. doc' = doc /\ next' = next /\ stack' = stack /\ chunks' = chunks /\ builder' = builder
      BY <2>8 DEF chunkVars
    <3>2. CASE next \in 1..(Len(doc) + 1)
      <4>1. PICK u \in 0..Len(doc) : u + 1 = next /\ Filled(Out, u, stack) /\ StackOk(stack, u)
        BY <2>1, <3>2
      <4>2. PICK out, path : out = Out /\ path = stack
        OBVIOUS
      <4>3. Filled(out, u, path) /\ StackOk(path, u) /\ next' = u + 1 /\ stack' = path
            /\ chunks' = out.chunks /\ builder' = out.builder
        BY <2>0, <3>1, <4>1, <4>2
      <4> QED
        BY <2>0, <3>1, <4>3, ChunkInvStays
    <3>3. CASE next = 0
      BY <1>2, <2>0, <3>1, <3>3 DEF ChunkInv
    <3>4. CASE next = Len(doc) + 2
      <4>1. CASE doc = <<>>
        BY <1>2, <2>0, <3>1, <3>4, <4>1 DEF ChunkInv
      <4>2. CASE doc # <<>>
        <5>1. PICK out, n, none : out = Out /\ n = Len(doc) /\ none = <<>>
          OBVIOUS
        <5>2. Filled(out, n, none) /\ builder.lines = <<>>
          BY <1>2, <3>4, <4>2, <5>1 DEF ChunkInv
        <5>3. Filled(out, n, none)'
          BY <3>1, <5>2, SameFilled
        <5>4. Out' = out /\ Len(doc)' = n
          BY <3>1, <5>1 DEF Out
        <5>5. Filled(Out, Len(doc), <<>>)'
          BY <5>1, <5>3, <5>4
        <5> QED
          BY <2>0, <3>1, <3>4, <5>2, <5>5 DEF ChunkInv
      <4> QED
        BY <4>1, <4>2
    <3> QED
      BY <2>0, <3>2, <3>3, <3>4
  <2> QED
    BY <1>2, <2>2, <2>3, <2>4, <2>5, <2>6, <2>7, <2>8 DEF ChunkerNext
<1>3. ChunkInv => ChunksAreTheDocument
  <2> SUFFICES ASSUME ChunkInv, Chunked PROVE ChunksAreTheDocument
    BY DEF ChunksAreTheDocument
  <2>1. Filled(Out, Len(doc), <<>>) /\ builder.lines = <<>> /\ Out.chunks = chunks /\ Out.builder = builder
    BY DEF Chunked, ChunkInv, Out
  <2>2. DOMAIN doc = 1..Len(doc)
    BY DEF ChunkInv
  <2>3. chunks \in Seq(ChunkOf) /\ DOMAIN chunks = 1..Len(chunks)
    BY <2>1 DEF Filled, OutOf
  <2>4. \A c \in DOMAIN chunks : LinesOf(c) = LinesIn(chunks[c].lines)
    BY DEF LinesOf, LinesIn
  <2>5. {l \in DOMAIN doc : ~IsKind(l, "blank")} = UNION {LinesOf(c) : c \in DOMAIN chunks}
    <3>1. LinesIn(builder.lines) = {}
      BY <2>1 DEF LinesIn
    <3>2. Covered(chunks, builder.lines) = Filling(Len(doc))
      BY <2>1 DEF Filled
    <3>3. UNION {LinesIn(chunks[c].lines) : c \in DOMAIN chunks} = {l \in DOMAIN doc : ~IsKind(l, "blank")}
      BY <2>2, <3>1, <3>2 DEF Covered, Filling
    <3> QED
      BY <2>4, <3>3
  <2>6. ASSUME NEW c \in DOMAIN chunks, NEW chunk, chunk = chunks[c],
               NEW own, own = LinesOf(c) \ RepeatedIn(c)
        PROVE  /\ \A i, j \in DOMAIN chunk.lines :
                    i < j /\ chunk.lines[i] # 0 /\ chunk.lines[j] # 0 => chunk.lines[i] < chunk.lines[j]
               /\ \A l \in own : l \in chunk.start..chunk.end
               /\ c > 1 => \A l \in own, k \in LinesOf(c - 1) : k < l
               /\ \A i \in DOMAIN chunk.lines \ {1} :
                    chunk.lines[i] # 0 => ~IsKind(chunk.lines[i], "heading")
               /\ \A l \in LinesOf(c) :
                    NoLevelSkipped(l) => {chunk.path[i] : i \in DOMAIN chunk.path} = Over(l)
               /\ \E k \in 0..Len(LinesBefore(c)) : AddsTo(chunk, LinesBefore(c), k)
    <3>1. PICK before, prev : before = BeforeChunk(chunks, c) /\ prev = LinesIn(before)
      OBVIOUS
    <3>2. WholeChunk(chunk, before)
      BY <2>1, <2>6, <3>1 DEF Filled, ChunksWhole
    <3>3. PICK q : q = chunk.lines /\ q \in Seq(LineNumbers)
      <4>1. chunk \in ChunkOf
        BY <2>3, <2>6
      <4>2. chunk.lines \in Seq(LineNumbers)
        BY <4>1 DEF ChunkOf
      <4> QED
        BY <4>2
    <3>4. LinesOf(c) = LinesIn(q)
      BY <2>4, <2>6, <3>3
    <3>5. RepeatedIn(c) = LinesIn(q) \cap prev /\ own = LinesIn(q) \ prev /\ (c > 1 => LinesOf(c - 1) = prev)
      <4>1. CASE c = 1
        BY <2>6, <3>1, <3>4, <4>1 DEF RepeatedIn, BeforeChunk, LinesIn
      <4>2. CASE c # 1
        <5>1. c - 1 \in DOMAIN chunks
          BY <2>3, <4>2
        <5>2. LinesOf(c - 1) = prev
          BY <2>4, <3>1, <4>2, <5>1 DEF BeforeChunk
        <5> QED
          BY <2>6, <3>4, <4>2, <5>2 DEF RepeatedIn
      <4> QED
        BY <4>1, <4>2
    <3>6. chunk.start \in Nat /\ chunk.end \in Nat /\ \A l \in LinesIn(q) : l \in Nat
      <4>1. chunk \in ChunkOf
        BY <2>3, <2>6
      <4> QED
        BY <3>3, <4>1 DEF ChunkOf, LinesIn, LineNumbers
    <3>7. \A i, j \in DOMAIN q : i < j /\ q[i] # 0 /\ q[j] # 0 => q[i] < q[j]
      BY <3>2, <3>3 DEF WholeChunk, Climbs
    <3>8. \A l \in own : l \in chunk.start..chunk.end
      <4>1. \A l \in own : chunk.start <= l /\ l <= chunk.end /\ l \in Nat
        BY <3>1, <3>2, <3>3, <3>5, <3>6 DEF WholeChunk, LiesIn
      <4> QED
        BY <3>6, <4>1
    <3>9. c > 1 => \A l \in own, k \in LinesOf(c - 1) : k < l
      BY <3>1, <3>2, <3>3, <3>5 DEF WholeChunk, LiesBehind
    <3>10. \A i \in DOMAIN q \ {1} : q[i] # 0 => ~IsKind(q[i], "heading")
      BY <3>2, <3>3 DEF WholeChunk, OneHeading
    <3>11. \A l \in LinesOf(c) : NoLevelSkipped(l) => {chunk.path[i] : i \in DOMAIN chunk.path} = Over(l)
      BY <3>2, <3>3, <3>4 DEF WholeChunk, IsUnder, PathOk
    <3>12. \E k \in 0..Len(LinesBefore(c)) : AddsTo(chunk, LinesBefore(c), k)
      BY <3>1, <3>2 DEF WholeChunk, Fits, LinesBefore, BeforeChunk
    <3> QED
      BY <3>3, <3>7, <3>8, <3>9, <3>10, <3>11, <3>12
  <2> QED
    BY <2>5, <2>6 DEF ChunksAreTheDocument
<1> QED
  BY <1>1, <1>2, <1>3, PTL DEF ChunkerSpec
=============================================================================
