---------------------------- MODULE CuratorQueue ---------------------------
(* The queue of curator/loop.py: threads which hand over sessions, a worker   *)
(* thread that reviews them and stores a report of each, and the event on     *)
(* which wait_idle waits.                                                     *)
EXTENDS Naturals, Sequences, FiniteSets

CONSTANTS
  Callers,       \* threads with the queue
  MaxSessions,   \* bound of the sessions handed over
  MaxWorkers     \* bound of the worker threads ever started

ASSUME CuratorAssumption == MaxSessions \in Nat /\ MaxWorkers \in Nat

VARIABLES
  waiting,      \* the queue: sessions, by number, and the sentinel
  processed,    \* _processed_event
  thread,       \* _thread: the number of a worker, 0 for None
  workers,      \* what each worker is at
  callers,      \* what each caller is at
  accepted,     \* number of sessions for which enqueue was called
  reports,      \* rows of curator_reports
  lost,         \* history: sessions whose two reports both failed
  hasty         \* history: the event was set with an enqueue half-way or another
                \* worker busy, or for a sentinel with sessions behind it

curatorVars == <<waiting, processed, thread, workers, callers, accepted, reports,
                 lost, hasty>>

Sentinel == 0
Sessions == 1..MaxSessions
Reviewers == 1..MaxWorkers
Unborn == [pc |-> "unborn"]
Dead == [pc |-> "dead"]
Waits == [pc |-> "waits"]
Alive(w) == workers[w] \notin {Unborn, Dead}
At(w, x) == workers' = [workers EXCEPT ![w] = x]
CallerAt(c, x) == callers' = [callers EXCEPT ![c] = x]
Free == [pc |-> "free"]

(* The event is set whatever the queue holds (mutant).                        *)
FinishedAnyway == TRUE

(* The worker is done when the queue is empty.                                *)
Finished == waiting = <<>>

-----------------------------------------------------------------------------

(* enqueue clears the event under the lock, and puts the session behind it.   *)
ClearEvent(c) ==
  /\ callers[c] = Free /\ accepted < MaxSessions
  /\ accepted' = accepted + 1
  /\ processed' = FALSE
  /\ CallerAt(c, [pc |-> "put", session |-> accepted + 1])
  /\ UNCHANGED <<waiting, thread, workers, reports, lost, hasty>>

PutSession(c) ==
  /\ callers[c].pc = "put"
  /\ waiting' = Append(waiting, callers[c].session)
  /\ CallerAt(c, Free)
  /\ UNCHANGED <<processed, thread, workers, accepted, reports, lost, hasty>>

(* A worker that is alive is kept.                                            *)
StartWorker(c) ==
  /\ callers[c] = Free
  /\ thread # 0 => ~Alive(thread)
  /\ \E w \in Reviewers :
       /\ workers[w] = Unborn /\ \A v \in 1..(w - 1) : workers[v] # Unborn
       /\ At(w, Waits)
       /\ thread' = w
  /\ UNCHANGED <<waiting, processed, callers, accepted, reports, lost, hasty>>

StopWorker(c) ==
  /\ callers[c] = Free /\ thread # 0
  /\ waiting' = Append(waiting, Sentinel)
  /\ CallerAt(c, [pc |-> "join"])
  /\ UNCHANGED <<processed, thread, workers, accepted, reports, lost, hasty>>

(* join() returns when the worker ends, or after its time-out.                *)
Joined(c) ==
  /\ callers[c].pc = "join"
  /\ thread' = 0
  /\ CallerAt(c, Free)
  /\ UNCHANGED <<waiting, processed, workers, accepted, reports, lost, hasty>>

(* An enqueue is half-way, or a worker that was stopped without success is    *)
(* still at a session.                                                        *)
HalfWay(w) ==
  \/ \E c \in Callers : callers[c].pc = "put"
  \/ \E v \in Reviewers \ {w} : Alive(v) /\ workers[v].pc \in {"review", "failed"}

Take(w) ==
  /\ workers[w] = Waits /\ waiting # <<>>
  /\ waiting' = Tail(waiting)
  /\ At(w, [pc |-> IF Head(waiting) = Sentinel THEN "stop" ELSE "review",
            session |-> Head(waiting)])
  /\ UNCHANGED <<processed, thread, callers, accepted, reports, lost, hasty>>

SentinelTaken(w) ==
  /\ workers[w].pc = "stop"
  /\ processed' = TRUE
  /\ hasty' = (hasty \/ waiting # <<>> \/ HalfWay(w))
  /\ At(w, Dead)
  /\ UNCHANGED <<waiting, thread, callers, accepted, reports, lost>>

(* A failing model still gives a report. When the factory or the store fails, *)
(* a report of the failure is stored instead.                                 *)
Review(w) ==
  /\ workers[w].pc \in {"review", "failed"}
  /\ \/ /\ reports' = Append(reports, workers[w].session)
        /\ At(w, [workers[w] EXCEPT !.pc = "finally"])
        /\ UNCHANGED lost
     \/ /\ workers[w].pc = "review"
        /\ At(w, [workers[w] EXCEPT !.pc = "failed"])
        /\ UNCHANGED <<reports, lost>>
     \/ /\ workers[w].pc = "failed"
        /\ lost' = lost \cup {workers[w].session}
        /\ At(w, [workers[w] EXCEPT !.pc = "raising"])
        /\ UNCHANGED reports
  /\ UNCHANGED <<waiting, processed, thread, callers, accepted, hasty>>

(* The finally clause; an exception out of the except clause ends the thread. *)
FinishReview(w) ==
  /\ workers[w].pc \in {"finally", "raising"}
  /\ processed' = (processed \/ Finished)
  /\ hasty' = (hasty \/ (Finished /\ HalfWay(w)))
  /\ At(w, IF workers[w].pc = "raising" THEN Dead ELSE Waits)
  /\ UNCHANGED <<waiting, thread, callers, accepted, reports, lost>>

CuratorInit ==
  /\ waiting = <<>> /\ processed = TRUE /\ thread = 0
  /\ workers = [w \in Reviewers |-> Unborn]
  /\ callers = [c \in Callers |-> Free]
  /\ accepted = 0 /\ reports = <<>> /\ lost = {} /\ hasty = FALSE

CuratorNext ==
  \/ \E c \in Callers :
       \/ ClearEvent(c) \/ PutSession(c)
       \/ StartWorker(c) \/ StopWorker(c) \/ Joined(c)
  \/ \E w \in Reviewers :
       Take(w) \/ SentinelTaken(w) \/ Review(w) \/ FinishReview(w)

CuratorSpec == CuratorInit /\ [][CuratorNext]_curatorVars

-----------------------------------------------------------------------------

CuratorTypes ==
  /\ \A i \in DOMAIN waiting : waiting[i] \in Sessions \cup {Sentinel}
  /\ \A i \in DOMAIN reports : reports[i] \in 1..accepted
  /\ thread \in 0..MaxWorkers /\ accepted \in 0..MaxSessions
  /\ lost \in SUBSET Sessions
  /\ processed \in BOOLEAN /\ hasty \in BOOLEAN

Reported == {reports[i] : i \in DOMAIN reports}
(* A session has one report, whatever fails and however many workers there    *)
(* are; and when the event is set every accepted session has it, except for   *)
(* one that could not be stored, and where enqueue or stop came in between.   *)
ReviewedOnceWhenIdle ==
  /\ \A i, j \in DOMAIN reports : reports[i] = reports[j] => i = j
  /\ processed /\ ~hasty => 1..accepted \subseteq Reported \cup lost
=============================================================================
