------------------------------ MODULE AgentTurn ------------------------------
(***************************************************************************)
(* One agent process and its persistent session: run_turn                  *)
(* (sera/agent/loop.py) with the shared IterationBudget and its grace call *)
(* (agent/budget.py), the InterruptToken of the turn (agent/interrupt.py), *)
(* subagents run by delegate_task (tools/delegate.py), the REPL that drives*)
(* turns (cli/main.py), the session rows and the crash-recovery scan       *)
(* (memory/session.py).                                                    *)
(*                                                                         *)
(* A turn is a stack of frames: frame 1 is the user's run_turn, frame d+1  *)
(* the run_turn that a delegate_task call of frame d is waiting for.  Only *)
(* the top frame moves: every await of the code waits for the step below.  *)
(* Rows keep what the provider's protocol and the scan can tell apart: the *)
(* role, how many tool calls an assistant row carries and which call a     *)
(* tool row answers.                                                       *)
(***************************************************************************)
EXTENDS Integers, Sequences, FiniteSets

CONSTANTS Total,     \* iterations of one turn, parent and subagents together
          MaxCalls,  \* bound: tool calls of one assistant row
          MaxTurns,  \* bound: turns the user starts
          Msgs,      \* the texts a user sends
          UseCache   \* run_turn is given a DistillCache

ASSUME TotalAssumption == Total \in Nat \ {0}   \* IterationBudget.of
ASSUME BoundsAssumption == MaxCalls \in Nat /\ MaxTurns \in Nat
ASSUME CacheAssumption == UseCache \in BOOLEAN

VARIABLES
  depth,       \* frames on the stack, 0 between turns
  pc,          \* pc[d]: where frame d is in run_turn
  mode,        \* mode[d]: "grace" when frame d's grace_mode is set
  todo,        \* todo[d]: tool calls frame d has still to answer
  final,       \* final[d]: frame d's final_text
  session,     \* session[d]: the rows of frame d's session
  remaining,   \* IterationBudget.remaining
  graceBy,     \* 0, or the frame that took the grace: grace_used is graceBy # 0
  token,       \* the turn's InterruptToken
  msg,         \* the user message of the turn
  key,         \* _distill_key_val of the turn
  cache,       \* the distillation cache: pairs <<key, answer>>
  status,      \* sessions.last_status of the root session
  process,     \* the agent process is up or down
  turns,       \* turns started
  \* History variables: they record, no action reads them.
  base,        \* rows the root session had when the turn started
  lastTurn,    \* how the last turn ended
  answer,      \* what the last turn that returned gave the user
  killedAt,    \* where the root frame was when the process was killed
  asked,       \* requests of the turn to its model (llm.stream), answers and
               \* summaries of compaction, all frames together
  lateRuns     \* tools the root started after the interrupt

frameVars == <<depth, pc, mode, todo, final, session>>
budgetVars == <<remaining, graceBy, asked>>
interruptVars == <<token, lateRuns>>
cacheVars == <<msg, key, cache>>
processVars == <<status, process, turns, base, killedAt>>
endVars == <<lastTurn, answer>>
vars == <<frameVars, budgetVars, interruptVars, cacheVars, processVars, endVars>>

-----------------------------------------------------------------------------
(* Data. *)

\* One frame more than DelegationDepth allows, so that the bound says something.
Frames == 1 .. Total + 2

\* A call needs no approval, or needs it, or is delegate_task.
Kinds == {"plain", "danger", "delegate"}
CallSeqs == UNION {[1..n -> Kinds] : n \in 0..MaxCalls}

\* Texts: nothing yet, an answer of the model, "[max iterations reached]".
Texts == {"none", "text", "sentinel"}
Labels == {"idle", "begin", "iterate", "gate", "compact", "stream", "recompact",
           "retry", "tools", "await", "finish"}

\* Labels of a frame that waits for its model: for the summary of its history,
\* for its answer, and for either once more after an overflow.
Waiting == {"compact", "stream", "recompact", "retry"}
Endings == {"none", "running", "returned", "cached", "interrupted", "blocked",
            "failed", "killed"}

\* A row; of and nth name the call a tool row answers: the nth of row `of`.
Row == [role : {"user", "assistant", "tool"}, calls : 0..MaxCalls, of : Nat, nth : Nat]
UserRow == [role |-> "user", calls |-> 0, of |-> 0, nth |-> 0]
AssistantRow(n) == [role |-> "assistant", calls |-> n, of |-> 0, nth |-> 0]
ToolRow(call) == [role |-> "tool", calls |-> 0, of |-> call.of, nth |-> call.nth]

Call == [of : Nat, nth : Nat, kind : Kinds]
\* The calls c of an assistant row stored as row i.
CallsOf(i, c) == [k \in 1..Len(c) |-> [of |-> i, nth |-> k, kind |-> c[k]]]

\* compute_key: the message and the tool results the session holds so far.
\* Rows are only appended, so in one session their number stands for them.
Key(m) == <<m, Cardinality({i \in DOMAIN session[1] : session[1][i].role = "tool"})>>

-----------------------------------------------------------------------------
(* Steps several handlers share. *)

\* run_turn of the root frame is left, by return or by exception.  The
\* subagents' temporary sessions are deleted with it.
EndTurn(how, rows) ==
  /\ depth' = 0
  /\ pc' = [d \in Frames |-> "idle"]
  /\ mode' = [d \in Frames |-> "normal"]
  /\ todo' = [d \in Frames |-> <<>>]
  /\ final' = [d \in Frames |-> "none"]
  /\ session' = [d \in Frames |-> IF d = 1 THEN rows ELSE <<>>]
  /\ lastTurn' = how

\* (mutants) a denied call gets no row; results are filed under the last call.
WithResultUnlessDenied(d) ==
  IF Head(todo[d]).kind = "danger" THEN session[d]
  ELSE Append(session[d], ToolRow(Head(todo[d])))

\* The result of frame d's first pending call, with the frame above it, if
\* any, popped.
WithResult(d) == Append(session[d], ToolRow(Head(todo[d])))
TakeResult(d) ==
  /\ depth' = d
  /\ pc' = [pc EXCEPT ![d] = IF Tail(todo[d]) = <<>> THEN "iterate" ELSE "tools",
                      ![d + 1] = "idle"]
  /\ mode' = [mode EXCEPT ![d + 1] = "normal"]
  /\ todo' = [todo EXCEPT ![d] = Tail(@), ![d + 1] = <<>>]
  /\ final' = [final EXCEPT ![d + 1] = "none"]
  /\ session' = [session EXCEPT ![d] = WithResult(d), ![d + 1] = <<>>]
  /\ UNCHANGED endVars

\* interrupt.check() of frame d raises: only the root's token can ever be set,
\* a subagent gets a fresh one.
Cancelled(d) == d = 1 /\ token = "set"

\* (mutant) the token is not checked after a result.
RecordResultOnly(d) ==
  /\ TakeResult(d)

\* The row of an executed tool is appended, then the token is checked.
RecordResult(d) ==
  /\ \/ /\ Cancelled(d)
        /\ EndTurn("interrupted", WithResult(1))
        /\ UNCHANGED answer
     \/ /\ ~Cancelled(d)
        /\ TakeResult(d)

\* An exception of run_turn: it reaches the REPL, or the dispatcher turns it
\* into an error result of the parent's delegate_task call.
Raise(how) ==
  \/ /\ depth = 1
     /\ EndTurn(how, session[1])
     /\ UNCHANGED answer
  \/ /\ depth > 1
     /\ RecordResult(depth - 1)

-----------------------------------------------------------------------------
(* The agent loop. Every action is about the top frame d = depth. *)

\* run_turn up to the loop: the user row, then the cache, which only the root
\* frame has. A hit returns at once.
CacheHits == {e \in cache : UseCache /\ e[1] = Key(msg)}
Begin ==
  /\ depth > 0 /\ pc[depth] = "begin"
  /\ LET rows == Append(session[depth], UserRow) IN
     \/ /\ depth = 1
        /\ \E e \in CacheHits : answer' = e[2]
        /\ EndTurn("cached", rows)
        /\ UNCHANGED key
     \/ /\ depth > 1 \/ CacheHits = {}
        /\ session' = [session EXCEPT ![depth] = rows]
        /\ pc' = [pc EXCEPT ![depth] = "iterate"]
        /\ key' = IF depth = 1 THEN Key(msg) ELSE key
        /\ UNCHANGED <<depth, mode, todo, final, endVars>>
  /\ UNCHANGED <<budgetVars, interruptVars, msg, cache, processVars>>

\* interrupt.check() at the head of the loop raises.
Interrupted ==
  /\ pc[1] = "iterate" /\ Cancelled(depth)
  /\ EndTurn("interrupted", session[1])
  /\ UNCHANGED <<answer, budgetVars, interruptVars, cacheVars, processVars>>

AtLoopHead == depth > 0 /\ pc[depth] = "iterate" /\ ~Cancelled(depth)

\* consume() succeeds.
CanConsume == remaining > 0

\* can_request_grace(). (mutant) grace_used is ignored.
CanRequestGraceAgain == remaining = 0
CanRequestGrace == remaining = 0 /\ graceBy = 0

\* budget.consume() with iterations left.
Consume ==
  /\ AtLoopHead /\ CanConsume
  /\ remaining' = remaining - 1
  /\ pc' = [pc EXCEPT ![depth] = "gate"]
  /\ UNCHANGED <<depth, mode, todo, final, session, graceBy, asked>>
  /\ UNCHANGED <<interruptVars, cacheVars, processVars, endVars>>

\* MaxIterations with the grace unspent: refund one iteration, consume it,
\* tell the model.
TakeGrace ==
  /\ AtLoopHead /\ ~CanConsume /\ CanRequestGrace
  /\ graceBy' = depth
  /\ mode' = [mode EXCEPT ![depth] = "grace"]
  /\ session' = [session EXCEPT ![depth] = Append(@, UserRow)]
  /\ pc' = [pc EXCEPT ![depth] = "gate"]
  /\ UNCHANGED <<depth, todo, final, remaining, asked>>
  /\ UNCHANGED <<interruptVars, cacheVars, processVars, endVars>>

\* MaxIterations with the grace spent.
Exhausted ==
  /\ AtLoopHead /\ ~CanConsume /\ ~CanRequestGrace
  /\ final' = [final EXCEPT ![depth] = IF @ = "none" THEN "sentinel" ELSE @]
  /\ pc' = [pc EXCEPT ![depth] = "finish"]
  /\ UNCHANGED <<depth, mode, todo, session>>
  /\ UNCHANGED <<budgetVars, interruptVars, cacheVars, processVars, endVars>>

\* llm.stream is called, and the frame waits at `label` for what comes.
Request(label) ==
  /\ asked' = asked + 1
  /\ pc' = [pc EXCEPT ![depth] = label]
  /\ UNCHANGED <<depth, mode, todo, final, session, remaining, graceBy>>
  /\ UNCHANGED <<interruptVars, cacheVars, processVars, endVars>>

\* The cost check passes. A history too long for the view is compacted first,
\* which asks the model for a summary of its middle (_build_view). A subagent
\* has no enforcer; the root's may block.
CostAllows ==
  /\ depth > 0 /\ pc[depth] = "gate"
  /\ Request("compact") \/ Request("stream")

CostBlocks ==
  /\ depth = 1 /\ pc[1] = "gate"
  /\ EndTurn("blocked", session[1])
  /\ UNCHANGED <<answer, budgetVars, interruptVars, cacheVars, processVars>>

\* The summary is there: the answer is asked for.
Summarised ==
  /\ depth > 0
  /\ \/ pc[depth] = "compact" /\ Request("stream")
     \/ pc[depth] = "recompact" /\ Request("retry")

\* (mutant) an overflow of the second answer is tried again too.
MayRetryAgain == pc[depth] \in {"stream", "retry"}
MayRetry == pc[depth] = "stream"

\* ContextOverflow, the first time: compact harder and ask again.
Overflow ==
  /\ depth > 0 /\ MayRetry
  /\ Request("recompact") \/ Request("retry")

\* The provider fails, overflows again, or overflows at a summary, which is
\* asked for outside the try.
StreamFails ==
  /\ depth > 0 /\ pc[depth] \in Waiting
  /\ Raise("failed")
  /\ UNCHANGED <<budgetVars, token, lateRuns, cacheVars, processVars>>

\* The loop ends with this reply. (mutant) no break after the grace reply.
EndsLoopOnlyWithoutCalls(c) == c = <<>>
EndsLoop(c) == c = <<>> \/ mode[depth] = "grace"

\* The reply is complete: its row is stored, and the loop goes on to the tool
\* calls unless there are none or this is the grace call.
Reply(c, text) ==
  /\ depth > 0 /\ pc[depth] \in {"stream", "retry"}
  /\ session' = [session EXCEPT ![depth] = Append(@, AssistantRow(Len(c)))]
  /\ final' = [final EXCEPT ![depth] = IF text = "none" THEN @ ELSE text]
  /\ \/ /\ EndsLoop(c)
        /\ pc' = [pc EXCEPT ![depth] = "finish"]
        /\ UNCHANGED todo
     \/ /\ ~EndsLoop(c)
        /\ pc' = [pc EXCEPT ![depth] = "tools"]
        /\ todo' = [todo EXCEPT ![depth] = CallsOf(Len(session[depth]) + 1, c)]
  /\ UNCHANGED <<depth, mode>>
  /\ UNCHANGED <<budgetVars, interruptVars, cacheVars, processVars, endVars>>

AtCall(kinds) ==
  depth > 0 /\ pc[depth] = "tools" /\ Head(todo[depth]).kind \in kinds

\* The approval gate refuses: the denial is recorded and the loop continues
\* with the next call, without checking the token.
Deny ==
  /\ AtCall({"danger"})
  /\ TakeResult(depth)
  /\ UNCHANGED <<budgetVars, token, lateRuns, cacheVars, processVars>>

\* The prompt itself fails (end of file on stdin raises EOFError) and the
\* exception leaves run_turn with the call unanswered.
ApprovalFails ==
  /\ depth = 1 /\ AtCall({"danger"})
  /\ EndTurn("failed", session[1])
  /\ UNCHANGED <<answer, budgetVars, interruptVars, cacheVars, processVars>>

\* A tool runs to its end. The gate of a subagent refuses every dangerous call.
RunTool ==
  /\ AtCall({"plain"}) \/ (depth = 1 /\ AtCall({"danger"}))
  /\ RecordResult(depth)
  /\ lateRuns' = IF Cancelled(depth) THEN lateRuns + 1 ELSE lateRuns
  /\ UNCHANGED <<budgetVars, token, cacheVars, processVars>>

\* delegate_task: a frame with an empty session of its own, the same budget.
Delegate ==
  /\ AtCall({"delegate"})
  /\ depth' = depth + 1
  /\ pc' = [pc EXCEPT ![depth] = "await", ![depth + 1] = "begin"]
  /\ lateRuns' = IF Cancelled(depth) THEN lateRuns + 1 ELSE lateRuns
  /\ UNCHANGED <<mode, todo, final, session, token>>
  /\ UNCHANGED <<budgetVars, cacheVars, processVars, endVars>>

\* The loop is over. The root stores its answer in the cache and returns it to
\* the user, a subagent's becomes the result of the call it was made by.
FinishTurn ==
  /\ depth = 1 /\ pc[1] = "finish"
  /\ cache' = IF UseCache /\ final[1] # "none"
              THEN {e \in cache : e[1] # key} \cup {<<key, final[1]>>}
              ELSE cache
  /\ answer' = final[1]
  /\ EndTurn("returned", session[1])
  /\ UNCHANGED <<budgetVars, interruptVars, msg, key, processVars>>

FinishSubagent ==
  /\ depth > 1 /\ pc[depth] = "finish"
  /\ RecordResult(depth - 1)
  /\ UNCHANGED <<budgetVars, token, lateRuns, cacheVars, processVars>>

AgentStep ==
  \/ Begin \/ Interrupted \/ Consume \/ TakeGrace \/ Exhausted
  \/ CostAllows \/ CostBlocks \/ Summarised \/ Overflow \/ StreamFails
  \/ \E c \in CallSeqs, text \in {"none", "text"} : Reply(c, text)
  \/ Deny \/ ApprovalFails \/ RunTool \/ Delegate \/ FinishTurn \/ FinishSubagent

-----------------------------------------------------------------------------
(* The user, the process and other processes. *)

\* The REPL reads a message: a fresh budget and a fresh token for the turn.
StartTurn(m) ==
  /\ process = "up" /\ depth = 0 /\ turns < MaxTurns
  /\ turns' = turns + 1
  /\ msg' = m
  /\ base' = Len(session[1])
  /\ depth' = 1
  /\ pc' = [pc EXCEPT ![1] = "begin"]
  /\ remaining' = Total /\ graceBy' = 0 /\ asked' = 0
  /\ token' = "clear" /\ lateRuns' = 0
  /\ lastTurn' = "running"
  /\ UNCHANGED <<mode, todo, final, session, key, cache, status, process, killedAt, answer>>

\* The first Ctrl+C.
CtrlC ==
  /\ depth > 0 /\ token = "clear"
  /\ token' = "set"
  /\ UNCHANGED <<frameVars, budgetVars, lateRuns, cacheVars, processVars, endVars>>

\* kill -9, or the KeyboardInterrupt of a second Ctrl+C, which the dispatcher
\* does not catch and which leaves the REPL: the committed rows stay.
Crash ==
  /\ process = "up" /\ depth > 0
  /\ process' = "down"
  /\ killedAt' = pc[1]
  /\ EndTurn("killed", session[1])
  /\ UNCHANGED <<budgetVars, interruptVars, cacheVars, status, turns, base, answer>>

\* (mutant) the scan looks for the wrong role.
ScannedForTool ==
  IF /\ status = "active"
     /\ session[1] # <<>>
     /\ session[1][Len(session[1])].role = "tool"
  THEN "aborted" ELSE status

\* _recover_aborted. Every assistant row the loop writes has a finish_reason,
\* so only a last row of the user is dangling.
Scanned ==
  IF /\ status = "active"
     /\ session[1] # <<>>
     /\ session[1][Len(session[1])].role = "user"
  THEN "aborted" ELSE status

\* A new process opens the database, which runs the scan, and resumes.
Restart ==
  /\ process = "down"
  /\ process' = "up"
  /\ status' = Scanned
  /\ UNCHANGED <<frameVars, budgetVars, interruptVars, cacheVars, turns, base, killedAt, endVars>>

\* `sera sessions` in another process runs the scan on the same database.
OtherScan ==
  /\ status' = Scanned
  /\ UNCHANGED <<frameVars, budgetVars, interruptVars, cacheVars>>
  /\ UNCHANGED <<process, turns, base, killedAt, endVars>>

\* An entry of the cache outlives its ttl, or evict() drops it.
CacheExpires ==
  /\ \E e \in cache : cache' = cache \ {e}
  /\ UNCHANGED <<frameVars, budgetVars, interruptVars, msg, key, processVars, endVars>>

-----------------------------------------------------------------------------
NoFrames ==
  /\ depth = 0
  /\ pc = [d \in Frames |-> "idle"]
  /\ mode = [d \in Frames |-> "normal"]
  /\ todo = [d \in Frames |-> <<>>]
  /\ final = [d \in Frames |-> "none"]
  /\ session = [d \in Frames |-> <<>>]

NoTurn ==
  /\ remaining = Total /\ graceBy = 0 /\ asked = 0
  /\ token = "clear" /\ lateRuns = 0
  /\ msg \in Msgs /\ key = <<msg, 0>> /\ cache = {}
  /\ lastTurn = "none" /\ answer = "none"

NewProcess ==
  status = "active" /\ process = "up" /\ turns = 0 /\ base = 0 /\ killedAt = "idle"

Init == NoFrames /\ NoTurn /\ NewProcess

Next ==
  \/ AgentStep
  \/ \E m \in Msgs : StartTurn(m)
  \/ CtrlC \/ Crash \/ Restart \/ OtherScan \/ CacheExpires

Spec == Init /\ [][Next]_vars

\* The event loop runs the agent: the model answers or fails, tools and
\* approval prompts end. Users and crashes are not obliged to anything.
FairSpec == Spec /\ WF_vars(AgentStep)

-----------------------------------------------------------------------------
(* Properties. *)

FrameTypes ==
  /\ depth \in 0 .. Total + 2
  /\ pc \in [Frames -> Labels]
  /\ mode \in [Frames -> {"normal", "grace"}]
  /\ todo \in [Frames -> Seq(Call)]
  /\ final \in [Frames -> Texts]
  /\ session \in [Frames -> Seq(Row)]

TurnTypes ==
  /\ remaining \in 0..Total /\ graceBy \in 0 .. Total + 2 /\ asked \in Nat
  /\ token \in {"clear", "set"} /\ lateRuns \in Nat
  /\ msg \in Msgs /\ key \in Msgs \X Nat
  /\ cache \subseteq (Msgs \X Nat) \X Texts
  /\ lastTurn \in Endings /\ answer \in Texts

ProcessTypes ==
  /\ status \in {"active", "aborted"} /\ process \in {"up", "down"}
  /\ turns \in 0..MaxTurns /\ base \in Nat /\ killedAt \in Labels

\* Every variable stays in its type.
TypeOK == FrameTypes /\ TurnTypes /\ ProcessTypes

\* Iterations the turn has consumed, the grace call among them.
Iterations == Total - remaining + (IF graceBy = 0 THEN 0 ELSE 1)

\* What one iteration may ask its model: an answer, a summary to fit the history
\* in, and each of them once more after an overflow.
PerIteration == 4

\* The budget caps a turn together with every subagent it starts, at any depth:
\* it has Total iterations and one grace (IterationBudget), and no request to
\* the model is made that one of them does not pay for, retries after an
\* overflow and summaries included. What tools ask of other models (the
\* council's: CouncilVote) is not of the budget.
RequestCap == Iterations <= Total + 1 /\ asked <= PerIteration * Iterations

\* Recursive delegation is bounded by the budget alone: a frame that starts a
\* subagent has spent an iteration (tools/delegate.py: "preventing runaway
\* recursive delegation").
DelegationDepth == depth <= Total + 1

\* The grace iteration is the last one of a turn, whoever takes it: its
\* frame starts no tool and no subagent, and no iteration is left for the
\* frames below it.
GraceIsLast ==
  \A d \in Frames : mode[d] = "grace" => d = depth /\ remaining = 0 /\ todo[d] = <<>>

\* The rows a provider accepts: every tool row directly follows the assistant
\* row whose calls it answers or the result before its own, in order, and
\* answers a call that was made. Holds across aborted turns and restarts.
ResultsAnswerCalls ==
  \A d \in Frames : \A i \in DOMAIN session[d] :
    LET row == session[d][i] IN
    row.role = "tool" =>
      /\ row.of \in 1 .. i - 1 /\ row.nth = i - row.of
      /\ session[d][row.of].role = "assistant"
      /\ row.nth <= session[d][row.of].calls

\* The calls of root row i have all their results.
Answered(i) ==
  LET n == session[1][i].calls IN
  n > 0 => /\ i + n <= Len(session[1])
           /\ \A k \in 1..n : session[1][i + k].role = "tool" /\ session[1][i + k].of = i
TurnRows == {i \in DOMAIN session[1] : i > base}

\* A turn that returned answered every tool call it stored, unless the root
\* itself spent the grace call (the grace of a subagent does not disturb it).
ReturnedTurnsAnswerCalls ==
  lastTurn = "returned" /\ graceBy # 1 => \A i \in TurnRows : Answered(i)

\* What is stored is a history that a provider accepts: every result answers a
\* call in order, and what a finished turn called is answered, across denials,
\* exceptions, subagents, grace calls, aborted turns and restarts.
StoredHistoryIsAccepted == ResultsAnswerCalls /\ ReturnedTurnsAnswerCalls

\* After Ctrl+C the turn's own loop starts at most one more tool.
OneLateTool == lateRuns <= 1

\* What bounds a turn, however deep it delegates and whenever it is stopped:
\* its iterations and the requests they pay for, what follows the grace call,
\* the tools after Ctrl+C.
TurnIsBounded == RequestCap /\ GraceIsLast /\ OneLateTool

\* A turn killed before the model's first reply is flagged once a process has
\* come back, whatever stood in the session before and wherever the kill fell.
KilledUnansweredIsFlagged ==
  /\ process = "up" /\ lastTurn = "killed"
  /\ TurnRows # {} /\ \A i \in TurnRows : session[1][i].role = "user"
  => status = "aborted"

\* Through crashes, restarts and the scans of other processes, the history is
\* one a provider accepts and a turn without a reply does not go unnoticed.
StoredHistoryIsSound == StoredHistoryIsAccepted /\ KilledUnansweredIsFlagged

\* session.py: "turns a kill -9 mid-tool into a recovered session with a
\* visible abort flag".
KillMidToolIsFlagged ==
  process = "up" /\ lastTurn = "killed" /\ killedAt \in {"tools", "await"} => status = "aborted"

\* The abstract promise, with the history variable of requests as witness.
RequestLimit == PerIteration * (Total + 1)
Contract == INSTANCE BoundedTurn WITH
  Limit <- RequestLimit,
  phase <- IF depth > 0 THEN "running" ELSE "idle",
  left <- RequestLimit - asked

\* A turn makes at most RequestLimit requests to its model, one at a time, and
\* ends: whatever the model answers, run_turn reaches its end once its steps
\* are scheduled.
KeepsContract == Contract!Spec
=============================================================================
