--------------------------- MODULE AgentTurnProofs ---------------------------
(***************************************************************************)
(* What holds of AgentTurn for every budget, every bound and every set of  *)
(* messages: type correctness, the cap on the requests to the model, the   *)
(* bound on delegation, the finality of the grace call, the late-tool bound and the *)
(* soundness of the history that is stored.  And what holds of the council *)
(* a turn may ask, for every list of models, number of labels and          *)
(* threshold: its verdict is the one its rankings call for.                *)
(***************************************************************************)
EXTENDS AgentTurn, CouncilVote, FiniteSetTheorems, WellFoundedInduction, TLAPS

\* Iterations the frames have consumed, the grace call not counted.
Spent == IF graceBy = 0 THEN Total - remaining ELSE Total

\* The shape of the stack: the frames below the top wait for a subagent, the
\* frames above it do not exist, and only a frame at its tools has calls left.
Frame(d) ==
  /\ d < depth => pc[d] = "await" /\ mode[d] = "normal" /\ todo[d] # <<>>
  /\ d = depth => /\ pc[d] \notin {"idle", "await"}
                  /\ todo[d] # <<>> <=> pc[d] = "tools"
                  /\ mode[d] = "grace" => pc[d] \in {"gate", "compact", "stream", "recompact",
                                                 "retry", "finish"}
  /\ d > depth => pc[d] = "idle" /\ mode[d] = "normal" /\ todo[d] = <<>>
Stack == \A d \in Frames : Frame(d)

\* What the iteration of a frame at label l may still ask its model.
DueAt(l) == IF l = "gate" THEN 4
            ELSE IF l = "compact" THEN 3
            ELSE IF l = "stream" THEN 2
            ELSE IF l = "recompact" THEN 1
            ELSE 0
Due == IF depth = 0 THEN 0 ELSE DueAt(pc[depth])

\* The iterations consumed have paid for what was asked, and for what the top
\* frame's iteration may still ask.
PaidFor == asked + Due <= PerIteration * Iterations

\* The books of the budget.
Books ==
  /\ graceBy # 0 => remaining = 0
  /\ PaidFor
  /\ \A d \in Frames : mode[d] = "grace" => graceBy # 0

\* A frame is only there because every frame below it has paid an iteration;
\* one that has paid its own may add another.
Paid ==
  /\ depth <= Spent + 1
  /\ depth > 0 /\ mode[depth] = "normal"
       /\ pc[depth] \in {"gate", "compact", "stream", "recompact", "retry", "tools"}
       => depth <= Spent

\* Once a tool started late, the root waits for it and will see the token.
Late ==
  /\ lateRuns <= 1
  /\ lateRuns > 0 /\ depth > 0 => token = "set" /\ pc[1] = "await"

IInv == TypeOK /\ Stack /\ Books /\ Paid /\ Late

-----------------------------------------------------------------------------
LEMMA FramesFact == Frames \subseteq Nat \ {0} /\ 1 \in Frames
  BY TotalAssumption DEF Frames

LEMMA RowFacts ==
  /\ UserRow \in Row
  /\ \A n \in 0..MaxCalls : AssistantRow(n) \in Row
  /\ \A c \in Call : ToolRow(c) \in Row
  BY BoundsAssumption DEF UserRow, AssistantRow, ToolRow, Row, Call

LEMMA CallsOfFact ==
  ASSUME NEW c \in CallSeqs, NEW i \in Nat
  PROVE  /\ CallsOf(i, c) \in Seq(Call)
         /\ Len(CallsOf(i, c)) = Len(c)
         /\ Len(c) \in 0..MaxCalls
<1>1. PICK n \in 0..MaxCalls : c \in [1..n -> Kinds]
  BY DEF CallSeqs
<1>2. n \in Nat /\ c \in Seq(Kinds) /\ Len(c) = n
  BY <1>1, BoundsAssumption
<1>3. \A k \in 1..n : [of |-> i, nth |-> k, kind |-> c[k]] \in Call
  BY <1>1, <1>2 DEF Call
<1> QED
  BY <1>2, <1>3 DEF CallsOf

LEMMA KeyFact ==
  ASSUME TypeOK, NEW m \in Msgs
  PROVE  Key(m) \in Msgs \X Nat
<1> DEFINE T == {i \in DOMAIN session[1] : session[1][i].role = "tool"}
<1>1. session[1] \in Seq(Row)
  BY FramesFact DEF TypeOK, FrameTypes
<1>2. T \subseteq 1..Len(session[1])
  BY <1>1
<1>3. IsFiniteSet(T)
  BY <1>1, <1>2, FS_Interval, FS_Subset
<1>4. Cardinality(T) \in Nat
  BY <1>3, FS_CardinalityType
<1> QED
  BY <1>4 DEF Key

LEMMA InitIInv == Init => IInv
<1> SUFFICES ASSUME Init PROVE IInv
  OBVIOUS
<1>1. TypeOK
  <2>1. FrameTypes
    BY TotalAssumption DEF Init, NoFrames, FrameTypes, Labels, Texts
  <2>2. TurnTypes
    BY TotalAssumption DEF Init, NoTurn, TurnTypes, Endings, Texts
  <2>3. ProcessTypes
    BY BoundsAssumption DEF Init, NewProcess, ProcessTypes, Labels
  <2> QED
    BY <2>1, <2>2, <2>3 DEF TypeOK
<1>2. Stack /\ Books /\ Paid /\ Late
  BY TotalAssumption DEF Init, NoFrames, NoTurn, Stack, Frame, Books, Paid, Late, Spent, Frames,
                          PaidFor, Due, PerIteration, Iterations
<1> QED
  BY <1>1, <1>2 DEF IInv

\* The numbers of the invariant, and what they bound.
LEMMA Numbers ==
  ASSUME IInv
  PROVE  /\ Total \in Nat /\ remaining \in 0..Total /\ graceBy \in Nat
         /\ Spent \in 0..Total
         /\ depth \in 0 .. Total + 1
         /\ depth > 0 => depth \in Frames /\ depth + 1 \in Frames
BY TotalAssumption
DEF IInv, TypeOK, FrameTypes, TurnTypes, Books, Paid, Spent, Frames

\* What is due is a number, and what was asked is bounded with it.
LEMMA RequestNumbers ==
  ASSUME IInv
  PROVE  /\ Due \in 0..4 /\ Iterations \in 0 .. Total + 1 /\ asked \in Nat
         /\ asked + Due <= 4 * Iterations
         /\ asked + Due <= RequestLimit
<1>1. Due \in 0..4
  BY DEF Due, DueAt
<1>2. Iterations \in 0 .. Total + 1
  BY Numbers DEF Iterations, IInv, Books
<1>3. asked \in Nat
  BY DEF IInv, TypeOK, TurnTypes
<1>4. asked + Due <= 4 * Iterations
  BY DEF IInv, Books, PaidFor, PerIteration
<1>5. RequestLimit = 4 * (Total + 1) /\ Total \in Nat
  BY Numbers DEF RequestLimit, PerIteration
<1> QED
  BY <1>1, <1>2, <1>3, <1>4, <1>5

\* A step that asks nothing, and whose top frame has nothing to ask at once.
LEMMA NothingAsked ==
  ASSUME IInv, UNCHANGED budgetVars,
         depth' = 0 \/ pc'[depth'] \notin {"gate"} \cup Waiting
  PROVE  PaidFor'
<1>1. Due' = 0
  BY DEF Due, DueAt, Waiting
<1>2. asked' = asked /\ Iterations' = Iterations
  BY DEF budgetVars, Iterations
<1>3. asked <= 4 * Iterations
  BY RequestNumbers
<1>4. asked \in Nat
  BY RequestNumbers
<1> QED
  BY <1>1, <1>2, <1>3, <1>4 DEF PaidFor, PerIteration

\* Leaving run_turn of the root frame clears the stack.
LEMMA EndTurnKeeps ==
  ASSUME IInv, NEW how \in Endings, NEW rows \in Seq(Row), EndTurn(how, rows)
  PROVE  /\ FrameTypes' /\ Stack' /\ lastTurn' \in Endings
         /\ depth' = 0 /\ \A d \in Frames : mode'[d] = "normal"
<1>1. FrameTypes'
  BY TotalAssumption DEF EndTurn, FrameTypes, Labels, Texts
<1>2. Stack'
  BY TotalAssumption DEF EndTurn, Stack, Frame, Frames
<1> QED
  BY <1>1, <1>2 DEF EndTurn

\* The result of a call is a row of its frame's session.
LEMMA WithResultType ==
  ASSUME IInv, NEW d \in Frames, todo[d] # <<>>
  PROVE  /\ WithResult(d) \in Seq(Row)
         /\ Head(todo[d]) \in Call /\ Tail(todo[d]) \in Seq(Call)
<1>1. todo[d] \in Seq(Call) /\ session[d] \in Seq(Row)
  BY DEF IInv, TypeOK, FrameTypes
<1>2. Head(todo[d]) \in Call /\ Tail(todo[d]) \in Seq(Call)
  BY <1>1
<1>3. ToolRow(Head(todo[d])) \in Row
  BY <1>2, RowFacts
<1> QED
  BY <1>1, <1>2, <1>3 DEF WithResult

\* Taking a result makes the frame it answers the top of the stack.
LEMMA TakeResultKeeps ==
  ASSUME IInv, NEW d \in Frames, d \in {depth, depth - 1}, todo[d] # <<>>,
         TakeResult(d)
  PROVE  /\ FrameTypes' /\ Stack' /\ depth' = d
         /\ \A e \in Frames : mode'[e] = "grace" => mode[e] = "grace"
         /\ mode'[d] = mode[d]
<1>1. d + 1 \in Frames /\ depth \in Frames /\ Total \in Nat
  BY Numbers DEF Frames
<1>2. WithResult(d) \in Seq(Row) /\ Tail(todo[d]) \in Seq(Call)
  BY WithResultType
<1>3. FrameTypes'
  <2>1. depth' \in 0 .. Total + 2
    BY <1>1 DEF TakeResult, Frames
  <2>2. pc' \in [Frames -> Labels]
    BY <1>1 DEF TakeResult, IInv, TypeOK, FrameTypes, Labels
  <2>3. mode' \in [Frames -> {"normal", "grace"}]
    BY <1>1 DEF TakeResult, IInv, TypeOK, FrameTypes
  <2>4. todo' \in [Frames -> Seq(Call)]
    <3>1. todo' = [todo EXCEPT ![d] = Tail(todo[d]), ![d + 1] = <<>>]
      BY DEF TakeResult
    <3>2. <<>> \in Seq(Call) /\ todo \in [Frames -> Seq(Call)]
      BY DEF IInv, TypeOK, FrameTypes
    <3> QED
      BY <1>1, <1>2, <3>1, <3>2
  <2>5. final' \in [Frames -> Texts]
    BY <1>1 DEF TakeResult, IInv, TypeOK, FrameTypes, Texts
  <2>6. session' \in [Frames -> Seq(Row)]
    BY SMTT(40), <1>1, <1>2 DEF TakeResult, IInv, TypeOK, FrameTypes
  <2> QED
    BY <2>1, <2>2, <2>3, <2>4, <2>5, <2>6 DEF FrameTypes
<1>4. Stack'
  <2> SUFFICES ASSUME NEW e \in Frames PROVE Frame(e)'
    BY DEF Stack
  <2>0. /\ e \in Nat /\ d \in Nat /\ depth \in Nat /\ depth' = d
        /\ Frame(d) /\ Frame(e)
    BY <1>1, FramesFact DEF TakeResult, IInv, Stack
  <2>1. CASE e < d
    BY <1>1, <2>0, <2>1 DEF TakeResult, IInv, TypeOK, FrameTypes, Frame
  <2>2. CASE e = d
    <3>a. /\ pc' = [pc EXCEPT ![d] = IF Tail(todo[d]) = <<>> THEN "iterate" ELSE "tools",
                              ![d + 1] = "idle"]
          /\ todo' = [todo EXCEPT ![d] = Tail(todo[d]), ![d + 1] = <<>>]
          /\ mode' = [mode EXCEPT ![d + 1] = "normal"]
      BY DEF TakeResult
    <3>b. DOMAIN pc = Frames /\ DOMAIN todo = Frames /\ DOMAIN mode = Frames
      BY DEF IInv, TypeOK, FrameTypes
    <3>c. d + 1 # d
      BY <2>0
    <3>d. pc'[d] = IF Tail(todo[d]) = <<>> THEN "iterate" ELSE "tools"
      BY <1>1, <3>a, <3>b, <3>c
    <3>e. todo'[d] = Tail(todo[d])
      BY <1>1, <3>a, <3>b, <3>c
    <3>f. mode'[d] = mode[d]
      BY <1>1, <3>a, <3>b, <3>c
    <3>1. /\ pc'[d] = IF Tail(todo[d]) = <<>> THEN "iterate" ELSE "tools"
          /\ todo'[d] = Tail(todo[d]) /\ mode'[d] = mode[d]
      BY <3>d, <3>e, <3>f
    <3>2. mode[d] # "grace"
      BY <2>0, TotalAssumption DEF Frame
    <3> QED
      BY <2>0, <2>2, <3>1, <3>2 DEF Frame
  <2>3. CASE e > d
    BY <1>1, <2>0, <2>3 DEF TakeResult, IInv, TypeOK, FrameTypes, Frame
  <2> QED
    BY <2>0, <2>1, <2>2, <2>3
<1>5. \A e \in Frames : mode'[e] = "grace" => mode[e] = "grace"
  BY <1>1 DEF TakeResult, IInv, TypeOK, FrameTypes
<1>6. mode'[d] = mode[d] /\ depth' = d
  BY <1>1 DEF TakeResult, IInv, TypeOK, FrameTypes, Frames
<1> QED
  BY <1>3, <1>4, <1>5, <1>6

\* Leaving run_turn of the root preserves the invariant, whatever else of the
\* turn is left alone.
LEMMA EndTurnIInv ==
  ASSUME IInv, NEW how \in Endings, NEW rows \in Seq(Row), EndTurn(how, rows),
         TurnTypes', ProcessTypes', lateRuns' \in 0..1,
         UNCHANGED budgetVars
  PROVE  IInv'
<1>1. FrameTypes' /\ Stack' /\ depth' = 0 /\ \A d \in Frames : mode'[d] = "normal"
  BY EndTurnKeeps
<1>2. Books'
  BY <1>1, NothingAsked DEF budgetVars, IInv, Books
<1>3. Paid'
  BY <1>1, Numbers DEF budgetVars, Paid, Spent
<1>4. Late'
  BY <1>1 DEF Late
<1> QED
  BY <1>1, <1>2, <1>3, <1>4 DEF IInv, TypeOK

\* The same of recording a result, in whichever frame it lands: the only tool
\* that may have started late is the one whose result ends the turn.
LEMMA RecordResultIInv ==
  ASSUME IInv, NEW d \in Frames, d \in {depth, depth - 1}, todo[d] # <<>>,
         RecordResult(d),
         UNCHANGED <<budgetVars, token, cacheVars, processVars>>,
         \/ lateRuns' = lateRuns
         \/ lateRuns' = lateRuns + 1 /\ lateRuns = 0 /\ Cancelled(d)
  PROVE  IInv'
<1>1. lateRuns' \in 0..1
  BY DEF RecordResult, IInv, Late, TypeOK, TurnTypes
<1>2. ProcessTypes'
  BY DEF processVars, IInv, TypeOK, ProcessTypes
<1>3. CASE Cancelled(d)
  <2>1. EndTurn("interrupted", WithResult(1)) /\ d = 1 /\ UNCHANGED answer
    BY <1>3 DEF RecordResult, Cancelled
  <2>2. WithResult(1) \in Seq(Row) /\ "interrupted" \in Endings
    BY <2>1, WithResultType DEF Endings
  <2>3. TurnTypes'
    BY <1>1, <2>1, <2>2 DEF EndTurn, budgetVars, cacheVars, IInv, TypeOK, TurnTypes
  <2> QED
    BY <1>1, <1>2, <2>1, <2>2, <2>3, EndTurnIInv
<1>4. CASE ~Cancelled(d)
  <2>1. TakeResult(d) /\ lateRuns' = lateRuns
    BY <1>4 DEF RecordResult
  <2>2. /\ FrameTypes' /\ Stack' /\ depth' = d
        /\ \A e \in Frames : mode'[e] = "grace" => mode[e] = "grace"
        /\ mode'[d] = mode[d]
    BY <2>1, TakeResultKeeps
  <2>3. TurnTypes'
    BY <1>1, <2>1 DEF TakeResult, endVars, budgetVars, cacheVars, IInv, TypeOK, TurnTypes
  <2>4. Books'
    <3>1. pc'[d] \in {"iterate", "tools"}
      BY <2>1 DEF TakeResult, IInv, TypeOK, FrameTypes, Frames
    <3> QED
      BY <2>2, <3>1, NothingAsked DEF budgetVars, IInv, Books, Waiting
  <2>5. Paid'
    <3>1. Spent' = Spent /\ d \in Nat /\ depth \in Nat /\ Spent \in Nat
      BY FramesFact, Numbers DEF budgetVars, Spent
    <3>2. depth = d => pc[d] = "tools" /\ mode[d] = "normal"
      BY FramesFact DEF IInv, Stack, Frame, TypeOK, FrameTypes
    <3>3. d <= Spent
      BY <3>1, <3>2, FramesFact DEF IInv, Paid
    <3> QED
      BY <2>2, <3>1, <3>3 DEF Paid
  <2>6. Late'
    <3>1. CASE lateRuns = 0
      BY <2>1, <3>1 DEF Late
    <3>2. CASE lateRuns > 0
      <4>1. depth \in Nat /\ d \in Nat \ {0}
        BY FramesFact DEF IInv, TypeOK, FrameTypes
      <4>2. depth > 0
        BY <4>1
      <4>3. token = "set" /\ pc[1] = "await"
        BY <3>2, <4>2 DEF IInv, Late
      <4>4. d # 1
        BY <1>4, <4>3 DEF Cancelled
      <4>5. pc'[1] = pc[1]
        BY <2>1, <4>3, <4>4, FramesFact DEF TakeResult, IInv, TypeOK, FrameTypes
      <4> QED
        BY <1>1, <2>1, <4>3, <4>5 DEF Late
    <3> QED
      BY <3>1, <3>2 DEF IInv, TypeOK, TurnTypes
  <2> QED
    BY <1>2, <2>2, <2>3, <2>4, <2>5, <2>6 DEF IInv, TypeOK
<1> QED
  BY <1>3, <1>4

\* A step of the top frame that neither starts nor leaves a frame.
LEMMA LocalStep ==
  ASSUME IInv, depth > 0, depth' = depth,
         NEW l \in Labels \ {"idle", "await"}, pc' = [pc EXCEPT ![depth] = l],
         NEW m \in {"normal", "grace"}, mode' = [mode EXCEPT ![depth] = m],
         NEW q \in Seq(Call), todo' = [todo EXCEPT ![depth] = q],
         q # <<>> <=> l = "tools",
         m = "grace" => l \in {"gate", "compact", "stream", "recompact", "retry", "finish"},
         final' \in [Frames -> Texts], session' \in [Frames -> Seq(Row)]
  PROVE  /\ FrameTypes' /\ Stack' /\ pc'[depth] = l /\ mode'[depth] = m
         /\ \A d \in Frames \ {depth} : mode'[d] = mode[d] /\ pc'[d] = pc[d]
<1>1. depth \in Frames
  BY Numbers
<1>2. /\ pc'[depth] = l /\ mode'[depth] = m /\ todo'[depth] = q
      /\ \A d \in Frames \ {depth} :
            mode'[d] = mode[d] /\ pc'[d] = pc[d] /\ todo'[d] = todo[d]
  BY <1>1 DEF IInv, TypeOK, FrameTypes
<1>3. FrameTypes'
  BY <1>1 DEF IInv, TypeOK, FrameTypes
<1>4. Stack'
  <2> SUFFICES ASSUME NEW d \in Frames PROVE Frame(d)'
    BY DEF Stack
  <2>1. CASE d = depth
    BY <1>2, <2>1, Numbers, FramesFact DEF Frame
  <2>2. CASE d # depth
    BY <1>2, <2>2, Numbers, FramesFact DEF IInv, Stack, Frame
  <2> QED
    BY <2>1, <2>2
<1> QED
  BY <1>2, <1>3, <1>4

\* A row appended to one session leaves sessions.
LEMMA AppendType ==
  ASSUME IInv, NEW d \in Frames, NEW r \in Row
  PROVE  [session EXCEPT ![d] = Append(@, r)] \in [Frames -> Seq(Row)]
<1>1. session \in [Frames -> Seq(Row)]
  BY DEF IInv, TypeOK, FrameTypes
<1>2. Append(session[d], r) \in Seq(Row)
  BY <1>1
<1> QED
  BY <1>1, <1>2

\* The books and the bounds after a local step that spends nothing.
LEMMA NothingSpent ==
  ASSUME IInv, depth > 0, depth' = depth, UNCHANGED <<budgetVars, interruptVars>>,
         FrameTypes', Stack', TurnTypes', ProcessTypes',
         \A d \in Frames : mode'[d] = "grace" => mode[d] = "grace",
         pc'[1] = pc[1] \/ depth = 1,
         \/ pc'[depth] \in {"iterate", "finish"}
         \/ /\ pc'[depth] = "tools" /\ pc[depth] \in {"stream", "retry"}
            /\ mode[depth] = "normal" \/ mode'[depth] # "normal"
  PROVE  IInv'
<1>1. Books'
  <2>1. pc'[depth'] \notin {"gate"} \cup Waiting
    BY DEF Waiting
  <2>2. PaidFor'
    BY <2>1, NothingAsked
  <2> QED
    BY <2>2 DEF budgetVars, IInv, Books
<1>2. Paid'
  BY DEF budgetVars, IInv, Paid, Spent
<1>3. Late'
  <2>1. depth = 1 => pc[1] # "await"
    BY FramesFact DEF IInv, Stack, Frame
  <2> QED
    BY <2>1 DEF interruptVars, IInv, Late
<1> QED
  BY <1>1, <1>2, <1>3 DEF IInv, TypeOK

\* A request moves the top frame on to a label with less due.
LEMMA RequestKeeps ==
  ASSUME IInv, depth > 0, NEW label \in Waiting, Request(label),
         pc[depth] \in {"gate"} \cup Waiting, DueAt(label) + 1 <= DueAt(pc[depth])
  PROVE  IInv'
<1>0. depth \in Frames /\ depth' = depth
  BY Numbers DEF Request
<1>1. /\ <<>> \in Seq(Call) /\ mode[depth] \in {"normal", "grace"}
      /\ todo' = [todo EXCEPT ![depth] = <<>>]
      /\ mode' = [mode EXCEPT ![depth] = mode[depth]] /\ mode' = mode
      /\ session' \in [Frames -> Seq(Row)] /\ final' \in [Frames -> Texts]
  BY <1>0 DEF Request, IInv, TypeOK, FrameTypes, Stack, Frame, Waiting
<1>2. /\ FrameTypes' /\ Stack' /\ pc'[depth] = label
      /\ \A d \in Frames \ {depth} : pc'[d] = pc[d]
  <2>1. pc' = [pc EXCEPT ![depth] = label]
    BY DEF Request
  <2>2. label \in {"compact", "stream", "recompact", "retry"}
    BY DEF Waiting
  <2>3. label \in Labels \ {"idle", "await"} /\ ~(label = "tools")
    BY <2>2 DEF Labels
  <2> QED
    BY <1>0, <1>1, <2>1, <2>2, <2>3, LocalStep
<1>3. TurnTypes' /\ ProcessTypes'
  BY DEF Request, interruptVars, cacheVars, processVars, endVars,
         IInv, TypeOK, TurnTypes, ProcessTypes
<1>4. PaidFor'
  <2>1. Due = DueAt(pc[depth]) /\ Due' = DueAt(label)
    BY <1>0, <1>2 DEF Due
  <2>2. asked' = asked + 1 /\ Iterations' = Iterations
    BY DEF Request, Iterations
  <2>3. DueAt(label) \in Nat /\ DueAt(pc[depth]) \in Nat
    BY DEF DueAt
  <2>4. Iterations \in Nat
    BY RequestNumbers, Numbers
  <2>5. asked \in Nat
    BY RequestNumbers
  <2>6. asked + Due <= 4 * Iterations
    BY RequestNumbers
  <2>7. asked + 1 + DueAt(label) <= 4 * Iterations
    BY <2>1, <2>3, <2>4, <2>5, <2>6
  <2> QED
    BY <2>1, <2>2, <2>7 DEF PaidFor, PerIteration
<1>5. Books'
  BY <1>1, <1>4 DEF Request, IInv, Books
<1>6. Paid'
  <2>1. pc[depth] \in {"gate", "compact", "stream", "recompact", "retry"}
    BY DEF Waiting
  <2> QED
    BY <1>0, <1>1, <2>1 DEF Request, IInv, Paid, Spent
<1>7. Late'
  <2>1. depth = 1 => pc[1] # "await"
    BY FramesFact DEF IInv, Stack, Frame
  <2> QED
    BY <1>0, <1>2, <2>1, FramesFact DEF Request, interruptVars, IInv, Late
<1> QED
  BY <1>2, <1>3, <1>5, <1>6, <1>7 DEF IInv, TypeOK

-----------------------------------------------------------------------------
(* One lemma per action. *)

\* The rest of the state a frame's step leaves alone keeps its type.
LEMMA OtherTypes ==
  ASSUME IInv, UNCHANGED <<budgetVars, interruptVars, cacheVars, processVars, endVars>>
  PROVE  TurnTypes' /\ ProcessTypes'
BY DEF IInv, TypeOK, TurnTypes, ProcessTypes, budgetVars, interruptVars, cacheVars,
       processVars, endVars

LEMMA BeginKeeps == IInv /\ Begin => IInv'
<1> SUFFICES ASSUME IInv, Begin PROVE IInv'
  OBVIOUS
<1>0. depth > 0 /\ depth \in Frames /\ pc[depth] = "begin"
  BY Numbers DEF Begin
<1> DEFINE rows == Append(session[depth], UserRow)
<1>1. rows \in Seq(Row) /\ session \in [Frames -> Seq(Row)]
  BY <1>0, RowFacts DEF IInv, TypeOK, FrameTypes
<1>2. ProcessTypes'
  BY DEF Begin, processVars, IInv, TypeOK, ProcessTypes
<1>3. CASE /\ depth = 1
           /\ \E e \in CacheHits : answer' = e[2]
           /\ EndTurn("cached", rows)
           /\ UNCHANGED key
  <2>1. answer' \in Texts
    BY <1>3 DEF CacheHits, IInv, TypeOK, TurnTypes
  <2>2. TurnTypes' /\ lateRuns' \in 0..1
    BY <1>3, <2>1 DEF Begin, EndTurn, Endings, budgetVars, interruptVars, IInv, Late,
                      TypeOK, TurnTypes
  <2>3. "cached" \in Endings /\ UNCHANGED budgetVars
    BY DEF Endings, Begin
  <2> QED
    BY <1>1, <1>2, <1>3, <2>2, <2>3, EndTurnIInv
<1>4. CASE /\ session' = [session EXCEPT ![depth] = rows]
           /\ pc' = [pc EXCEPT ![depth] = "iterate"]
           /\ key' = IF depth = 1 THEN Key(msg) ELSE key
           /\ UNCHANGED <<depth, mode, todo, final, endVars>>
  <2>1. key' \in Msgs \X Nat
    BY <1>4, KeyFact DEF IInv, TypeOK, TurnTypes
  <2>2. TurnTypes'
    BY <1>4, <2>1 DEF Begin, budgetVars, interruptVars, endVars, IInv, TypeOK, TurnTypes
  <2>3. /\ <<>> \in Seq(Call)
        /\ todo' = [todo EXCEPT ![depth] = <<>>]
        /\ mode' = [mode EXCEPT ![depth] = "normal"]
    BY SMTT(40), <1>0, <1>4 DEF IInv, TypeOK, FrameTypes, Stack, Frame
  <2>4. session' \in [Frames -> Seq(Row)] /\ final' \in [Frames -> Texts]
    BY <1>1, <1>4 DEF IInv, TypeOK, FrameTypes
  <2>5. /\ FrameTypes' /\ Stack' /\ pc'[depth] = "iterate"
        /\ \A d \in Frames \ {depth} : pc'[d] = pc[d]
    <3> HIDE DEF rows
    <3>1. depth' = depth /\ pc' = [pc EXCEPT ![depth] = "iterate"] /\ depth > 0
      BY <1>0, <1>4
    <3>2. "iterate" \in Labels \ {"idle", "await"}
      BY DEF Labels
    <3> QED
      BY <2>3, <2>4, <3>1, <3>2, LocalStep
  <2>6. UNCHANGED <<budgetVars, interruptVars, mode, depth>>
    BY <1>4 DEF Begin
  <2> QED
    BY <1>0, <1>2, <2>2, <2>5, <2>6, FramesFact, NothingSpent
<1> QED
  BY <1>3, <1>4 DEF Begin

LEMMA InterruptedKeeps == IInv /\ Interrupted => IInv'
<1> SUFFICES ASSUME IInv, Interrupted PROVE IInv'
  OBVIOUS
<1>1. session[1] \in Seq(Row) /\ "interrupted" \in Endings
  BY FramesFact DEF IInv, TypeOK, FrameTypes, Endings
<1>2. EndTurn("interrupted", session[1]) /\ UNCHANGED budgetVars
  BY DEF Interrupted
<1>3. TurnTypes' /\ ProcessTypes' /\ lateRuns' \in 0..1
  BY <1>1, <1>2 DEF Interrupted, EndTurn, budgetVars, interruptVars, cacheVars, processVars,
     IInv, TypeOK, TurnTypes, ProcessTypes, Late
<1> QED
  BY <1>1, <1>2, <1>3, EndTurnIInv

LEMMA ConsumeKeeps == IInv /\ Consume => IInv'
<1> SUFFICES ASSUME IInv, Consume PROVE IInv'
  OBVIOUS
<1>0. /\ depth > 0 /\ depth \in Frames /\ pc[depth] = "iterate" /\ remaining > 0
      /\ graceBy = 0 /\ remaining \in 1..Total /\ Total \in Nat
      /\ mode[depth] = "normal"
  BY SMTT(40), Numbers DEF Consume, CanConsume, AtLoopHead, IInv, Books, Stack, Frame, TypeOK, FrameTypes
<1>1. /\ <<>> \in Seq(Call)
      /\ todo' = [todo EXCEPT ![depth] = <<>>]
      /\ mode' = [mode EXCEPT ![depth] = "normal"]
      /\ session' \in [Frames -> Seq(Row)] /\ final' \in [Frames -> Texts]
  BY <1>0 DEF Consume, IInv, TypeOK, FrameTypes, Stack, Frame
<1>2. FrameTypes' /\ Stack' /\ pc'[depth] = "gate" /\ \A d \in Frames \ {depth} : pc'[d] = pc[d]
  BY <1>0, <1>1, LocalStep DEF Consume, Labels
<1>3. TurnTypes' /\ ProcessTypes'
  BY <1>0 DEF Consume, interruptVars, cacheVars, processVars, endVars,
              IInv, TypeOK, TurnTypes, ProcessTypes
<1>4. Books'
  <2>1. Due = 0 /\ Due' = 4
    BY <1>0, <1>2 DEF Due, DueAt, Consume
  <2>2. asked' = asked /\ Iterations' = Iterations + 1
    BY <1>0 DEF Consume, Iterations
  <2>3. PaidFor'
    BY <2>1, <2>2, RequestNumbers, Numbers DEF PaidFor, PerIteration
  <2> QED
    BY <1>0, <2>3 DEF Consume, IInv, Books
<1>5. Paid'
  BY <1>0, Numbers DEF Consume, IInv, Paid, Spent
<1>6. Late'
  BY <1>0, <1>2, FramesFact DEF Consume, interruptVars, IInv, Late
<1> QED
  BY <1>2, <1>3, <1>4, <1>5, <1>6 DEF IInv, TypeOK

LEMMA TakeGraceKeeps == IInv /\ TakeGrace => IInv'
<1> SUFFICES ASSUME IInv, TakeGrace PROVE IInv'
  OBVIOUS
<1>0. /\ depth > 0 /\ depth \in Frames /\ pc[depth] = "iterate" /\ remaining = 0
      /\ graceBy = 0 /\ Total \in Nat /\ depth \in 1 .. Total + 1
  BY Numbers DEF TakeGrace, CanRequestGrace, AtLoopHead, IInv, Books
<1>1. /\ <<>> \in Seq(Call)
      /\ todo' = [todo EXCEPT ![depth] = <<>>]
      /\ final' \in [Frames -> Texts]
  BY <1>0 DEF TakeGrace, IInv, TypeOK, FrameTypes, Stack, Frame
<1>2. session' \in [Frames -> Seq(Row)]
  BY <1>0, AppendType, RowFacts DEF TakeGrace
<1>3. /\ FrameTypes' /\ Stack' /\ pc'[depth] = "gate" /\ mode'[depth] = "grace"
      /\ \A d \in Frames \ {depth} : pc'[d] = pc[d]
  BY <1>0, <1>1, <1>2, LocalStep DEF TakeGrace, Labels
<1>4. TurnTypes' /\ ProcessTypes'
  BY <1>0 DEF TakeGrace, interruptVars, cacheVars, processVars, endVars,
              IInv, TypeOK, TurnTypes, ProcessTypes
<1>5. Books'
  <2>1. Due = 0 /\ Due' = 4
    BY <1>0, <1>3 DEF Due, DueAt, TakeGrace
  <2>2. asked' = asked /\ Iterations' = Iterations + 1
    BY <1>0 DEF TakeGrace, Iterations
  <2>3. PaidFor'
    BY <2>1, <2>2, RequestNumbers, Numbers DEF PaidFor, PerIteration
  <2> QED
    BY <1>0, <2>3 DEF TakeGrace, IInv, Books
<1>6. Paid'
  BY <1>0, <1>3, Numbers DEF TakeGrace, Paid, Spent
<1>7. Late'
  BY <1>0, <1>3, FramesFact DEF TakeGrace, interruptVars, IInv, Late
<1> QED
  BY <1>3, <1>4, <1>5, <1>6, <1>7 DEF IInv, TypeOK

LEMMA ExhaustedKeeps == IInv /\ Exhausted => IInv'
<1> SUFFICES ASSUME IInv, Exhausted PROVE IInv'
  OBVIOUS
<1>0. depth > 0 /\ depth \in Frames /\ pc[depth] = "iterate" /\ depth' = depth
  BY Numbers DEF Exhausted, AtLoopHead
<1>1. /\ <<>> \in Seq(Call)
      /\ todo' = [todo EXCEPT ![depth] = <<>>]
      /\ mode' = [mode EXCEPT ![depth] = "normal"] /\ mode' = mode
      /\ session' \in [Frames -> Seq(Row)]
  BY <1>0 DEF Exhausted, IInv, TypeOK, FrameTypes, Stack, Frame
<1>2. final' \in [Frames -> Texts]
  BY <1>0 DEF Exhausted, IInv, TypeOK, FrameTypes, Texts
<1>3. FrameTypes' /\ Stack' /\ pc'[depth] = "finish" /\ \A d \in Frames \ {depth} : pc'[d] = pc[d]
  BY <1>0, <1>1, <1>2, LocalStep DEF Exhausted, Labels
<1>4. TurnTypes' /\ ProcessTypes' /\ UNCHANGED <<budgetVars, interruptVars>>
  BY OtherTypes DEF Exhausted
<1> QED
  BY <1>0, <1>1, <1>3, <1>4, FramesFact, NothingSpent

LEMMA CostAllowsKeeps == IInv /\ CostAllows => IInv'
BY RequestKeeps DEF CostAllows, Waiting, DueAt

LEMMA SummarisedKeeps == IInv /\ Summarised => IInv'
BY RequestKeeps DEF Summarised, Waiting, DueAt

LEMMA OverflowKeeps == IInv /\ Overflow => IInv'
BY RequestKeeps DEF Overflow, MayRetry, Waiting, DueAt

\* An exception that ends the turn outside a subagent.
LEMMA FailureKeeps ==
  ASSUME IInv, NEW how \in Endings, EndTurn(how, session[1]),
         UNCHANGED <<answer, budgetVars, interruptVars, cacheVars>>,
         ProcessTypes'
  PROVE  IInv'
<1>1. session[1] \in Seq(Row)
  BY FramesFact DEF IInv, TypeOK, FrameTypes
<1>2. TurnTypes' /\ lateRuns' \in 0..1 /\ UNCHANGED budgetVars
  BY DEF EndTurn, budgetVars, interruptVars, cacheVars, IInv, TypeOK, TurnTypes, Late
<1> QED
  BY <1>1, <1>2, EndTurnIInv

LEMMA CostBlocksKeeps == IInv /\ CostBlocks => IInv'
BY FailureKeeps DEF CostBlocks, Endings, processVars, IInv, TypeOK, ProcessTypes

LEMMA ApprovalFailsKeeps == IInv /\ ApprovalFails => IInv'
BY FailureKeeps DEF ApprovalFails, Endings, processVars, IInv, TypeOK, ProcessTypes

LEMMA CrashKeeps == IInv /\ Crash => IInv'
<1> SUFFICES ASSUME IInv, Crash PROVE IInv'
  OBVIOUS
<1>1. ProcessTypes'
  BY FramesFact DEF Crash, IInv, TypeOK, ProcessTypes, FrameTypes
<1> QED
  BY <1>1, FailureKeeps DEF Crash, Endings

\* A frame below the top waits with its call pending.
LEMMA WaitingFrame ==
  ASSUME IInv, depth > 1
  PROVE  depth - 1 \in Frames /\ todo[depth - 1] # <<>>
<1>1. depth \in Frames /\ depth - 1 \in Frames /\ depth - 1 < depth
  BY Numbers DEF Frames
<1> QED
  BY <1>1 DEF IInv, Stack, Frame

LEMMA StreamFailsKeeps == IInv /\ StreamFails => IInv'
<1> SUFFICES ASSUME IInv, StreamFails PROVE IInv'
  OBVIOUS
<1>1. UNCHANGED <<budgetVars, token, lateRuns, cacheVars, processVars>>
  BY DEF StreamFails
<1>2. CASE depth = 1 /\ EndTurn("failed", session[1]) /\ UNCHANGED answer
  BY <1>1, <1>2, FailureKeeps
  DEF Endings, interruptVars, processVars, IInv, TypeOK, ProcessTypes
<1>3. CASE depth > 1 /\ RecordResult(depth - 1)
  BY <1>1, <1>3, WaitingFrame, RecordResultIInv
<1> QED
  BY <1>2, <1>3 DEF StreamFails, Raise

LEMMA FinishSubagentKeeps == IInv /\ FinishSubagent => IInv'
BY WaitingFrame, RecordResultIInv DEF FinishSubagent

LEMMA RunToolKeeps == IInv /\ RunTool => IInv'
<1> SUFFICES ASSUME IInv, RunTool PROVE IInv'
  OBVIOUS
<1>1. depth \in Frames /\ pc[depth] = "tools" /\ todo[depth] # <<>>
  BY Numbers DEF RunTool, AtCall, IInv, Stack, Frame
<1>2. Cancelled(depth) => lateRuns = 0
  BY <1>1 DEF Cancelled, IInv, Late, TypeOK, TurnTypes
<1> QED
  BY <1>1, <1>2, RecordResultIInv DEF RunTool

\* A denial: no token check, so the frame goes on.
LEMMA DenyKeeps == IInv /\ Deny => IInv'
<1> SUFFICES ASSUME IInv, Deny PROVE IInv'
  OBVIOUS
<1>1. depth \in Frames /\ depth > 0 /\ pc[depth] = "tools" /\ todo[depth] # <<>>
  BY Numbers DEF Deny, AtCall, IInv, Stack, Frame
<1>2. /\ FrameTypes' /\ Stack' /\ depth' = depth
      /\ \A e \in Frames : mode'[e] = "grace" => mode[e] = "grace"
  BY <1>1, TakeResultKeeps DEF Deny
<1>3. TurnTypes' /\ ProcessTypes'
  BY DEF Deny, TakeResult, endVars, budgetVars, cacheVars, processVars,
         IInv, TypeOK, TurnTypes, ProcessTypes
<1>4. Books'
  <2>1. pc'[depth] \in {"iterate", "tools"}
    BY <1>1 DEF Deny, TakeResult, IInv, TypeOK, FrameTypes, Frames
  <2> QED
    BY <1>2, <2>1, NothingAsked DEF Deny, budgetVars, IInv, Books, Waiting
<1>5. mode[depth] = "normal"
  BY <1>1 DEF IInv, Stack, Frame, TypeOK, FrameTypes
<1>6. Paid'
  BY <1>1, <1>2, <1>5 DEF Deny, budgetVars, IInv, Paid, Spent
<1>7. Late'
  <2>1. lateRuns > 0 => depth # 1 /\ token = "set" /\ pc[1] = "await"
    BY <1>1 DEF IInv, Late
  <2>2. depth # 1 => pc'[1] = pc[1]
    BY <1>1, FramesFact DEF Deny, TakeResult, IInv, TypeOK, FrameTypes
  <2> QED
    BY <2>1, <2>2 DEF Deny, IInv, Late
<1> QED
  BY <1>2, <1>3, <1>4, <1>6, <1>7 DEF IInv, TypeOK

LEMMA ReplyKeeps ==
  ASSUME IInv, NEW c \in CallSeqs, NEW text \in {"none", "text"}, Reply(c, text)
  PROVE  IInv'
<1>0. /\ depth > 0 /\ depth \in Frames /\ pc[depth] \in {"stream", "retry"}
      /\ depth' = depth /\ mode' = mode /\ mode[depth] \in {"normal", "grace"}
      /\ mode' = [mode EXCEPT ![depth] = mode[depth]]
  BY Numbers DEF Reply, IInv, TypeOK, FrameTypes
<1>1. TurnTypes' /\ ProcessTypes' /\ UNCHANGED <<budgetVars, interruptVars>>
  BY OtherTypes DEF Reply
<1>2. session' \in [Frames -> Seq(Row)]
  BY <1>0, AppendType, RowFacts, CallsOfFact, TotalAssumption DEF Reply
<1>3. final' \in [Frames -> Texts]
  BY <1>0 DEF Reply, IInv, TypeOK, FrameTypes, Texts
<1>4. CASE pc' = [pc EXCEPT ![depth] = "finish"] /\ UNCHANGED todo
  <2>1. <<>> \in Seq(Call) /\ todo' = [todo EXCEPT ![depth] = <<>>]
    BY <1>0, <1>4 DEF IInv, TypeOK, FrameTypes, Stack, Frame
  <2>2. FrameTypes' /\ Stack' /\ pc'[depth] = "finish" /\ \A d \in Frames \ {depth} : pc'[d] = pc[d]
    BY <1>0, <1>2, <1>3, <1>4, <2>1, LocalStep DEF Labels
  <2> QED
    BY <1>0, <1>1, <2>2, FramesFact, NothingSpent
<1>5. CASE /\ c # <<>> /\ mode[depth] = "normal"
           /\ pc' = [pc EXCEPT ![depth] = "tools"]
           /\ todo' = [todo EXCEPT ![depth] = CallsOf(Len(session[depth]) + 1, c)]
  <2> DEFINE q == CallsOf(Len(session[depth]) + 1, c)
  <2>1. Len(session[depth]) + 1 \in Nat
    BY <1>0 DEF IInv, TypeOK, FrameTypes
  <2>2. q \in Seq(Call) /\ Len(q) = Len(c)
    BY <2>1, CallsOfFact
  <2>3. q # <<>>
    BY <1>5, <2>2 DEF CallSeqs
  <2> HIDE DEF q
  <2>4. FrameTypes' /\ Stack' /\ pc'[depth] = "tools" /\ \A d \in Frames \ {depth} : pc'[d] = pc[d]
    <3>1. todo' = [todo EXCEPT ![depth] = q] /\ mode' = [mode EXCEPT ![depth] = "normal"]
      BY <1>0, <1>5 DEF q
    <3> QED
      BY <1>0, <1>2, <1>3, <1>5, <2>2, <2>3, <3>1, LocalStep DEF Labels
  <2> QED
    BY <1>0, <1>1, <1>5, <2>4, FramesFact, NothingSpent
<1>6. ~EndsLoop(c) => c # <<>> /\ mode[depth] = "normal"
  BY <1>0 DEF EndsLoop
<1> QED
  BY <1>4, <1>5, <1>6 DEF Reply

LEMMA DelegateKeeps == IInv /\ Delegate => IInv'
<1> SUFFICES ASSUME IInv, Delegate PROVE IInv'
  OBVIOUS
<1>0. /\ depth \in Frames /\ depth > 0 /\ depth + 1 \in Frames /\ depth' = depth + 1
      /\ pc[depth] = "tools" /\ todo[depth] # <<>> /\ mode[depth] = "normal"
  BY Numbers DEF Delegate, AtCall, IInv, Stack, Frame, TypeOK, FrameTypes
<1>1. /\ pc' = [pc EXCEPT ![depth] = "await", ![depth + 1] = "begin"]
      /\ UNCHANGED <<mode, todo, final, session, token>>
      /\ UNCHANGED <<budgetVars, cacheVars, processVars, endVars>>
  BY DEF Delegate
<1>2. FrameTypes'
  BY SMTT(40), <1>0, <1>1, TotalAssumption DEF IInv, TypeOK, FrameTypes, Labels, Frames
<1>3. Stack'
  <2> SUFFICES ASSUME NEW d \in Frames PROVE Frame(d)'
    BY DEF Stack
  <2>0. d \in Nat /\ depth \in Nat /\ Frame(d) /\ Frame(depth + 1)
    BY <1>0, FramesFact DEF IInv, Stack
  <2>1. CASE d = depth + 1
    BY <1>0, <1>1, <2>0, <2>1 DEF Frame, IInv, TypeOK, FrameTypes
  <2>2. CASE d = depth
    BY <1>0, <1>1, <2>0, <2>2 DEF Frame, IInv, TypeOK, FrameTypes
  <2>3. CASE d \notin {depth, depth + 1}
    BY <1>0, <1>1, <2>0, <2>3 DEF Frame, IInv, TypeOK, FrameTypes
  <2> QED
    BY <2>1, <2>2, <2>3
<1>4. lateRuns = 0 \/ (depth # 1 /\ pc[1] = "await" /\ token = "set")
  BY <1>0 DEF IInv, Late, TypeOK, TurnTypes
<1>5. TurnTypes' /\ ProcessTypes'
  BY <1>1 DEF Delegate, endVars, budgetVars, cacheVars, processVars,
              IInv, TypeOK, TurnTypes, ProcessTypes
<1>6. Books'
  <2>1. pc'[depth'] = "begin"
    BY <1>0, <1>1 DEF IInv, TypeOK, FrameTypes
  <2> QED
    BY <1>1, <2>1, NothingAsked DEF budgetVars, IInv, Books, Waiting
<1>7. Paid'
  <2>1. depth <= Spent /\ Spent' = Spent /\ Spent \in Nat /\ depth \in Nat
    BY <1>0, <1>1, Numbers DEF IInv, Paid, budgetVars, Spent
  <2>2. pc'[depth'] = "begin"
    BY <1>0, <1>1 DEF IInv, TypeOK, FrameTypes
  <2> QED
    BY <1>0, <2>1, <2>2 DEF Paid
<1>8. Late'
  <2>1. pc'[1] = "await" \/ (depth # 1 /\ pc'[1] = pc[1])
    BY <1>0, <1>1, FramesFact DEF IInv, TypeOK, FrameTypes
  <2> QED
    BY <1>0, <1>1, <1>4, <2>1 DEF Delegate, Cancelled, IInv, Late
<1> QED
  BY <1>2, <1>3, <1>5, <1>6, <1>7, <1>8 DEF IInv, TypeOK

LEMMA FinishTurnKeeps == IInv /\ FinishTurn => IInv'
<1> SUFFICES ASSUME IInv, FinishTurn PROVE IInv'
  OBVIOUS
<1>1. session[1] \in Seq(Row) /\ final[1] \in Texts /\ "returned" \in Endings
  BY FramesFact DEF IInv, TypeOK, FrameTypes, Endings
<1>2. cache' \subseteq (Msgs \X Nat) \X Texts
  BY <1>1 DEF FinishTurn, IInv, TypeOK, TurnTypes
<1>3. TurnTypes' /\ ProcessTypes' /\ lateRuns' \in 0..1
  BY <1>1, <1>2 DEF FinishTurn, EndTurn, budgetVars, interruptVars, processVars,
                    IInv, TypeOK, TurnTypes, ProcessTypes, Late
<1> QED
  BY <1>1, <1>3, EndTurnIInv DEF FinishTurn

LEMMA StartTurnKeeps ==
  ASSUME IInv, NEW m \in Msgs, StartTurn(m)
  PROVE  IInv'
<1>0. depth = 0 /\ depth' = 1 /\ 1 \in Frames /\ Total \in Nat \ {0}
  BY FramesFact, TotalAssumption DEF StartTurn
<1>1. /\ pc' = [pc EXCEPT ![1] = "begin"] /\ UNCHANGED <<mode, todo, final, session>>
  BY DEF StartTurn
<1>2. FrameTypes'
  BY <1>0, <1>1 DEF IInv, TypeOK, FrameTypes, Labels
<1>3. Stack'
  BY <1>0, <1>1, FramesFact DEF IInv, TypeOK, FrameTypes, Stack, Frame
<1>4. TurnTypes'
  BY <1>0 DEF StartTurn, IInv, TypeOK, TurnTypes, Endings
<1>5. ProcessTypes'
  <2>1. session[1] \in Seq(Row)
    BY <1>0 DEF IInv, TypeOK, FrameTypes
  <2> QED
    BY <2>1, BoundsAssumption DEF StartTurn, IInv, TypeOK, ProcessTypes
<1>6. Books'
  <2>1. pc'[1] = "begin"
    BY <1>0, <1>1 DEF IInv, TypeOK, FrameTypes
  <2>2. PaidFor'
    BY <1>0, <2>1 DEF StartTurn, PaidFor, Due, DueAt, PerIteration, Iterations
  <2> QED
    BY <1>0, <1>1, <2>2, FramesFact DEF StartTurn, IInv, Stack, Frame, Books
<1>7. Paid'
  <2>1. pc'[1] = "begin"
    BY <1>0, <1>1 DEF IInv, TypeOK, FrameTypes
  <2> QED
    BY <1>0, <2>1 DEF StartTurn, Paid, Spent
<1>8. Late'
  BY DEF StartTurn, Late
<1> QED
  BY <1>2, <1>3, <1>4, <1>5, <1>6, <1>7, <1>8 DEF IInv, TypeOK

\* Steps that leave the stack and the budget alone.
LEMMA OutsideKeeps ==
  ASSUME IInv, UNCHANGED <<frameVars, budgetVars>>, TurnTypes', ProcessTypes',
         lateRuns' = lateRuns, token' \in {token, "set"}
  PROVE  IInv'
<1>1. FrameTypes' /\ Stack'
  BY DEF frameVars, IInv, TypeOK, FrameTypes, Stack, Frame
<1>2. Books' /\ Paid' /\ Late'
  BY DEF frameVars, budgetVars, IInv, Books, Paid, Spent, Late, PaidFor, Due, DueAt, Iterations
<1> QED
  BY <1>1, <1>2 DEF IInv, TypeOK

LEMMA EnvironmentKeeps ==
  ASSUME IInv, CtrlC \/ Restart \/ OtherScan \/ CacheExpires \/ UNCHANGED vars
  PROVE  IInv'
<1>1. CASE CtrlC
  BY <1>1, OutsideKeeps
  DEF CtrlC, cacheVars, processVars, endVars, budgetVars, IInv, TypeOK, TurnTypes, ProcessTypes
<1>2. CASE Restart
  BY <1>2, OutsideKeeps DEF Restart, Scanned, cacheVars, interruptVars, budgetVars, endVars,
     IInv, TypeOK, TurnTypes, ProcessTypes
<1>3. CASE OtherScan
  BY <1>3, OutsideKeeps DEF OtherScan, Scanned, cacheVars, interruptVars, budgetVars, endVars,
     IInv, TypeOK, TurnTypes, ProcessTypes
<1>4. CASE UNCHANGED vars
  BY <1>4, OutsideKeeps DEF vars, cacheVars, interruptVars, budgetVars, endVars, processVars,
     IInv, TypeOK, TurnTypes, ProcessTypes
<1>5. CASE CacheExpires
  BY <1>5, OutsideKeeps DEF CacheExpires, interruptVars, budgetVars, endVars, processVars,
     IInv, TypeOK, TurnTypes, ProcessTypes
<1> QED
  BY <1>1, <1>2, <1>3, <1>4, <1>5

LEMMA NextKeeps == IInv /\ [Next]_vars => IInv'
<1> SUFFICES ASSUME IInv, [Next]_vars PROVE IInv'
  OBVIOUS
<1>1. CASE AgentStep
  BY <1>1, BeginKeeps, InterruptedKeeps, ConsumeKeeps, TakeGraceKeeps, ExhaustedKeeps,
     CostAllowsKeeps, CostBlocksKeeps, SummarisedKeeps, OverflowKeeps, StreamFailsKeeps, ReplyKeeps,
     DenyKeeps, ApprovalFailsKeeps, RunToolKeeps, DelegateKeeps, FinishTurnKeeps,
     FinishSubagentKeeps
  DEF AgentStep
<1>2. CASE \E m \in Msgs : StartTurn(m)
  BY <1>2, StartTurnKeeps
<1>3. CASE CtrlC \/ Restart \/ OtherScan \/ CacheExpires \/ UNCHANGED vars
  BY <1>3, EnvironmentKeeps
<1>4. CASE Crash
  BY <1>4, CrashKeeps
<1> QED
  BY <1>1, <1>2, <1>3, <1>4 DEF Next

THEOREM Invariance == Spec => []IInv
BY InitIInv, NextKeeps, PTL DEF Spec

-----------------------------------------------------------------------------
(* The results. *)

\* Every variable of the agent stays in its type.
THEOREM TypeCorrectness == Spec => []TypeOK
<1>1. IInv => TypeOK
  BY DEF IInv
<1> QED
  BY <1>1, Invariance, PTL

\* run_turn and all its subagents together run at most Total + 1 iterations,
\* and ask their model nothing that one of these does not pay for: four requests
\* at most, the retry after an overflow and the summaries among them.
THEOREM RequestsAreCapped == Spec => []RequestCap
<1>1. IInv => RequestCap
  <2> SUFFICES ASSUME IInv PROVE RequestCap
    OBVIOUS
  <2>1. Due \in Nat /\ asked \in Nat /\ asked + Due <= 4 * Iterations
    BY RequestNumbers
  <2>2. Iterations \in 0 .. Total + 1 /\ Total \in Nat
    BY RequestNumbers, Numbers
  <2> QED
    BY <2>1, <2>2 DEF RequestCap, PerIteration
<1> QED
  BY <1>1, Invariance, PTL

\* delegate_task never nests deeper than the budget pays for.
THEOREM DelegationIsBounded == Spec => []DelegationDepth
<1>1. IInv => DelegationDepth
  BY Numbers DEF DelegationDepth
<1> QED
  BY <1>1, Invariance, PTL

\* The grace call is the last thing the model is asked in a turn.
THEOREM GraceIsFinal == Spec => []GraceIsLast
<1>1. IInv => GraceIsLast
  <2> SUFFICES ASSUME IInv, NEW d \in Frames, mode[d] = "grace"
               PROVE  d = depth /\ remaining = 0 /\ todo[d] = <<>>
    BY DEF GraceIsLast
  <2>1. remaining = 0
    BY DEF IInv, Books
  <2>2. d \in Nat /\ depth \in Nat /\ Frame(d)
    BY Numbers, FramesFact DEF IInv, Stack
  <2> QED
    BY <2>1, <2>2 DEF Frame
<1> QED
  BY <1>1, Invariance, PTL

\* After Ctrl+C the interrupted loop starts at most one more tool.
THEOREM InterruptIsPrompt == Spec => []OneLateTool
<1>1. IInv => OneLateTool
  BY DEF IInv, Late, OneLateTool
<1> QED
  BY <1>1, Invariance, PTL

-----------------------------------------------------------------------------
(* The abstract promise. *)

\* What a step of the agent is to its caller: nothing, one request the turn
\* could still afford, or the end of the turn.
LEMMA StepKinds ==
  ASSUME IInv, AgentStep
  PROVE  /\ depth > 0
         /\ \/ depth' > 0 /\ asked' = asked
            \/ depth' > 0 /\ asked' = asked + 1 /\ asked < RequestLimit
            \/ depth' = 0 /\ asked' = asked
<1> USE DEF budgetVars
<1>1. CASE Begin
  BY <1>1, Numbers DEF Begin, EndTurn
<1>2. CASE Interrupted \/ CostBlocks \/ ApprovalFails \/ FinishTurn
  BY <1>2, Numbers DEF Interrupted, CostBlocks, ApprovalFails, FinishTurn, EndTurn, Cancelled
<1>3. CASE Consume \/ TakeGrace
  BY <1>3, Numbers DEF Consume, TakeGrace, AtLoopHead
<1>4. CASE Exhausted \/ Delegate
  BY <1>4, Numbers DEF Exhausted, Delegate, AtLoopHead, AtCall
<1>9. CASE CostAllows \/ Summarised \/ Overflow
  <2>1. depth > 0 /\ depth' = depth /\ asked' = asked + 1 /\ Due >= 1
    BY <1>9 DEF CostAllows, Summarised, Overflow, MayRetry, Request, Due, DueAt
  <2>2. asked + Due <= RequestLimit /\ asked \in Nat /\ Due \in Nat
    BY RequestNumbers
  <2>3. RequestLimit \in Nat
    BY Numbers DEF RequestLimit, PerIteration
  <2>4. asked < RequestLimit
    BY <2>1, <2>2, <2>3
  <2> QED
    BY <2>1, <2>4
<1>5. ASSUME NEW c \in CallSeqs, NEW text \in {"none", "text"}, Reply(c, text)
      PROVE  depth > 0 /\ depth' > 0 /\ asked' = asked
  BY <1>5 DEF Reply
<1>6. ASSUME NEW d \in Frames, RecordResult(d) \/ TakeResult(d)
      PROVE  depth' > 0 \/ depth' = 0
  BY <1>6, FramesFact DEF RecordResult, TakeResult, EndTurn
<1>7. CASE Deny \/ RunTool
  BY <1>6, <1>7, Numbers DEF Deny, RunTool, AtCall
<1>8. CASE StreamFails \/ FinishSubagent
  <2>1. CASE depth > 1
    <3>1. RecordResult(depth - 1) /\ asked' = asked
      BY <1>8, <2>1 DEF StreamFails, Raise, FinishSubagent
    <3>2. depth' = depth - 1 \/ depth' = 0
      BY <3>1 DEF RecordResult, TakeResult, EndTurn
    <3> QED
      BY <2>1, <3>1, <3>2, Numbers
  <2>2. CASE depth = 1
    <3>1. StreamFails /\ EndTurn("failed", session[1])
      BY <1>8, <2>2 DEF StreamFails, Raise, FinishSubagent
    <3> QED
      BY <2>2, <3>1 DEF StreamFails, EndTurn
  <2>3. depth \in Nat /\ depth > 0
    BY <1>8, Numbers DEF StreamFails, FinishSubagent
  <2> QED
    BY <2>1, <2>2, <2>3
<1> QED
  BY <1>1, <1>2, <1>3, <1>4, <1>5, <1>7, <1>8, <1>9 DEF AgentStep

LEMMA ContractInit == Init => Contract!Init
BY TotalAssumption DEF Init, NoFrames, NoTurn, Contract!Init, RequestLimit, PerIteration

LEMMA ContractStep == IInv /\ [Next]_vars => [Contract!Next]_(Contract!vars)
<1> SUFFICES ASSUME IInv, [Next]_vars PROVE [Contract!Next]_(Contract!vars)
  OBVIOUS
<1> USE DEF Contract!Next, Contract!Start, Contract!Ask, Contract!Stop, Contract!vars
<1>0. depth \in Nat /\ asked \in Nat /\ RequestLimit \in Nat
  BY Numbers, RequestNumbers DEF RequestLimit, PerIteration
<1>1. CASE AgentStep
  <2>1. CASE depth' > 0 /\ asked' = asked
    BY <1>1, <2>1, StepKinds
  <2>2. CASE depth' > 0 /\ asked' = asked + 1 /\ asked < RequestLimit
    BY <1>0, <1>1, <2>2, StepKinds
  <2>3. CASE depth' = 0 /\ asked' = asked
    BY <1>1, <2>3, StepKinds
  <2> QED
    BY <1>1, <2>1, <2>2, <2>3, StepKinds
<1>2. CASE \E m \in Msgs : StartTurn(m)
  BY <1>0, <1>2 DEF StartTurn
<1>3. CASE CtrlC \/ Restart \/ OtherScan \/ CacheExpires \/ UNCHANGED vars
  BY <1>3 DEF CtrlC, Restart, OtherScan, CacheExpires, vars, frameVars, budgetVars
<1>4. CASE Crash
  BY <1>4 DEF Crash, EndTurn, budgetVars
<1> QED
  BY <1>1, <1>2, <1>3, <1>4 DEF Next

\* The agent implements the bounded turn: a step is a request the promise
\* allows, a start, an end, or invisible to the caller.
THEOREM ImplementsContract == Spec => Contract!Safe
BY ContractInit, ContractStep, Invariance, PTL DEF Spec, Contract!Safe

\* What bounds a turn holds together, for every budget and depth.
THEOREM TurnsAreBounded == Spec => []TurnIsBounded
<1>1. RequestCap /\ GraceIsLast /\ OneLateTool => TurnIsBounded
  BY DEF TurnIsBounded
<1> QED BY <1>1, RequestsAreCapped, GraceIsFinal, InterruptIsPrompt, PTL

-----------------------------------------------------------------------------
(* The stored history. *)

\* A tool row answers a call of the assistant row it names, in its place.
Answering(rows, i) ==
  rows[i].role = "tool" =>
    /\ rows[i].of \in 1 .. i - 1 /\ rows[i].nth = i - rows[i].of
    /\ rows[rows[i].of].role = "assistant"
    /\ rows[i].nth <= rows[rows[i].of].calls
Accepted(rows) == \A i \in DOMAIN rows : Answering(rows, i)

\* The calls still open are the last ones of the last assistant row, a, and all
\* that follows a are the results of the calls before them.
OpenFrom(rows, q, a) ==
  /\ a \in 1..Len(rows) /\ rows[a].role = "assistant"
  /\ Len(rows) - a + Len(q) = rows[a].calls
  /\ \A j \in 1..Len(q) : q[j].of = a /\ q[j].nth = Len(rows) - a + j
  /\ \A i \in a + 1 .. Len(rows) : rows[i].role = "tool" /\ rows[i].of = a
Open(rows, q) == q # <<>> => OpenFrom(rows, q, Head(q).of)

\* Row i has the results of all its calls, or is the one with the open calls.
AnsweredIn(rows, i) ==
  rows[i].calls > 0 =>
    /\ i + rows[i].calls <= Len(rows)
    /\ \A k \in 1..rows[i].calls : rows[i + k].role = "tool" /\ rows[i + k].of = i
Answers(rows, q) ==
  \A i \in DOMAIN rows :
    i > base => AnsweredIn(rows, i) \/ (q # <<>> /\ i = Head(q).of)

\* The rows of every frame, what is open in them, and what a returned turn has
\* answered. Only the root's grace call may leave calls without results.
HInv ==
  /\ \A d \in Frames : Accepted(session[d]) /\ Open(session[d], todo[d])
  /\ \A d \in Frames : mode[d] = "grace" => graceBy = d
  /\ depth > 0 => lastTurn = "running"
  /\ (depth > 0 \/ lastTurn = "returned") /\ graceBy # 1 => Answers(session[1], todo[1])
  /\ KilledUnansweredIsFlagged

LEMMA AppendFacts ==
  ASSUME NEW rows \in Seq(Row), NEW r \in Row
  PROVE  /\ Append(rows, r) \in Seq(Row) /\ Len(Append(rows, r)) = Len(rows) + 1
         /\ Len(rows) \in Nat /\ DOMAIN rows = 1..Len(rows)
         /\ DOMAIN Append(rows, r) = 1 .. Len(rows) + 1
         /\ \A i \in 1..Len(rows) : Append(rows, r)[i] = rows[i]
         /\ Append(rows, r)[Len(rows) + 1] = r
OBVIOUS

LEMMA RowType ==
  ASSUME NEW rows \in Seq(Row), NEW i \in 1..Len(rows)
  PROVE  rows[i] \in Row /\ rows[i].calls \in Nat /\ rows[i].of \in Nat /\ rows[i].nth \in Nat
<1>1. rows[i] \in Row
  OBVIOUS
<1>2. 0..MaxCalls \subseteq Nat
  BY BoundsAssumption
<1> QED
  BY <1>1, <1>2 DEF Row

LEMMA QueueFacts ==
  ASSUME NEW S, NEW q \in Seq(S), q # <<>>
  PROVE  /\ Len(q) \in Nat /\ Len(q) > 0 /\ Head(q) = q[1] /\ Head(q) \in S /\ Tail(q) \in Seq(S)
         /\ Len(Tail(q)) = Len(q) - 1 /\ \A j \in 1 .. Len(q) - 1 : Tail(q)[j] = q[j + 1]
         /\ Tail(q) = <<>> <=> Len(q) = 1
         /\ Tail(q) # <<>> => Head(Tail(q)) = q[2]
<1>1. Len(q) \in Nat /\ Len(q) > 0 /\ Head(q) = q[1] /\ Head(q) \in S /\ Tail(q) \in Seq(S)
  OBVIOUS
<1>2. Len(Tail(q)) = Len(q) - 1 /\ \A j \in 1 .. Len(q) - 1 : Tail(q)[j] = q[j + 1]
  OBVIOUS
<1>3. Tail(q) = <<>> <=> Len(q) = 1
  <2> DEFINE t == Tail(q)
  <2>1. t \in Seq(S)
    BY <1>1
  <2> HIDE DEF t
  <2>2. t = <<>> <=> Len(t) = 0
    BY <2>1
  <2> QED
    BY <1>1, <1>2, <2>2 DEF t
<1>4. Tail(q) # <<>> => Head(Tail(q)) = q[2]
  BY <1>1, <1>2, <1>3
<1> QED
  BY <1>1, <1>2, <1>3, <1>4

\* A row that is no result is accepted behind any others.
LEMMA AppendAccepted ==
  ASSUME NEW rows \in Seq(Row), NEW r \in Row, r.role # "tool", Accepted(rows)
  PROVE  Accepted(Append(rows, r))
<1> DEFINE new == Append(rows, r)
<1>1. /\ Len(rows) \in Nat /\ DOMAIN rows = 1..Len(rows) /\ DOMAIN new = 1 .. Len(rows) + 1
      /\ \A i \in 1..Len(rows) : new[i] = rows[i]
      /\ new[Len(rows) + 1] = r
  BY AppendFacts
<1> HIDE DEF new
<1>2. ASSUME NEW i \in 1..Len(rows) PROVE Answering(new, i)
  <2>1. Answering(rows, i)
    BY <1>1 DEF Accepted
  <2>2. rows[i].of \in 1 .. i - 1 => rows[i].of \in 1..Len(rows)
    BY <1>1
  <2> QED
    BY <1>1, <2>1, <2>2 DEF Answering
<1>3. Answering(new, Len(rows) + 1)
  BY <1>1 DEF Answering
<1> QED
  BY <1>1, <1>2, <1>3 DEF Accepted, new

\* A row appended behind leaves what is answered answered.
LEMMA StaysAnswered ==
  ASSUME NEW rows \in Seq(Row), NEW r \in Row, NEW i \in 1..Len(rows), AnsweredIn(rows, i)
  PROVE  AnsweredIn(Append(rows, r), i)
<1>1. \A k \in 1..rows[i].calls : i + rows[i].calls <= Len(rows) => i + k \in 1..Len(rows)
  BY RowType, AppendFacts
<1> QED
  BY <1>1, RowType, AppendFacts DEF AnsweredIn

\* The result of the first open call is accepted, and answers its row when it
\* was the last one.
LEMMA ResultAccepted ==
  ASSUME NEW rows \in Seq(Row), NEW q \in Seq(Call), q # <<>>, Accepted(rows), Open(rows, q),
         NEW new
  PROVE  new = Append(rows, ToolRow(Head(q))) =>
           /\ Accepted(new) /\ Open(new, Tail(q))
           /\ Tail(q) = <<>> => AnsweredIn(new, Head(q).of)
           /\ Tail(q) # <<>> => Head(Tail(q)).of = Head(q).of
<1>a. SUFFICES ASSUME new = Append(rows, ToolRow(Head(q)))
               PROVE  /\ Accepted(new) /\ Open(new, Tail(q))
                      /\ Tail(q) = <<>> => AnsweredIn(new, Head(q).of)
                      /\ Tail(q) # <<>> => Head(Tail(q)).of = Head(q).of
  OBVIOUS
<1> DEFINE a == Head(q).of
           n == Len(rows)
           m == Len(q)
           r == ToolRow(Head(q))
<1>0. OpenFrom(rows, q, a) /\ a \in 1..n
  BY DEF Open, OpenFrom
<1>1. /\ OpenFrom(rows, q, a) /\ a \in 1..n /\ n \in Nat /\ m \in Nat \ {0} /\ Head(q) = q[1] /\ Head(q) \in Call
      /\ Len(Tail(q)) = m - 1 /\ \A j \in 1 .. m - 1 : Tail(q)[j] = q[j + 1]
      /\ Tail(q) = <<>> <=> m = 1
      /\ Tail(q) # <<>> => Head(Tail(q)) = q[2]
  BY <1>0, QueueFacts, AppendFacts, RowFacts
<1>2. r \in Row /\ r.role = "tool" /\ r.of = a /\ r.nth = n - a + 1
  <2>1. r \in Row
    BY <1>1, RowFacts
  <2>2. q[1].nth = n - a + 1
    BY <1>1 DEF OpenFrom
  <2> QED
    BY <1>1, <2>1, <2>2 DEF ToolRow
<1>3. /\ Len(new) = n + 1 /\ DOMAIN rows = 1..n /\ DOMAIN new = 1 .. n + 1
      /\ \A i \in 1..n : new[i] = rows[i]
      /\ new[n + 1] = r
  BY <1>a, <1>2, AppendFacts
<1>4. rows[a].calls = n - a + m /\ rows[a].role = "assistant"
  BY <1>1 DEF OpenFrom
<1>5. \A j \in 1..m : q[j].of = a /\ q[j].nth = n - a + j
  BY <1>1 DEF OpenFrom
<1>6. \A i \in a + 1 .. n : rows[i].role = "tool" /\ rows[i].of = a
  BY <1>1 DEF OpenFrom
<1> HIDE DEF a, n, m, r
<1>7. Accepted(new)
  <2>1. ASSUME NEW i \in 1..n PROVE Answering(new, i)
    <3>1. Answering(rows, i)
      BY <1>3 DEF Accepted
    <3>2. rows[i].of \in 1 .. i - 1 => rows[i].of \in 1..n
      BY <1>1
    <3> QED
      BY <1>3, <3>1, <3>2 DEF Answering
  <2>2. Answering(new, n + 1)
    BY <1>1, <1>2, <1>3, <1>4 DEF Answering
  <2> QED
    BY <1>1, <1>3, <2>1, <2>2 DEF Accepted
<1>8. ASSUME NEW i \in a + 1 .. n + 1 PROVE new[i].role = "tool" /\ new[i].of = a
  <2>1. i = n + 1 \/ i \in a + 1 .. n
    BY <1>1
  <2>2. i \in a + 1 .. n => i \in 1..n
    BY <1>1
  <2> QED
    BY <1>2, <1>3, <1>6, <2>1, <2>2
<1>9. new[a].calls = n - a + m /\ new[a].role = "assistant" /\ n - a \in Nat
  BY <1>1, <1>3, <1>4
<1>10. ASSUME Tail(q) = <<>> PROVE AnsweredIn(new, a)
  <2>1. new[a].calls = n + 1 - a
    <3>1. a \in Nat /\ n \in Nat /\ m = 1 /\ new[a].calls = n - a + m
      BY <1>1, <1>9, <1>10
    <3> QED
      BY <3>1
  <2>2. \A k \in 1 .. n + 1 - a : a + k \in a + 1 .. n + 1
    BY <1>1
  <2>3. a + (n + 1 - a) <= Len(new)
    BY <1>1, <1>3
  <2> QED
    BY <1>8, <2>1, <2>2, <2>3 DEF AnsweredIn
<1>11. ASSUME Tail(q) # <<>> PROVE Head(Tail(q)).of = a /\ OpenFrom(new, Tail(q), a)
  <2>1. 2 \in 1..m /\ Head(Tail(q)).of = a
    <3>1. q \in Seq(Call) /\ Len(q) = m /\ m \in Nat \ {0}
      BY <1>1
    <3>2. m # 1 /\ Head(Tail(q)) = q[2]
      BY <1>11, <3>1
    <3>3. 2 \in 1..m
      BY <3>1, <3>2
    <3> QED
      BY <1>5, <3>2, <3>3
  <2>2. \A j \in 1 .. m - 1 : j + 1 \in 1..m /\ n - a + (j + 1) = (n + 1) - a + j
    BY <1>1
  <2>3. \A j \in 1 .. m - 1 : Tail(q)[j].of = a /\ Tail(q)[j].nth = (n + 1) - a + j
    BY <1>1, <1>5, <2>2
  <2>4. (n + 1) - a + (m - 1) = new[a].calls /\ a \in 1 .. n + 1
    <3>1. a \in Nat /\ n \in Nat /\ m \in Nat /\ 1 <= a /\ a <= n /\ new[a].calls = n - a + m
      BY <1>1, <1>9
    <3> QED
      BY <3>1
  <2> QED
    BY <1>1, <1>3, <1>8, <1>9, <2>1, <2>3, <2>4 DEF OpenFrom
<1> QED
  BY <1>7, <1>10, <1>11 DEF Open, a

\* The calls of a reply are open behind its row.
LEMMA CallsOpen ==
  ASSUME NEW rows \in Seq(Row), NEW c \in CallSeqs, c # <<>>
  PROVE  /\ Open(Append(rows, AssistantRow(Len(c))), CallsOf(Len(rows) + 1, c))
         /\ CallsOf(Len(rows) + 1, c) # <<>>
         /\ Head(CallsOf(Len(rows) + 1, c)).of = Len(rows) + 1
<1> DEFINE n == Len(rows)
           new == Append(rows, AssistantRow(Len(c)))
           q == CallsOf(n + 1, c)
<1>1. /\ n \in Nat /\ q \in Seq(Call) /\ Len(q) = Len(c) /\ Len(c) \in 0..MaxCalls
      /\ Len(new) = n + 1 /\ new[n + 1] = AssistantRow(Len(c))
  BY CallsOfFact, RowFacts, AppendFacts, BoundsAssumption
<1>2. PICK k \in 0..MaxCalls : c \in [1..k -> Kinds]
  BY DEF CallSeqs
<1>3. Len(c) = k /\ k \in Nat /\ k # 0
  BY <1>2, BoundsAssumption
<1>4. \A j \in 1..Len(c) : q[j] = [of |-> n + 1, nth |-> j, kind |-> c[j]]
  BY DEF CallsOf
<1> HIDE DEF new, q
<1>5. q # <<>> /\ Head(q) = q[1]
  BY <1>1, <1>3
<1>6. OpenFrom(new, q, n + 1)
  BY <1>1, <1>3, <1>4 DEF OpenFrom, AssistantRow
<1>7. Head(q).of = n + 1
  BY <1>1, <1>3, <1>4, <1>5
<1> QED
  BY <1>5, <1>6, <1>7 DEF Open, new, q

-----------------------------------------------------------------------------
\* A new session has no rows.
LEMMA InitHistory == Init => HInv
<1> SUFFICES ASSUME Init PROVE HInv
  OBVIOUS
<1>1. \A d \in Frames : session[d] = <<>> /\ todo[d] = <<>> /\ mode[d] = "normal"
  BY DEF Init, NoFrames
<1>2. \A d \in Frames : Accepted(session[d]) /\ Open(session[d], todo[d])
  BY <1>1 DEF Accepted, Open
<1>3. depth = 0 /\ lastTurn = "none"
  BY DEF Init, NoFrames, NoTurn
<1>4. KilledUnansweredIsFlagged
  BY <1>3 DEF KilledUnansweredIsFlagged
<1> QED
  BY <1>1, <1>2, <1>3, <1>4 DEF HInv

\* Leaving the root frame with rows that are accepted, and answered if it returns.
LEMMA EndTurnHistory ==
  ASSUME IInv, HInv, NEW how \in Endings \ {"running"}, NEW rows \in Seq(Row), EndTurn(how, rows),
         Accepted(rows),
         how = "returned" /\ graceBy' # 1 => \A i \in DOMAIN rows : i > base' => AnsweredIn(rows, i),
         how = "killed" => process' = "down"
  PROVE  HInv'
<1>1. /\ depth' = 0 /\ lastTurn' = how
      /\ \A d \in Frames : mode'[d] = "normal" /\ todo'[d] = <<>>
      /\ \A d \in Frames : session'[d] = IF d = 1 THEN rows ELSE <<>>
  BY DEF EndTurn
<1>2. \A d \in Frames : Accepted(session'[d]) /\ Open(session'[d], todo'[d])
  BY <1>1 DEF Accepted, Open
<1>3. how = "returned" /\ graceBy' # 1 => Answers(session[1], todo[1])'
  BY <1>1, FramesFact DEF Answers
<1>4. KilledUnansweredIsFlagged'
  BY <1>1 DEF KilledUnansweredIsFlagged
<1> QED
  BY <1>1, <1>2, <1>3, <1>4 DEF HInv

\* What the root frame leaves open it leaves at its tools or waiting.
LEMMA NothingOpen ==
  ASSUME IInv, NEW d \in Frames, d = depth, pc[d] # "tools"
  PROVE  todo[d] = <<>> /\ Open(session[d], todo[d])
BY DEF IInv, Stack, Frame, Open

\* Taking a result, which is of a frame that has calls open.
LEMMA TakeResultHistory ==
  ASSUME IInv, HInv, NEW d \in Frames, d \in {depth, depth - 1}, todo[d] # <<>>,
         TakeResult(d), UNCHANGED <<graceBy, base, process, status>>
  PROVE  HInv'
<1>1. d + 1 \in Frames /\ d \in Nat /\ d > 0 /\ depth > 0
  BY Numbers, FramesFact DEF Frames
<1> DEFINE new == WithResult(d)
           q == todo[d]
<1>2. /\ session[d] \in Seq(Row) /\ q \in Seq(Call)
      /\ Accepted(session[d]) /\ Open(session[d], q)
  BY DEF IInv, TypeOK, FrameTypes, HInv
<1>3. /\ Accepted(new) /\ Open(new, Tail(q))
      /\ Tail(q) = <<>> => AnsweredIn(new, Head(q).of)
      /\ Tail(q) # <<>> => Head(Tail(q)).of = Head(q).of
  BY <1>2, ResultAccepted DEF WithResult
<1>4. /\ DOMAIN session = Frames /\ DOMAIN todo = Frames /\ DOMAIN mode = Frames
  BY DEF IInv, TypeOK, FrameTypes
<1>5. /\ session'[d] = new /\ todo'[d] = Tail(q)
      /\ session'[d + 1] = <<>> /\ todo'[d + 1] = <<>> /\ mode'[d + 1] = "normal"
      /\ \A e \in Frames \ {d, d + 1} : session'[e] = session[e] /\ todo'[e] = todo[e]
      /\ \A e \in Frames \ {d + 1} : mode'[e] = mode[e]
  <2> HIDE DEF new, q
  <2>1. /\ session' = [session EXCEPT ![d] = new, ![d + 1] = <<>>]
        /\ todo' = [todo EXCEPT ![d] = Tail(q), ![d + 1] = <<>>]
        /\ mode' = [mode EXCEPT ![d + 1] = "normal"]
    BY DEF TakeResult, new, q
  <2> QED
    BY <1>1, <1>4, <2>1
<1>6. \A e \in Frames : Accepted(session'[e]) /\ Open(session'[e], todo'[e])
  <2>1. Accepted(<<>>) /\ Open(<<>>, <<>>)
    BY DEF Accepted, Open
  <2> HIDE DEF new, q
  <2> QED
    BY <1>3, <1>5, <2>1 DEF HInv
<1>7. \A e \in Frames : mode'[e] = "grace" => graceBy' = e
  BY <1>5 DEF HInv
<1>8. lastTurn = "running" /\ lastTurn' = "running"
  BY <1>1 DEF TakeResult, endVars, HInv
<1>9. graceBy # 1 => Answers(session[1], todo[1])'
  <2>1. CASE d # 1
    <3>1. session'[1] = session[1] /\ todo'[1] = todo[1]
      BY <1>1, <1>5, <2>1, FramesFact
    <3> QED
      BY <1>1, <3>1 DEF HInv, Answers
  <2>2. CASE d = 1
    <3> SUFFICES ASSUME graceBy # 1, NEW i \in DOMAIN new, i > base
                 PROVE  AnsweredIn(new, i) \/ (Tail(q) # <<>> /\ i = Head(Tail(q)).of)
      BY <1>5, <2>2 DEF Answers
    <3>1. Answers(session[d], q)
      BY <1>1, <2>2 DEF HInv
    <3>2. ToolRow(Head(q)) \in Row
      BY <1>2, QueueFacts, RowFacts
    <3>3. i \in 1..Len(session[d]) \/ i = Len(session[d]) + 1
      BY <1>2, <3>2, AppendFacts DEF WithResult
    <3>4. CASE i = Len(session[d]) + 1
      <4>1. new[i] = ToolRow(Head(q))
        BY <1>2, <3>2, <3>4, AppendFacts DEF WithResult
      <4> HIDE DEF new
      <4> QED
        BY <4>1 DEF AnsweredIn, ToolRow
    <3>5. CASE i \in 1..Len(session[d])
      <4>1. AnsweredIn(session[d], i) \/ i = Head(q).of
        BY <1>2, <3>1, <3>5, AppendFacts DEF Answers
      <4>2. AnsweredIn(session[d], i) => AnsweredIn(new, i)
        BY <1>2, <3>2, <3>5, StaysAnswered DEF WithResult
      <4> HIDE DEF new, q
      <4> QED
        BY <1>3, <4>1, <4>2
    <3> QED
      BY <3>3, <3>4, <3>5
  <2> QED
    BY <2>1, <2>2
<1>10. KilledUnansweredIsFlagged'
  BY <1>8 DEF KilledUnansweredIsFlagged
<1> QED
  BY <1>6, <1>7, <1>8, <1>9, <1>10 DEF HInv

\* Recording a result, with the check of the token behind it.
LEMMA RecordResultHistory ==
  ASSUME IInv, HInv, NEW d \in Frames, d \in {depth, depth - 1}, todo[d] # <<>>,
         RecordResult(d), UNCHANGED <<graceBy, base, process, status>>
  PROVE  HInv'
<1>1. CASE Cancelled(d)
  <2>1. EndTurn("interrupted", WithResult(1)) /\ d = 1
    BY <1>1 DEF RecordResult, Cancelled
  <2>2. session[1] \in Seq(Row) /\ todo[1] \in Seq(Call) /\ Accepted(session[1]) /\ Open(session[1], todo[1])
    BY <2>1 DEF IInv, TypeOK, FrameTypes, HInv
  <2>3. Accepted(WithResult(1)) /\ WithResult(1) \in Seq(Row)
    BY <2>1, <2>2, ResultAccepted, WithResultType DEF WithResult
  <2> QED
    BY <2>1, <2>3, EndTurnHistory DEF Endings
<1>2. CASE ~Cancelled(d)
  BY <1>2, TakeResultHistory DEF RecordResult
<1> QED
  BY <1>1, <1>2

\* Steps that leave the rows and the calls alone.
LEMMA RowsAlone ==
  ASSUME HInv, UNCHANGED <<session, todo, graceBy, base>>, lastTurn' = lastTurn,
         \A d \in Frames : mode'[d] = "grace" => mode[d] = "grace",
         depth' > 0 => depth > 0,
         UNCHANGED <<process, status>> \/ status' = Scanned,
         IInv
  PROVE  HInv'
<1>1. KilledUnansweredIsFlagged'
  <2>1. CASE UNCHANGED <<process, status>>
    BY <2>1 DEF HInv, KilledUnansweredIsFlagged, TurnRows
  <2>2. CASE status' = Scanned
    <3> SUFFICES ASSUME TurnRows # {}, \A i \in TurnRows : session[1][i].role = "user",
                        status # "aborted"
                 PROVE  Scanned = "aborted"
      BY <2>2 DEF KilledUnansweredIsFlagged, TurnRows, Scanned
    <3>1. session[1] \in Seq(Row) /\ base \in Nat /\ status = "active"
      BY FramesFact DEF IInv, TypeOK, FrameTypes, ProcessTypes
    <3>2. PICK i \in DOMAIN session[1] : i > base
      BY DEF TurnRows
    <3>3. Len(session[1]) \in DOMAIN session[1] /\ Len(session[1]) > base /\ session[1] # <<>>
      BY <3>1, <3>2
    <3> QED
      BY <3>1, <3>3 DEF Scanned, TurnRows
  <2> QED
    BY <2>1, <2>2
<1> QED
  BY <1>1 DEF HInv, Answers

\* The top frame, with no call open, stores a row that is no result.
LEMMA AppendHistory ==
  ASSUME IInv, HInv, depth > 0, depth' = depth, todo[depth] = <<>>,
         NEW r \in Row, r.role # "tool",
         session' = [session EXCEPT ![depth] = Append(session[depth], r)],
         NEW q, todo' = [todo EXCEPT ![depth] = q], Open(Append(session[depth], r), q),
         r.calls > 0 /\ depth = 1 /\ graceBy' # 1 => q # <<>> /\ Head(q).of = Len(session[depth]) + 1,
         graceBy' # 1 => graceBy # 1,
         \A d \in Frames : mode'[d] = "grace" => graceBy' = d,
         UNCHANGED <<lastTurn, base>>
  PROVE  HInv'
<1> DEFINE new == Append(session[depth], r)
<1>1. depth \in Frames /\ session[depth] \in Seq(Row) /\ DOMAIN session = Frames /\ DOMAIN todo = Frames
  BY Numbers DEF IInv, TypeOK, FrameTypes
<1>2. /\ session'[depth] = new /\ todo'[depth] = q
      /\ \A e \in Frames \ {depth} : session'[e] = session[e] /\ todo'[e] = todo[e]
  BY <1>1
<1>3. Accepted(new)
  BY <1>1, AppendAccepted DEF HInv
<1>4. \A e \in Frames : Accepted(session'[e]) /\ Open(session'[e], todo'[e])
  <2> HIDE DEF new
  <2> QED
    BY <1>1, <1>2, <1>3 DEF HInv, new
<1>5. lastTurn = "running" /\ lastTurn' = "running"
  BY DEF HInv
<1>6. graceBy' # 1 => Answers(session[1], todo[1])'
  <2>1. CASE depth # 1
    BY <1>2, <2>1, FramesFact DEF HInv, Answers
  <2>2. CASE depth = 1
    <3> SUFFICES ASSUME graceBy' # 1, NEW i \in DOMAIN new, i > base
                 PROVE  AnsweredIn(new, i) \/ (q # <<>> /\ i = Head(q).of)
      BY <1>2, <2>2 DEF Answers
    <3>1. Answers(session[depth], <<>>)
      BY <2>2 DEF HInv
    <3>2. i \in 1..Len(session[depth]) \/ i = Len(session[depth]) + 1
      BY <1>1, AppendFacts
    <3>3. CASE i = Len(session[depth]) + 1
      <4>1. new[i] = r
        BY <1>1, <3>3, AppendFacts
      <4> HIDE DEF new
      <4> QED
        BY <2>2, <3>3, <4>1 DEF AnsweredIn
    <3>4. CASE i \in 1..Len(session[depth])
      <4>1. AnsweredIn(session[depth], i)
        BY <1>1, <3>1, <3>4, AppendFacts DEF Answers
      <4> QED
        BY <1>1, <3>4, <4>1, StaysAnswered
    <3> QED
      BY <3>2, <3>3, <3>4
  <2> QED
    BY <2>1, <2>2
<1>7. KilledUnansweredIsFlagged'
  BY <1>5 DEF KilledUnansweredIsFlagged
<1> QED
  BY <1>4, <1>5, <1>6, <1>7 DEF HInv

-----------------------------------------------------------------------------
\* One lemma per action, or per kind of action.
LEMMA BeginHistory == IInv /\ HInv /\ Begin => HInv'
<1> SUFFICES ASSUME IInv, HInv, Begin PROVE HInv'
  OBVIOUS
<1> DEFINE rows == Append(session[depth], UserRow)
<1>1. /\ depth > 0 /\ depth \in Frames /\ todo[depth] = <<>> /\ session[depth] \in Seq(Row)
      /\ UserRow \in Row /\ UserRow.role # "tool" /\ ~(UserRow.calls > 0)
  <2>1. depth > 0 /\ depth \in Frames /\ pc[depth] # "tools"
    BY Numbers DEF Begin
  <2>2. todo[depth] = <<>>
    BY <2>1, NothingOpen
  <2>3. session[depth] \in Seq(Row)
    BY <2>1 DEF IInv, TypeOK, FrameTypes
  <2> QED
    BY <2>1, <2>2, <2>3, RowFacts DEF UserRow
<1>2. Accepted(rows) /\ rows \in Seq(Row)
  BY <1>1, AppendAccepted DEF HInv
<1>3. CASE depth = 1 /\ EndTurn("cached", rows)
  BY <1>2, <1>3, EndTurnHistory DEF Endings
<1>4. CASE /\ session' = [session EXCEPT ![depth] = rows]
           /\ UNCHANGED <<depth, mode, todo, final, endVars>>
  <2>1. todo' = [todo EXCEPT ![depth] = <<>>] /\ Open(rows, <<>>)
    BY <1>1, <1>4 DEF IInv, TypeOK, FrameTypes, Open
  <2>2. UNCHANGED <<lastTurn, base, graceBy>>
    BY <1>4 DEF Begin, endVars, budgetVars, processVars
  <2>3. \A d \in Frames : mode'[d] = "grace" => graceBy' = d
    BY <1>4, <2>2 DEF HInv
  <2> QED
    BY <1>1, <1>4, <2>1, <2>2, <2>3, AppendHistory, Zenon
<1> QED
  BY <1>3, <1>4 DEF Begin

LEMMA TakeGraceHistory == IInv /\ HInv /\ TakeGrace => HInv'
<1> SUFFICES ASSUME IInv, HInv, TakeGrace PROVE HInv'
  OBVIOUS
<1>1. /\ depth > 0 /\ depth \in Frames /\ todo[depth] = <<>> /\ session[depth] \in Seq(Row)
      /\ UserRow \in Row /\ UserRow.role # "tool" /\ ~(UserRow.calls > 0)
  <2>1. depth > 0 /\ depth \in Frames /\ pc[depth] = "iterate"
    BY Numbers DEF TakeGrace, AtLoopHead
  <2>2. todo[depth] = <<>>
    BY <2>1, NothingOpen
  <2>3. session[depth] \in Seq(Row)
    BY <2>1 DEF IInv, TypeOK, FrameTypes
  <2> QED
    BY <2>1, <2>2, <2>3, RowFacts DEF UserRow
<1>2. todo' = [todo EXCEPT ![depth] = <<>>] /\ Open(Append(session[depth], UserRow), <<>>)
  BY <1>1 DEF TakeGrace, IInv, TypeOK, FrameTypes, Open
<1>3. UNCHANGED <<lastTurn, base, depth>> /\ graceBy' = depth /\ graceBy = 0
  BY DEF TakeGrace, CanRequestGrace, endVars, processVars
<1>4. \A d \in Frames : mode'[d] = "grace" => graceBy' = d
  <2>1. \A d \in Frames : mode[d] # "grace"
    BY <1>3 DEF IInv, Books
  <2> QED
    BY <1>3, <2>1 DEF TakeGrace
<1>5. session' = [session EXCEPT ![depth] = Append(session[depth], UserRow)]
  BY DEF TakeGrace
<1>6. graceBy' # 1 => graceBy # 1
  BY <1>3
<1> QED
  BY <1>1, <1>2, <1>3, <1>4, <1>5, <1>6, AppendHistory, Zenon

LEMMA ReplyHistory ==
  ASSUME IInv, HInv, NEW c \in CallSeqs, NEW text \in {"none", "text"}, Reply(c, text)
  PROVE  HInv'
<1>1. /\ depth > 0 /\ depth \in Frames /\ todo[depth] = <<>> /\ session[depth] \in Seq(Row)
      /\ UNCHANGED <<lastTurn, base, depth, graceBy, mode>>
  BY Numbers, NothingOpen DEF Reply, IInv, TypeOK, FrameTypes, endVars, processVars, budgetVars
<1> DEFINE r == AssistantRow(Len(c))
<1>2. r \in Row /\ r.role = "assistant" /\ r.calls = Len(c) /\ Len(c) \in Nat
  BY CallsOfFact, RowFacts, BoundsAssumption DEF AssistantRow
<1>3. session' = [session EXCEPT ![depth] = Append(session[depth], r)]
  BY DEF Reply
<1>4. \A d \in Frames : mode'[d] = "grace" => graceBy' = d
  BY <1>1 DEF HInv
<1>5. CASE EndsLoop(c)
  <2>1. todo' = [todo EXCEPT ![depth] = <<>>] /\ Open(Append(session[depth], r), <<>>)
    BY <1>1, <1>5 DEF Reply, IInv, TypeOK, FrameTypes, Open
  <2>2. c = <<>> => Len(c) = 0
    OBVIOUS
  <2>3. r.calls > 0 => graceBy = depth
    BY <1>1, <1>2, <1>5, <2>2 DEF EndsLoop, HInv
  <2> HIDE DEF r
  <2> QED
    BY <1>1, <1>2, <1>3, <1>4, <2>1, <2>3, AppendHistory
<1>6. CASE ~EndsLoop(c)
  <2> DEFINE q == CallsOf(Len(session[depth]) + 1, c)
  <2>1. todo' = [todo EXCEPT ![depth] = q] /\ c # <<>>
    BY <1>6 DEF Reply, EndsLoop
  <2>2. Open(Append(session[depth], r), q) /\ q # <<>> /\ Head(q).of = Len(session[depth]) + 1
    BY <1>1, <2>1, CallsOpen
  <2> HIDE DEF q, r
  <2> QED
    BY <1>1, <1>2, <1>3, <1>4, <2>1, <2>2, AppendHistory
<1> QED
  BY <1>5, <1>6

\* A turn that is stopped leaves the rows it had committed.
LEMMA FailureHistory ==
  ASSUME IInv, HInv, NEW how \in {"interrupted", "blocked", "failed", "killed"},
         EndTurn(how, session[1]), how = "killed" => process' = "down"
  PROVE  HInv'
<1>1. session[1] \in Seq(Row) /\ Accepted(session[1])
  BY FramesFact DEF IInv, TypeOK, FrameTypes, HInv
<1> QED
  BY <1>1, EndTurnHistory DEF Endings

LEMMA StreamFailsHistory == IInv /\ HInv /\ StreamFails => HInv'
<1> SUFFICES ASSUME IInv, HInv, StreamFails PROVE HInv'
  OBVIOUS
<1>1. UNCHANGED <<graceBy, base, process, status>>
  BY DEF StreamFails, budgetVars, processVars
<1>2. CASE EndTurn("failed", session[1])
  BY <1>2, FailureHistory
<1>3. CASE depth > 1 /\ RecordResult(depth - 1)
  BY <1>1, <1>3, WaitingFrame, RecordResultHistory
<1> QED
  BY <1>2, <1>3 DEF StreamFails, Raise

LEMMA ResultHistory == IInv /\ HInv /\ (Deny \/ RunTool \/ FinishSubagent) => HInv'
<1> SUFFICES ASSUME IInv, HInv, Deny \/ RunTool \/ FinishSubagent PROVE HInv'
  OBVIOUS
<1>1. UNCHANGED <<graceBy, base, process, status>>
  BY DEF Deny, RunTool, FinishSubagent, budgetVars, processVars
<1>2. pc[depth] = "tools" /\ depth > 0 => depth \in Frames /\ todo[depth] # <<>>
  BY Numbers DEF IInv, Stack, Frame
<1>3. CASE Deny
  BY <1>1, <1>2, <1>3, TakeResultHistory DEF Deny, AtCall
<1>4. CASE RunTool
  BY <1>1, <1>2, <1>4, RecordResultHistory DEF RunTool, AtCall
<1>5. CASE FinishSubagent
  BY <1>1, <1>5, WaitingFrame, RecordResultHistory DEF FinishSubagent
<1> QED
  BY <1>3, <1>4, <1>5

LEMMA FinishTurnHistory == IInv /\ HInv /\ FinishTurn => HInv'
<1> SUFFICES ASSUME IInv, HInv, FinishTurn PROVE HInv'
  OBVIOUS
<1>1. /\ session[1] \in Seq(Row) /\ Accepted(session[1]) /\ todo[1] = <<>> /\ depth > 0
      /\ EndTurn("returned", session[1]) /\ UNCHANGED <<graceBy, base>>
  BY FramesFact, NothingOpen DEF FinishTurn, IInv, TypeOK, FrameTypes, HInv, budgetVars, processVars
<1>2. graceBy # 1 => \A i \in DOMAIN session[1] : i > base => AnsweredIn(session[1], i)
  BY <1>1 DEF HInv, Answers
<1> QED
  BY <1>1, <1>2, EndTurnHistory DEF Endings

LEMMA StartTurnHistory ==
  ASSUME IInv, HInv, NEW m \in Msgs, StartTurn(m)
  PROVE  HInv'
<1>1. /\ UNCHANGED <<session, todo, mode>> /\ depth' = 1 /\ depth = 0 /\ lastTurn' = "running"
      /\ base' = Len(session[1]) /\ session[1] \in Seq(Row)
  BY FramesFact DEF StartTurn, IInv, TypeOK, FrameTypes
<1>2. ASSUME NEW d \in Frames PROVE mode[d] = "normal"
  <2>1. d > depth /\ Frame(d)
    BY <1>1, FramesFact DEF IInv, Stack
  <2> QED
    BY <2>1 DEF Frame
<1>3. \A i \in DOMAIN session[1] : ~(i > base')
  BY <1>1
<1>4. KilledUnansweredIsFlagged'
  BY <1>1 DEF KilledUnansweredIsFlagged
<1> QED
  BY <1>1, <1>2, <1>3, <1>4 DEF HInv, Answers

LEMMA HistoryStep == IInv /\ HInv /\ [Next]_vars => HInv'
<1> SUFFICES ASSUME IInv, HInv, [Next]_vars PROVE HInv'
  OBVIOUS
<1>1. CASE Interrupted \/ CostBlocks \/ ApprovalFails
  BY <1>1, FailureHistory DEF Interrupted, CostBlocks, ApprovalFails
<1>2. CASE Crash
  BY <1>2, FailureHistory DEF Crash
<1>3. CASE Consume \/ Exhausted \/ CostAllows \/ Summarised \/ Overflow \/ Delegate
  BY <1>3, RowsAlone DEF Consume, Exhausted, CostAllows, Summarised, Overflow, MayRetry, Request,
                         Delegate, AtLoopHead, AtCall,
                         processVars, endVars, budgetVars
<1>4. CASE CtrlC \/ Restart \/ OtherScan \/ CacheExpires \/ UNCHANGED vars
  BY <1>4, RowsAlone DEF CtrlC, Restart, OtherScan, CacheExpires, vars, frameVars, processVars, endVars, budgetVars
<1>5. CASE AgentStep
  BY <1>1, <1>3, <1>5, BeginHistory, TakeGraceHistory, StreamFailsHistory, ReplyHistory,
     ResultHistory, FinishTurnHistory
  DEF AgentStep
<1>6. CASE \E m \in Msgs : StartTurn(m)
  BY <1>6, StartTurnHistory
<1> QED
  BY <1>2, <1>4, <1>5, <1>6 DEF Next

\* What is stored stays a history that a provider accepts, a turn that returned
\* has answered its calls, and one killed before a reply is flagged: through
\* denials, exceptions, subagents, aborted turns, crashes, restarts and scans.
THEOREM HistoryIsSound == Spec => []StoredHistoryIsSound
<1>1. HInv => ResultsAnswerCalls
  BY DEF HInv, Accepted, Answering, ResultsAnswerCalls
<1>2. IInv /\ HInv => ReturnedTurnsAnswerCalls
  <2> SUFFICES ASSUME IInv, HInv, lastTurn = "returned", graceBy # 1, NEW i \in TurnRows
               PROVE  Answered(i)
    BY DEF ReturnedTurnsAnswerCalls
  <2>1. depth = 0
    BY Numbers DEF HInv
  <2>2. todo[1] = <<>>
    BY <2>1, FramesFact DEF IInv, Stack, Frame
  <2> QED
    BY <2>2 DEF HInv, Answers, AnsweredIn, Answered, TurnRows
<1>3. IInv /\ HInv => StoredHistoryIsSound
  BY <1>1, <1>2 DEF HInv, StoredHistoryIsSound, StoredHistoryIsAccepted
<1> QED
  BY <1>3, InitHistory, HistoryStep, Invariance, PTL DEF Spec
-----------------------------------------------------------------------------
(* Sums over finite sets, made one element after the other.                   *)

(* A set of numbers has a least one.                                          *)
LEMMA LeastNumber ==
  ASSUME NEW S \in SUBSET Nat, S # {}
  PROVE  \E m \in S : \A y \in S : m <= y
<1>1. PICK m \in S : \A y \in S : ~(<<y, m>> \in OpToRel(<, Nat))
  BY NatLessThanWellFounded, WFMin
<1>2. \A y \in S : ~(y < m)
  BY <1>1 DEF OpToRel
<1> QED
  BY <1>2

(* What holds at first and is kept from each number to the next holds up to n.*)
LEMMA StepByStep ==
  ASSUME NEW n \in Nat, NEW S, 0 \in S, \A k \in 0..n : k \in S /\ k + 1 <= n => k + 1 \in S
  PROVE  0..n \subseteq S
<1> SUFFICES ASSUME (0..n) \ S # {} PROVE FALSE
  OBVIOUS
<1>1. PICK m \in (0..n) \ S : \A y \in (0..n) \ S : m <= y
  <2>1. (0..n) \ S \in SUBSET Nat
    OBVIOUS
  <2> QED
    BY <2>1, LeastNumber
<1>2. m # 0 /\ m \in 0..n /\ m - 1 \in 0..n
  BY <1>1
<1>3. m - 1 \in S
  BY <1>1, <1>2
<1> QED
  BY <1>1, <1>2, <1>3

(* Taking an element out of a finite set leaves one element less.             *)
LEMMA OneLess ==
  ASSUME NEW T, IsFiniteSet(T), NEW x \in T
  PROVE  /\ IsFiniteSet(T \ {x}) /\ Cardinality(T \ {x}) = Cardinality(T) - 1
         /\ Cardinality(T) \in Nat \ {0} /\ T = (T \ {x}) \cup {x}
<1>1. T # {} /\ Cardinality(T) \in Nat
  BY FS_CardinalityType
<1> QED
  BY <1>1, FS_RemoveElement, FS_EmptySet

(* A family of sets that has the empty one and, with a set, each set of one   *)
(* element more has every finite set.                                         *)
LEMMA Gathers ==
  ASSUME NEW S, IsFiniteSet(S), NEW F, {} \in F,
         \A T \in SUBSET S, x \in S : T \in F /\ x \notin T => T \cup {x} \in F
  PROVE  S \in F
<1> DEFINE K == {k \in Nat : \A T \in SUBSET S : Cardinality(T) = k => T \in F}
<1>1. Cardinality(S) \in Nat /\ \A T \in SUBSET S : IsFiniteSet(T)
  BY FS_CardinalityType, FS_Subset
<1>2. 0 \in K
  BY <1>1, FS_EmptySet
<1>3. ASSUME NEW k \in 0..Cardinality(S), k \in K, k + 1 <= Cardinality(S)
      PROVE  k + 1 \in K
  <2>1. ASSUME NEW T \in SUBSET S, Cardinality(T) = k + 1 PROVE T \in F
    <3>1. T # {}
      BY <1>3, <2>1, FS_EmptySet
    <3>2. PICK x \in T : TRUE
      BY <3>1
    <3>3. Cardinality(T \ {x}) = k /\ T \ {x} \in SUBSET S /\ T = (T \ {x}) \cup {x}
      BY <1>1, <2>1, <3>2, OneLess
    <3>4. T \ {x} \in F
      BY <1>3, <3>3
    <3> QED
      BY <3>2, <3>3, <3>4
  <2> QED
    BY <2>1
<1>4. 0..Cardinality(S) \subseteq K
  <2> HIDE DEF K
  <2> QED
    BY <1>1, <1>2, <1>3, StepByStep
<1> QED
  BY <1>1, <1>4

(* A function that follows a sum over the sets of indices: each set's value   *)
(* is made from that of the set without the element that is taken first.      *)
Taken(s) == CHOOSE x \in s : TRUE
Follows(h, f, S) ==
  \A s \in SUBSET S : h[s] = IF s = {} THEN 0 ELSE f[Taken(s)] + h[s \ {Taken(s)}]

LEMMA TakenIs ==
  ASSUME NEW s, s # {}
  PROVE  Taken(s) \in s
BY DEF Taken

LEMMA SumIsThere ==
  ASSUME NEW S, IsFiniteSet(S), NEW f, \A x \in S : f[x] \in Int
  PROVE  \E h \in [SUBSET S -> Int] : Follows(h, f, S)
<1> DEFINE body(h, s) == IF s = {} THEN 0 ELSE f[Taken(s)] + h[s \ {Taken(s)}]
           Good(h, k) == \A s \in SUBSET S : Cardinality(s) <= k => h[s] = body(h, s)
           K == {k \in Nat : \E h \in [SUBSET S -> Int] : Good(h, k)}
<1>1. Cardinality(S) \in Nat
      /\ \A s \in SUBSET S : IsFiniteSet(s) /\ Cardinality(s) \in Nat /\ Cardinality(s) <= Cardinality(S)
  BY FS_CardinalityType, FS_Subset
<1>2. 0 \in K
  <2>1. PICK h : h = [s \in SUBSET S |-> 0]
    OBVIOUS
  <2>2. ASSUME NEW s \in SUBSET S, Cardinality(s) <= 0 PROVE h[s] = body(h, s)
    <3>1. s = {}
      BY <1>1, <2>2, FS_EmptySet
    <3> QED
      BY <2>1, <3>1
  <2>3. h \in [SUBSET S -> Int]
    BY <2>1
  <2>4. Good(h, 0)
    <3> HIDE DEF body
    <3> QED
      BY <2>2
  <2> HIDE DEF Good
  <2> QED
    BY <2>3, <2>4
<1>3. ASSUME NEW k \in 0..Cardinality(S), k \in K, k + 1 <= Cardinality(S)
      PROVE  k + 1 \in K
  <2>1. PICK h \in [SUBSET S -> Int] : Good(h, k)
    BY <1>3
  <2>2. PICK g : g = [s \in SUBSET S |-> body(h, s)]
    OBVIOUS
  <2>3. ASSUME NEW s \in SUBSET S, s # {}
        PROVE  /\ Taken(s) \in S /\ s \ {Taken(s)} \in SUBSET S
               /\ Cardinality(s \ {Taken(s)}) = Cardinality(s) - 1
    BY <1>1, <2>3, TakenIs, OneLess
  <2>4. g \in [SUBSET S -> Int]
    <3>1. ASSUME NEW s \in SUBSET S PROVE body(h, s) \in Int
      <4>1. CASE s = {}
        BY <4>1
      <4>2. CASE s # {}
        <5>1. f[Taken(s)] \in Int /\ h[s \ {Taken(s)}] \in Int
          BY <2>1, <2>3, <4>2
        <5> QED
          BY <4>2, <5>1
      <4> QED
        BY <4>1, <4>2
    <3> HIDE DEF body
    <3> QED
      BY <2>2, <3>1
  <2>5. ASSUME NEW s \in SUBSET S, Cardinality(s) <= k + 1 PROVE g[s] = body(g, s)
    <3>1. CASE s = {}
      BY <2>2, <3>1
    <3>2. CASE s # {}
      <4>1. PICK t \in SUBSET S : t = s \ {Taken(s)} /\ Cardinality(t) <= k
        <5>1. Cardinality(s \ {Taken(s)}) = Cardinality(s) - 1 /\ s \ {Taken(s)} \in SUBSET S
          BY <2>3, <3>2
        <5>2. Cardinality(s) \in Nat /\ k \in Nat
          BY <1>1
        <5> QED
          BY <2>5, <5>1, <5>2
      <4>2. h[t] = body(h, t)
        BY <2>1, <4>1
      <4>3. g[t] = h[t]
        <5> HIDE DEF body
        <5> QED
          BY <2>2, <4>2
      <4>4. g[s] = f[Taken(s)] + h[t]
        BY <2>2, <3>2, <4>1
      <4> QED
        BY <3>2, <4>1, <4>3, <4>4
    <3> QED
      BY <3>1, <3>2
  <2>6. Good(g, k + 1)
    BY <2>5
  <2>7. k + 1 \in Nat
    BY <1>3
  <2> HIDE DEF Good
  <2> QED
    BY <2>4, <2>6, <2>7
<1>4. Cardinality(S) \in K
  <2>1. 0..Cardinality(S) \subseteq K
    <3> HIDE DEF K
    <3> QED
      BY <1>1, <1>2, <1>3, StepByStep
  <2> HIDE DEF K
  <2> QED
    BY <1>1, <2>1
<1>5. PICK h \in [SUBSET S -> Int] : Good(h, Cardinality(S))
  BY <1>4
<1> QED
  BY <1>1, <1>5 DEF Follows

(* There is only one.                                                         *)
LEMMA SumIsUnique ==
  ASSUME NEW S, IsFiniteSet(S), NEW f, NEW g, NEW h, Follows(g, f, S), Follows(h, f, S)
  PROVE  g[S] = h[S]
<1> DEFINE K == {k \in Nat : \A s \in SUBSET S : Cardinality(s) = k => g[s] = h[s]}
<1>1. Cardinality(S) \in Nat /\ \A s \in SUBSET S : IsFiniteSet(s)
  BY FS_CardinalityType, FS_Subset
<1>2. 0 \in K
  <2>1. g[{}] = 0 /\ h[{}] = 0
    BY DEF Follows
  <2> QED
    BY <1>1, <2>1, FS_EmptySet
<1>3. ASSUME NEW k \in 0..Cardinality(S), k \in K, k + 1 <= Cardinality(S)
      PROVE  k + 1 \in K
  <2>1. ASSUME NEW s \in SUBSET S, Cardinality(s) = k + 1 PROVE g[s] = h[s]
    <3>1. s # {}
      BY <1>3, <2>1, FS_EmptySet
    <3>2. s \ {Taken(s)} \in SUBSET S /\ Cardinality(s \ {Taken(s)}) = k
      <4>1. Cardinality(s \ {Taken(s)}) = Cardinality(s) - 1
        BY <1>1, <3>1, TakenIs, OneLess
      <4> QED
        BY <1>3, <2>1, <4>1
    <3>3. g[s \ {Taken(s)}] = h[s \ {Taken(s)}]
      BY <1>3, <3>2
    <3> QED
      BY <3>1, <3>3 DEF Follows
  <2> QED
    BY <2>1
<1>4. 0..Cardinality(S) \subseteq K
  <2> HIDE DEF K
  <2> QED
    BY <1>1, <1>2, <1>3, StepByStep
<1> QED
  BY <1>1, <1>4

(* The library's sum is such a function's value.                              *)
LEMMA SumFollows ==
  ASSUME NEW S, IsFiniteSet(S), NEW f, NEW h, Follows(h, f, S)
  PROVE  SumFunctionOnSet(f, S) = h[S]
<1> DEFINE body(F, s) == IF s = {} THEN 0 ELSE f[Taken(s)] + F[s \ {Taken(s)}]
           Is(F) == F = [s \in SUBSET S |-> body(F, s)]
<1>1. PICK r : r = [s \in SUBSET S |-> h[s]]
  OBVIOUS
<1>2. ASSUME NEW s \in SUBSET S PROVE r[s] = body(r, s)
  <2>1. h[s] = body(h, s)
    BY DEF Follows
  <2>2. s \ {Taken(s)} \in SUBSET S
    OBVIOUS
  <2> QED
    BY <1>1, <2>1, <2>2
<1>3. Is(r)
  <2> HIDE DEF body
  <2>1. r = [s \in SUBSET S |-> r[s]]
    BY <1>1
  <2> QED
    BY <1>2, <2>1
<1>4. Is(CHOOSE F : Is(F))
  BY <1>3, Zenon
<1> DEFINE g == CHOOSE F : Is(F)
<1>5. SumFunctionOnSet(f, S) = g[S]
  BY Zenon DEF SumFunctionOnSet, FoldFunctionOnSet, MapThenFoldSet, Taken
<1>6. \A s \in SUBSET S : g[s] = body(g, s)
  <2> HIDE DEF body
  <2> QED
    BY <1>4, Zenon
<1> HIDE DEF g
<1>7. Follows(g, f, S)
  BY <1>6 DEF Follows
<1> QED
  BY <1>5, <1>7, SumIsUnique

(* The sum over a set is any element's value and the sum over the others.     *)
Sums(f, S) ==
  /\ SumFunctionOnSet(f, {}) = 0
  /\ \A T \in SUBSET S :
       /\ SumFunctionOnSet(f, T) \in Int
       /\ \A x \in T : SumFunctionOnSet(f, T) = f[x] + SumFunctionOnSet(f, T \ {x})

LEMMA SumsAre ==
  ASSUME NEW S, IsFiniteSet(S), NEW f, \A x \in S : f[x] \in Int
  PROVE  Sums(f, S)
<1>1. PICK h \in [SUBSET S -> Int] : Follows(h, f, S)
  BY SumIsThere
<1>2. Cardinality(S) \in Nat /\ \A T \in SUBSET S : IsFiniteSet(T)
  BY FS_CardinalityType, FS_Subset
<1>3. ASSUME NEW T \in SUBSET S PROVE SumFunctionOnSet(f, T) = h[T]
  <2>1. Follows(h, f, T)
    BY <1>1 DEF Follows
  <2> QED
    BY <1>2, <2>1, SumFollows
<1>4. h[{}] = 0
  BY <1>1 DEF Follows
<1> DEFINE K == {k \in Nat : \A T \in SUBSET S : Cardinality(T) = k =>
                               \A x \in T : h[T] = f[x] + h[T \ {x}]}
<1>5. 0 \in K
  BY <1>2, FS_EmptySet
<1>6. ASSUME NEW k \in 0..Cardinality(S), k \in K, k + 1 <= Cardinality(S)
      PROVE  k + 1 \in K
  <2>1. ASSUME NEW T \in SUBSET S, Cardinality(T) = k + 1, NEW x \in T
        PROVE  h[T] = f[x] + h[T \ {x}]
    <3>1. PICK c \in T : c = Taken(T)
      BY TakenIs
    <3>2. h[T] = f[c] + h[T \ {c}]
      BY <1>1, <3>1 DEF Follows
    <3>3. CASE x = c
      BY <3>2, <3>3
    <3>4. CASE x # c
      <4>1. /\ Cardinality(T \ {c}) = k /\ T \ {c} \in SUBSET S /\ x \in T \ {c}
            /\ Cardinality(T \ {x}) = k /\ T \ {x} \in SUBSET S /\ c \in T \ {x}
        <5>1. Cardinality(T \ {c}) = Cardinality(T) - 1 /\ Cardinality(T \ {x}) = Cardinality(T) - 1
          BY <1>2, OneLess
        <5> QED
          BY <1>6, <2>1, <3>4, <5>1
      <4>2. h[T \ {c}] = f[x] + h[(T \ {c}) \ {x}]
        BY <1>6, <4>1
      <4>3. h[T \ {x}] = f[c] + h[(T \ {x}) \ {c}]
        BY <1>6, <4>1
      <4>4. PICK r \in SUBSET S : r = (T \ {x}) \ {c} /\ r = (T \ {c}) \ {x}
        OBVIOUS
      <4>5. f[x] \in Int /\ f[c] \in Int /\ h[r] \in Int
        BY <1>1
      <4>6. h[T \ {c}] = f[x] + h[r] /\ h[T \ {x}] = f[c] + h[r]
        BY <4>2, <4>3, <4>4
      <4>7. f[c] + (f[x] + h[r]) = f[x] + (f[c] + h[r])
        BY <4>5
      <4> QED
        BY <3>2, <4>6, <4>7
    <3> QED
      BY <3>3, <3>4
  <2> QED
    BY <2>1
<1>7. 0..Cardinality(S) \subseteq K
  <2> HIDE DEF K
  <2> QED
    BY <1>2, <1>5, <1>6, StepByStep
<1>8. ASSUME NEW T \in SUBSET S, NEW x \in T PROVE h[T] = f[x] + h[T \ {x}]
  <2>1. Cardinality(T) \in 0..Cardinality(S)
    BY <1>2, FS_CardinalityType, FS_Subset
  <2> QED
    BY <1>7, <2>1
<1>9. ASSUME NEW T \in SUBSET S
      PROVE  /\ SumFunctionOnSet(f, T) \in Int
             /\ \A x \in T : SumFunctionOnSet(f, T) = f[x] + SumFunctionOnSet(f, T \ {x})
  <2>1. ASSUME NEW x \in T PROVE SumFunctionOnSet(f, T) = f[x] + SumFunctionOnSet(f, T \ {x})
    <3>1. SumFunctionOnSet(f, T \ {x}) = h[T \ {x}]
      BY <1>3
    <3> QED
      BY <1>3, <1>8, <3>1
  <2> QED
    BY <1>1, <1>3, <2>1
<1>10. SumFunctionOnSet(f, {}) = 0
  BY <1>3, <1>4
<1> QED
  BY <1>9, <1>10 DEF Sums

(* A sum step: an element that is not there yet adds its value.               *)
LEMMA SumAdds ==
  ASSUME NEW S, IsFiniteSet(S), NEW f, \A x \in S : f[x] \in Int,
         NEW T \in SUBSET S, NEW x \in S, x \notin T
  PROVE  /\ SumFunctionOnSet(f, T) \in Int /\ SumFunctionOnSet(f, T \cup {x}) \in Int
         /\ SumFunctionOnSet(f, T \cup {x}) = f[x] + SumFunctionOnSet(f, T)
<1>1. T \cup {x} \in SUBSET S /\ (T \cup {x}) \ {x} = T /\ x \in T \cup {x}
  OBVIOUS
<1> QED
  BY <1>1, SumsAre DEF Sums

(* A function summed over its domain.                                         *)
LEMMA SumOverDomain ==
  ASSUME NEW f, NEW S, DOMAIN f = S
  PROVE  SumFunction(f) = SumFunctionOnSet(f, S)
BY DEF SumFunction

LEMMA SumType ==
  ASSUME NEW S, IsFiniteSet(S), NEW f, \A x \in S : f[x] \in Int
  PROVE  SumFunctionOnSet(f, S) \in Int
BY SumsAre DEF Sums

(* Functions that agree on the set have one sum.                              *)
LEMMA SumSame ==
  ASSUME NEW S, IsFiniteSet(S), NEW f, NEW g, \A x \in S : f[x] \in Int /\ g[x] = f[x]
  PROVE  SumFunctionOnSet(f, S) = SumFunctionOnSet(g, S)
<1> DEFINE F == {T \in SUBSET S : SumFunctionOnSet(f, T) = SumFunctionOnSet(g, T)}
<1>1. {} \in F
  BY SumsAre DEF Sums
<1>2. ASSUME NEW T \in SUBSET S, NEW x \in S, T \in F, x \notin T PROVE T \cup {x} \in F
  BY <1>2, SumAdds
<1>3. S \in F
  <2> HIDE DEF F
  <2> QED
    BY <1>1, <1>2, Gathers
<1> QED
  BY <1>3

(* A sum of smaller values is no larger.                                      *)
LEMMA SumNoMore ==
  ASSUME NEW S, IsFiniteSet(S), NEW f, NEW g,
         \A x \in S : f[x] \in Int /\ g[x] \in Int /\ f[x] <= g[x]
  PROVE  SumFunctionOnSet(f, S) <= SumFunctionOnSet(g, S)
<1> DEFINE F == {T \in SUBSET S : SumFunctionOnSet(f, T) <= SumFunctionOnSet(g, T)}
<1>1. {} \in F
  <2>1. SumFunctionOnSet(f, {}) = 0 /\ SumFunctionOnSet(g, {}) = 0
    BY SumsAre DEF Sums
  <2> QED
    BY <2>1
<1>2. ASSUME NEW T \in SUBSET S, NEW x \in S, T \in F, x \notin T PROVE T \cup {x} \in F
  <2>1. PICK a \in Int, b \in Int : a = SumFunctionOnSet(f, T) /\ b = SumFunctionOnSet(g, T)
    BY SumsAre DEF Sums
  <2>2. SumFunctionOnSet(f, T \cup {x}) = f[x] + a
    BY <1>2, <2>1, SumAdds
  <2>3. SumFunctionOnSet(g, T \cup {x}) = g[x] + b
    BY <1>2, <2>1, SumAdds
  <2>4. f[x] + a <= g[x] + b
    BY <1>2, <2>1
  <2> QED
    BY <2>2, <2>3, <2>4
<1>3. S \in F
  <2> HIDE DEF F
  <2> QED
    BY <1>1, <1>2, Gathers
<1> QED
  BY <1>3

(* The sum of two values' sums.                                               *)
LEMMA SumPlus ==
  ASSUME NEW S, IsFiniteSet(S), NEW f, NEW g, NEW h,
         \A x \in S : f[x] \in Int /\ g[x] \in Int /\ h[x] = f[x] + g[x]
  PROVE  SumFunctionOnSet(h, S) = SumFunctionOnSet(f, S) + SumFunctionOnSet(g, S)
<1> DEFINE F == {T \in SUBSET S : SumFunctionOnSet(h, T) = SumFunctionOnSet(f, T) + SumFunctionOnSet(g, T)}
<1>0. \A x \in S : h[x] \in Int
  OBVIOUS
<1>1. {} \in F
  <2>1. SumFunctionOnSet(f, {}) = 0 /\ SumFunctionOnSet(g, {}) = 0 /\ SumFunctionOnSet(h, {}) = 0
    BY <1>0, SumsAre DEF Sums
  <2> QED
    BY <2>1
<1>2. ASSUME NEW T \in SUBSET S, NEW x \in S, T \in F, x \notin T PROVE T \cup {x} \in F
  <2>1. PICK a \in Int, b \in Int : a = SumFunctionOnSet(f, T) /\ b = SumFunctionOnSet(g, T)
    BY SumsAre DEF Sums
  <2>2. SumFunctionOnSet(f, T \cup {x}) = f[x] + a
    BY <1>2, <2>1, SumAdds
  <2>3. SumFunctionOnSet(g, T \cup {x}) = g[x] + b
    BY <1>2, <2>1, SumAdds
  <2>4. SumFunctionOnSet(h, T) = a + b
    BY <1>2, <2>1
  <2>5. SumFunctionOnSet(h, T \cup {x}) = h[x] + (a + b)
    BY <1>0, <1>2, <2>4, SumAdds
  <2>6. h[x] + (a + b) = (f[x] + a) + (g[x] + b)
    BY <2>1
  <2> QED
    BY <2>2, <2>3, <2>5, <2>6
<1>3. S \in F
  <2> HIDE DEF F
  <2> QED
    BY <1>1, <1>2, Gathers
<1> QED
  BY <1>3

(* The sum of one value.                                                      *)
LEMMA SumConstant ==
  ASSUME NEW S, IsFiniteSet(S), NEW c \in Int, NEW f, \A x \in S : f[x] = c
  PROVE  SumFunctionOnSet(f, S) = c * Cardinality(S)
<1> DEFINE F == {T \in SUBSET S : SumFunctionOnSet(f, T) = c * Cardinality(T)}
<1>0. \A x \in S : f[x] \in Int
  OBVIOUS
<1>1. {} \in F
  <2>1. SumFunctionOnSet(f, {}) = 0 /\ Cardinality({}) = 0
    BY <1>0, SumsAre, FS_EmptySet DEF Sums
  <2> QED
    BY <2>1
<1>2. ASSUME NEW T \in SUBSET S, NEW x \in S, T \in F, x \notin T PROVE T \cup {x} \in F
  <2>1. PICK n \in Nat : n = Cardinality(T) /\ Cardinality(T \cup {x}) = n + 1
    BY <1>2, FS_Subset, FS_CardinalityType, FS_AddElement
  <2>2. SumFunctionOnSet(f, T \cup {x}) = c + SumFunctionOnSet(f, T)
    BY <1>0, <1>2, SumAdds
  <2>3. SumFunctionOnSet(f, T) = c * n
    BY <1>2, <2>1
  <2>4. c + c * n = c * (n + 1)
    OBVIOUS
  <2> QED
    BY <2>1, <2>2, <2>3, <2>4
<1>3. S \in F
  <2> HIDE DEF F
  <2> QED
    BY <1>1, <1>2, Gathers
<1> QED
  BY <1>3

(* Counting with a sum.                                                       *)
LEMMA SumCounts ==
  ASSUME NEW S, IsFiniteSet(S), NEW A, NEW f, \A x \in S : f[x] = IF x \in A THEN 1 ELSE 0
  PROVE  SumFunctionOnSet(f, S) = Cardinality({x \in S : x \in A})
<1> DEFINE F == {T \in SUBSET S : SumFunctionOnSet(f, T) = Cardinality({x \in T : x \in A})}
<1>0. \A x \in S : f[x] \in Int
  OBVIOUS
<1>1. {} \in F
  <2>1. SumFunctionOnSet(f, {}) = 0 /\ Cardinality({}) = 0
    BY <1>0, SumsAre, FS_EmptySet DEF Sums
  <2> QED
    BY <2>1
<1>2. ASSUME NEW T \in SUBSET S, NEW x \in S, T \in F, x \notin T PROVE T \cup {x} \in F
  <2>1. PICK B : B = {y \in T : y \in A}
    OBVIOUS
  <2>2. IsFiniteSet(B) /\ x \notin B
    BY <1>2, <2>1, FS_Subset
  <2>3. Cardinality(B) \in Nat
    BY <2>2, FS_CardinalityType
  <2>4. SumFunctionOnSet(f, T \cup {x}) = f[x] + SumFunctionOnSet(f, T)
    BY <1>0, <1>2, SumAdds
  <2>5. SumFunctionOnSet(f, T) = Cardinality(B)
    BY <1>2, <2>1
  <2>6. CASE x \in A
    <3>1. {y \in T \cup {x} : y \in A} = B \cup {x}
      BY <2>1, <2>6
    <3>2. Cardinality(B \cup {x}) = Cardinality(B) + 1
      BY <2>2, FS_AddElement
    <3> QED
      BY <2>3, <2>4, <2>5, <2>6, <3>1, <3>2
  <2>7. CASE x \notin A
    <3>1. {y \in T \cup {x} : y \in A} = B
      BY <2>1, <2>7
    <3>2. SumFunctionOnSet(f, T \cup {x}) = Cardinality(B)
      BY <2>3, <2>4, <2>5, <2>7
    <3> QED
      BY <3>1, <3>2
  <2> QED
    BY <2>6, <2>7
<1>3. S \in F
  <2> HIDE DEF F
  <2> QED
    BY <1>1, <1>2, Gathers
<1> QED
  BY <1>3

(* Rows of sums and columns of sums come to the same.                         *)
RowSums(rows, m, S, R) == \A x \in S : rows[x] = SumFunctionOnSet([y \in R |-> m[<<x, y>>]], R)
ColSums(cols, m, S, R) == \A y \in R : cols[y] = SumFunctionOnSet([x \in S |-> m[<<x, y>>]], S)

LEMMA SumSwaps ==
  ASSUME NEW S, IsFiniteSet(S), NEW R, IsFiniteSet(R), NEW m,
         \A x \in S, y \in R : m[<<x, y>>] \in Int,
         NEW rows, RowSums(rows, m, S, R), NEW cols, ColSums(cols, m, S, R)
  PROVE  SumFunctionOnSet(rows, S) = SumFunctionOnSet(cols, R)
<1> DEFINE col(y) == [x \in S |-> m[<<x, y>>]]
           upto(T) == [y \in R |-> SumFunctionOnSet(col(y), T)]
           F == {T \in SUBSET S : SumFunctionOnSet(rows, T) = SumFunctionOnSet(upto(T), R)}
<1>1. ASSUME NEW x \in S PROVE rows[x] \in Int
  <2>1. PICK f : f = [y \in R |-> m[<<x, y>>]]
    OBVIOUS
  <2>2. \A y \in R : f[y] \in Int
    BY <2>1
  <2> QED
    BY <2>1, <2>2, SumType DEF RowSums
<1>2. ASSUME NEW y \in R PROVE Sums(col(y), S)
  <2>1. PICK f : f = col(y)
    OBVIOUS
  <2>2. \A x \in S : f[x] \in Int
    BY <2>1
  <2>3. Sums(f, S)
    BY <2>2, SumsAre
  <2> QED
    BY <2>1, <2>3
<1>3. {} \in F
  <2>1. PICK f : f = upto({})
    OBVIOUS
  <2>2. \A y \in R : f[y] = 0
    BY <1>2, <2>1 DEF Sums
  <2>3. SumFunctionOnSet(f, R) = 0 * Cardinality(R)
    BY <2>2, SumConstant
  <2>4. Cardinality(R) \in Nat
    BY FS_CardinalityType
  <2>5. SumFunctionOnSet(rows, {}) = 0
    BY <1>1, SumsAre DEF Sums
  <2> QED
    BY <2>1, <2>3, <2>4, <2>5
<1>4. ASSUME NEW T \in SUBSET S, NEW x \in S, T \in F, x \notin T PROVE T \cup {x} \in F
  <2>1. PICK f, g, h : f = [y \in R |-> m[<<x, y>>]] /\ g = upto(T) /\ h = upto(T \cup {x})
    OBVIOUS
  <2>2. ASSUME NEW y \in R PROVE f[y] \in Int /\ g[y] \in Int /\ h[y] = f[y] + g[y]
    <3>1. PICK k : k = col(y)
      OBVIOUS
    <3>2. (\A z \in S : k[z] \in Int) /\ k[x] = f[y]
      BY <2>1, <3>1
    <3>3. /\ SumFunctionOnSet(k, T) \in Int
          /\ SumFunctionOnSet(k, T \cup {x}) = k[x] + SumFunctionOnSet(k, T)
      BY <1>4, <3>2, SumAdds
    <3>4. g[y] = SumFunctionOnSet(k, T) /\ h[y] = SumFunctionOnSet(k, T \cup {x})
      BY <2>1, <3>1
    <3>5. f[y] \in Int
      BY <2>1
    <3> QED
      BY <3>2, <3>3, <3>4, <3>5
  <2>3. SumFunctionOnSet(h, R) = SumFunctionOnSet(f, R) + SumFunctionOnSet(g, R)
    BY <2>2, SumPlus
  <2>4. SumFunctionOnSet(rows, T \cup {x}) = rows[x] + SumFunctionOnSet(rows, T)
    BY <1>1, <1>4, SumAdds
  <2>5. rows[x] = SumFunctionOnSet(f, R)
    BY <2>1 DEF RowSums
  <2>6. SumFunctionOnSet(rows, T) = SumFunctionOnSet(g, R)
    BY <1>4, <2>1
  <2> QED
    BY <2>1, <2>3, <2>4, <2>5, <2>6
<1>5. S \in F
  <2> HIDE DEF F
  <2> QED
    BY <1>3, <1>4, Gathers
<1>6. PICK f : f = upto(S)
  OBVIOUS
<1>7. \A y \in R : f[y] \in Int /\ cols[y] = f[y]
  BY <1>2, <1>6 DEF Sums, ColSums
<1>8. SumFunctionOnSet(f, R) = SumFunctionOnSet(cols, R)
  BY <1>7, SumSame
<1> QED
  BY <1>5, <1>6, <1>8
-----------------------------------------------------------------------------
(* Two of a set: how many ways there are.                                     *)
LEMMA PairIs ==
  ASSUME NEW S, IsFiniteSet(S), NEW p
  PROVE  p \in PairsOf(S) <=> \E a \in S, b \in S : a # b /\ p = {a, b}
<1>1. ASSUME p \in PairsOf(S) PROVE \E a \in S, b \in S : a # b /\ p = {a, b}
  <2>1. p \in SUBSET S /\ Cardinality(p) = 2 /\ IsFiniteSet(p)
    BY <1>1, FS_Subset DEF PairsOf
  <2>2. p # {}
    BY <2>1, FS_EmptySet
  <2>3. PICK a \in p : TRUE
    BY <2>2
  <2>4. IsFiniteSet(p \ {a}) /\ Cardinality(p \ {a}) = 1
    BY <2>1, OneLess
  <2>5. PICK b : p \ {a} = {b}
    BY <2>4, FS_Singleton
  <2> QED
    BY <2>1, <2>3, <2>5
<1>2. ASSUME NEW a \in S, NEW b \in S, a # b, p = {a, b} PROVE p \in PairsOf(S)
  <2>1. IsFiniteSet({a}) /\ Cardinality({a}) = 1
    BY FS_Singleton
  <2>2. Cardinality({a} \cup {b}) = 2
    <3>1. b \notin {a}
      BY <1>2
    <3>2. Cardinality({a} \cup {b}) = Cardinality({a}) + 1
      BY <2>1, <3>1, FS_AddElement
    <3> QED
      BY <2>1, <3>2
  <2>3. {a} \cup {b} = p
    BY <1>2
  <2> QED
    BY <1>2, <2>2, <2>3 DEF PairsOf
<1> QED
  BY <1>1, <1>2

(* The pairs that are there with one element more.                            *)
LEMMA PairsGrow ==
  ASSUME NEW T, IsFiniteSet(T), IsFiniteSet(PairsOf(T)), NEW x, x \notin T
  PROVE  /\ IsFiniteSet(PairsOf(T \cup {x}))
         /\ Cardinality(PairsOf(T \cup {x})) = Cardinality(PairsOf(T)) + Cardinality(T)
<1>1. PICK N : N = {{x, y} : y \in T}
  OBVIOUS
<1>2. PICK f : f = [y \in T |-> {x, y}]
  OBVIOUS
<1>3. f \in Bijection(T, N)
  <2>1. f \in [T -> N] /\ \A z \in N : \E y \in T : f[y] = z
    BY <1>1, <1>2
  <2>2. ASSUME NEW y \in T, NEW z \in T, f[y] = f[z] PROVE y = z
    <3>1. {x, y} = {x, z}
      BY <1>2, <2>2
    <3> QED
      BY <3>1
  <2> QED
    BY <2>1, <2>2 DEF Bijection, Injection, Surjection, IsInjective
<1>4. IsFiniteSet(N) /\ Cardinality(N) = Cardinality(T)
  BY <1>3, FS_Bijection DEF ExistsBijection
<1>5. PairsOf(T \cup {x}) = PairsOf(T) \cup N
  <2>1. IsFiniteSet(T \cup {x})
    BY FS_AddElement
  <2>2. ASSUME NEW p \in PairsOf(T \cup {x}) PROVE p \in PairsOf(T) \cup N
    <3>1. PICK a \in T \cup {x}, b \in T \cup {x} : a # b /\ p = {a, b}
      BY <2>1, PairIs
    <3>2. CASE a \in T /\ b \in T
      BY <3>1, <3>2, PairIs
    <3>3. CASE a = x
      BY <1>1, <3>1, <3>3
    <3>4. CASE b = x
      <4>1. p = {x, a} /\ a \in T
        BY <3>1, <3>4
      <4> QED
        BY <1>1, <4>1
    <3> QED
      BY <3>2, <3>3, <3>4
  <2>3. ASSUME NEW p \in PairsOf(T) PROVE p \in PairsOf(T \cup {x})
    BY DEF PairsOf
  <2>4. ASSUME NEW p \in N PROVE p \in PairsOf(T \cup {x})
    <3>1. PICK y \in T : p = {x, y}
      BY <1>1
    <3>2. x # y /\ x \in T \cup {x} /\ y \in T \cup {x}
      OBVIOUS
    <3> QED
      BY <2>1, <3>1, <3>2, PairIs
  <2> QED
    BY <2>2, <2>3, <2>4
<1>6. PairsOf(T) \cap N = {}
  BY <1>1 DEF PairsOf
<1>7. Cardinality(PairsOf(T) \cap N) = 0
  BY <1>6, FS_EmptySet
<1>8. Cardinality(PairsOf(T)) \in Nat /\ Cardinality(T) \in Nat
  BY FS_CardinalityType
<1>9. /\ IsFiniteSet(PairsOf(T) \cup N)
      /\ Cardinality(PairsOf(T) \cup N) =
           Cardinality(PairsOf(T)) + Cardinality(N) - Cardinality(PairsOf(T) \cap N)
  BY <1>4, FS_Union
<1>10. Cardinality(PairsOf(T) \cup N) = Cardinality(PairsOf(T)) + Cardinality(T)
  BY <1>4, <1>7, <1>8, <1>9
<1> QED
  BY <1>5, <1>9, <1>10

LEMMA PairsAre ==
  ASSUME NEW S, IsFiniteSet(S)
  PROVE  IsFiniteSet(PairsOf(S)) /\ Cardinality(PairsOf(S)) = Pairings(Cardinality(S))
<1> DEFINE F == {T \in SUBSET S : /\ IsFiniteSet(PairsOf(T))
                                  /\ 2 * Cardinality(PairsOf(T)) = Cardinality(T) * (Cardinality(T) - 1)}
<1>1. {} \in F
  <2>1. Cardinality({}) = 0 /\ IsFiniteSet({})
    BY FS_EmptySet
  <2>2. PairsOf({}) = {}
    BY <2>1, PairIs
  <2> QED
    BY <2>1, <2>2
<1>2. ASSUME NEW T \in SUBSET S, NEW x \in S, T \in F, x \notin T PROVE T \cup {x} \in F
  <2>1. IsFiniteSet(T)
    BY FS_Subset
  <2>2. IsFiniteSet(PairsOf(T))
    BY <1>2
  <2>3. PICK n \in Nat, k \in Nat : n = Cardinality(T) /\ k = Cardinality(PairsOf(T))
    BY <2>1, <2>2, FS_CardinalityType
  <2>4. Cardinality(T \cup {x}) = n + 1
    BY <1>2, <2>1, <2>3, FS_AddElement
  <2>5. IsFiniteSet(PairsOf(T \cup {x})) /\ Cardinality(PairsOf(T \cup {x})) = k + n
    BY <1>2, <2>1, <2>2, <2>3, PairsGrow
  <2>6. 2 * k = n * (n - 1)
    BY <1>2, <2>3
  <2>7. 2 * (k + n) = (n + 1) * ((n + 1) - 1)
    BY <2>6
  <2> QED
    BY <2>4, <2>5, <2>7
<1>3. S \in F
  <2> HIDE DEF F
  <2> QED
    BY <1>1, <1>2, Gathers
<1>4. PICK n \in Nat, k \in Nat : n = Cardinality(S) /\ k = Cardinality(PairsOf(S))
  BY <1>3, FS_CardinalityType
<1>5. PICK z \in Int : z = n * (n - 1) /\ 2 * k = z
  BY <1>3, <1>4
<1>6. z \div 2 = k
  BY <1>5
<1> QED
  BY <1>3, <1>4, <1>5, <1>6 DEF Pairings
-----------------------------------------------------------------------------
(* A ranking: every label has its place.                                      *)
LEMMA PlaceIs ==
  ASSUME NEW S, IsFiniteSet(S), NEW r \in Orders(S)
  PROVE  /\ \A a \in S : PlaceOf(r, a) \in 1..Cardinality(S) /\ r[PlaceOf(r, a)] = a
         /\ \A i \in 1..Cardinality(S) : r[i] \in S /\ PlaceOf(r, r[i]) = i
<1>1. PICK n \in Nat : n = Cardinality(S)
  BY FS_CardinalityType
<1>2. r \in [1..n -> S] /\ DOMAIN r = 1..n /\ \A a \in S : \E i \in 1..n : r[i] = a
  BY <1>1 DEF Orders, Range
<1>3. IsFiniteSet(1..n) /\ Cardinality(1..n) = n
  BY FS_Interval
<1>4. r \in Surjection(1..n, S)
  BY <1>2 DEF Surjection
<1>5. \A i, j \in 1..n : r[i] = r[j] => i = j
  <2>1. r \in Injection(1..n, S)
    BY <1>1, <1>3, <1>4, FS_SurjSameCardinalityImpliesInj
  <2> QED
    BY <1>2, <2>1 DEF Injection, IsInjective
<1>6. ASSUME NEW a \in S PROVE PlaceOf(r, a) \in 1..n /\ r[PlaceOf(r, a)] = a
  BY <1>2 DEF PlaceOf
<1>7. ASSUME NEW i \in 1..n PROVE r[i] \in S /\ PlaceOf(r, r[i]) = i
  <2>1. r[i] \in S
    BY <1>2
  <2> QED
    BY <1>5, <1>6, <2>1
<1> QED
  BY <1>1, <1>6, <1>7

(* As many labels come after one as its place leaves.                         *)
LEMMA AfterIs ==
  ASSUME NEW S, IsFiniteSet(S), NEW r \in Orders(S), NEW a \in S
  PROVE  Cardinality({b \in S : PlaceOf(r, a) < PlaceOf(r, b)}) = Cardinality(S) - PlaceOf(r, a)
<1>1. PICK n \in Nat : n = Cardinality(S)
  BY FS_CardinalityType
<1>2. PICK p \in 1..n : p = PlaceOf(r, a)
  BY <1>1, PlaceIs
<1>3. PICK B : B = {b \in S : p < PlaceOf(r, b)}
  OBVIOUS
<1>4. PICK f : f = [i \in (p + 1)..n |-> r[i]]
  OBVIOUS
<1>5. f \in Bijection((p + 1)..n, B)
  <2>1. ASSUME NEW i \in (p + 1)..n PROVE i \in 1..n /\ f[i] = r[i] /\ f[i] \in B
    <3>1. i \in 1..n /\ p < i
      BY <1>2
    <3>2. r[i] \in S /\ PlaceOf(r, r[i]) = i
      BY <1>1, <3>1, PlaceIs
    <3> QED
      BY <1>3, <1>4, <3>1, <3>2
  <2>2. f \in [(p + 1)..n -> B]
    BY <1>4, <2>1
  <2>3. ASSUME NEW i \in (p + 1)..n, NEW j \in (p + 1)..n, f[i] = f[j] PROVE i = j
    BY <1>1, <2>1, <2>3, PlaceIs
  <2>4. ASSUME NEW b \in B PROVE \E i \in (p + 1)..n : f[i] = b
    <3>1. b \in S /\ p < PlaceOf(r, b)
      BY <1>3
    <3>2. PlaceOf(r, b) \in 1..n /\ r[PlaceOf(r, b)] = b
      BY <1>1, <3>1, PlaceIs
    <3>3. PlaceOf(r, b) \in (p + 1)..n
      BY <1>2, <3>1, <3>2
    <3> QED
      BY <2>1, <3>2, <3>3
  <2> QED
    BY <2>2, <2>3, <2>4 DEF Bijection, Injection, Surjection, IsInjective
<1>6. IsFiniteSet((p + 1)..n) /\ Cardinality((p + 1)..n) = n - p
  <2>1. p + 1 \in Int /\ n \in Int
    BY <1>2
  <2>2. IsFiniteSet((p + 1)..n) /\ Cardinality((p + 1)..n) = IF p + 1 > n THEN 0 ELSE n - (p + 1) + 1
    BY <2>1, FS_Interval
  <2> QED
    BY <1>2, <2>2
<1>7. Cardinality(B) = n - p
  BY <1>5, <1>6, FS_Bijection DEF ExistsBijection
<1> QED
  BY <1>1, <1>2, <1>3, <1>7
-----------------------------------------------------------------------------
(* What the votes are made of.                                                *)
VoteTypes ==
  /\ IsFiniteSet(Seats) /\ Seats \subseteq Nat
  /\ DOMAIN rankings \subseteq Seats
  /\ \A l \in DOMAIN rankings : rankings[l] \in Orders(Seats) \cup {<<>>}

(* The votes a label wins against another one, and those it loses.            *)
Wins(a) == [b \in Seats |-> Cardinality(Prefer(a, b))]
Losses(a) == [b \in Seats |-> Cardinality(Prefer(b, a))]

LEMMA UsedAre ==
  ASSUME VoteTypes
  PROVE  /\ IsFiniteSet(Used) /\ Used \subseteq Seats
         /\ \A l \in Used : rankings[l] \in Orders(Seats)
         /\ Cardinality(Seats) \in Nat /\ Cardinality(Used) \in Nat
<1>1. Used \subseteq Seats /\ \A l \in Used : rankings[l] \in Orders(Seats)
  BY DEF VoteTypes, Used, Complete
<1>2. IsFiniteSet(Seats)
  BY DEF VoteTypes
<1> QED
  BY <1>1, <1>2, FS_Subset, FS_CardinalityType

(* Each ranking that counts is for the one or for the other of two labels.    *)
LEMMA SidesAre ==
  ASSUME VoteTypes, NEW a \in Seats, NEW b \in Seats
  PROVE  /\ IsFiniteSet(Prefer(a, b)) /\ Cardinality(Prefer(a, b)) \in Nat
         /\ Prefer(a, b) \subseteq Used
         /\ a = b => Cardinality(Prefer(a, b)) = 0
         /\ a # b => /\ Prefer(a, b) \cap Prefer(b, a) = {} /\ Prefer(a, b) \cup Prefer(b, a) = Used
                     /\ Cardinality(Prefer(a, b)) + Cardinality(Prefer(b, a)) = Cardinality(Used)
<1>1. IsFiniteSet(Used) /\ IsFiniteSet(Seats) /\ \A l \in Used : rankings[l] \in Orders(Seats)
  BY UsedAre DEF VoteTypes
<1>2. Prefer(a, b) \subseteq Used /\ Prefer(b, a) \subseteq Used
  BY DEF Prefer
<1>3. /\ IsFiniteSet(Prefer(a, b)) /\ Cardinality(Prefer(a, b)) \in Nat
      /\ IsFiniteSet(Prefer(b, a)) /\ Cardinality(Prefer(b, a)) \in Nat
  BY <1>1, <1>2, FS_Subset, FS_CardinalityType
<1>4. Cardinality(Seats) \in Nat
  BY <1>1, FS_CardinalityType
<1>5. ASSUME NEW l \in Used
      PROVE  /\ PlaceOf(rankings[l], a) \in Int /\ PlaceOf(rankings[l], b) \in Int
             /\ PlaceOf(rankings[l], a) = PlaceOf(rankings[l], b) => a = b
  BY <1>1, <1>4, PlaceIs
<1>6. ASSUME a = b PROVE Cardinality(Prefer(a, b)) = 0
  <2>1. Prefer(a, b) = {}
    BY <1>5, <1>6 DEF Prefer
  <2> QED
    BY <2>1, FS_EmptySet
<1>7. ASSUME a # b
      PROVE  /\ Prefer(a, b) \cap Prefer(b, a) = {} /\ Prefer(a, b) \cup Prefer(b, a) = Used
             /\ Cardinality(Prefer(a, b)) + Cardinality(Prefer(b, a)) = Cardinality(Used)
  <2>1. Prefer(a, b) \cap Prefer(b, a) = {}
    BY <1>5 DEF Prefer
  <2>2. Prefer(a, b) \cup Prefer(b, a) = Used
    BY <1>5, <1>7 DEF Prefer
  <2>3. Cardinality(Prefer(a, b) \cap Prefer(b, a)) = 0
    BY <2>1, FS_EmptySet
  <2>4. Cardinality(Prefer(a, b) \cup Prefer(b, a)) =
          Cardinality(Prefer(a, b)) + Cardinality(Prefer(b, a)) - Cardinality(Prefer(a, b) \cap Prefer(b, a))
    BY <1>3, FS_Union
  <2>5. Cardinality(Prefer(a, b) \cup Prefer(b, a)) = Cardinality(Prefer(a, b)) + Cardinality(Prefer(b, a))
    BY <1>3, <2>3, <2>4
  <2> QED
    BY <2>1, <2>2, <2>5
<1> QED
  BY <1>2, <1>3, <1>6, <1>7

LEMMA WinsAre ==
  ASSUME VoteTypes, NEW a \in Seats
  PROVE  /\ IsFiniteSet(Seats)
         /\ \A b \in Seats : Wins(a)[b] \in Int /\ Losses(a)[b] \in Int
         /\ SumFunctionOnSet(Wins(a), Seats) \in Int /\ SumFunctionOnSet(Losses(a), Seats) \in Int
<1>1. IsFiniteSet(Seats)
  BY DEF VoteTypes
<1>2. \A b \in Seats : Wins(a)[b] \in Int /\ Losses(a)[b] \in Int
  BY SidesAre DEF Wins, Losses
<1> QED
  BY <1>1, <1>2, SumType

(* A label's points are the votes it wins, ranking by ranking as against each *)
(* of the others.                                                             *)
LEMMA ScoreIs ==
  ASSUME VoteTypes, NEW a \in Seats
  PROVE  Score(a) = SumFunctionOnSet(Wins(a), Seats) /\ Score(a) \in Int
<1>1. /\ IsFiniteSet(Used) /\ IsFiniteSet(Seats) /\ Cardinality(Seats) \in Nat
      /\ \A l \in Used : rankings[l] \in Orders(Seats)
  BY UsedAre DEF VoteTypes
<1>2. PICK m : m = [z \in Used \X Seats |->
                      IF PlaceOf(rankings[z[1]], a) < PlaceOf(rankings[z[1]], z[2]) THEN 1 ELSE 0]
  OBVIOUS
<1>3. \A l \in Used, b \in Seats :
        /\ m[<<l, b>>] = IF PlaceOf(rankings[l], a) < PlaceOf(rankings[l], b) THEN 1 ELSE 0
        /\ m[<<l, b>>] \in Int
  BY <1>2
<1>4. PICK rows : rows = [l \in Used |-> Points(PlaceOf(rankings[l], a))]
  OBVIOUS
<1>5. ASSUME NEW l \in Used PROVE rows[l] = SumFunctionOnSet([b \in Seats |-> m[<<l, b>>]], Seats)
  <2>1. PICK f : f = [b \in Seats |-> m[<<l, b>>]]
    OBVIOUS
  <2>2. PICK B : B = {b \in Seats : PlaceOf(rankings[l], a) < PlaceOf(rankings[l], b)}
    OBVIOUS
  <2>3. \A b \in Seats : f[b] = IF b \in B THEN 1 ELSE 0
    BY <1>3, <2>1, <2>2
  <2>4. SumFunctionOnSet(f, Seats) = Cardinality({b \in Seats : b \in B})
    BY <1>1, <2>3, SumCounts
  <2>5. {b \in Seats : b \in B} = B
    BY <2>2
  <2>6. Cardinality(B) = Cardinality(Seats) - PlaceOf(rankings[l], a)
    BY <1>1, <2>2, AfterIs
  <2> QED
    BY <1>4, <2>1, <2>4, <2>5, <2>6 DEF Points
<1>6. ASSUME NEW b \in Seats PROVE Wins(a)[b] = SumFunctionOnSet([l \in Used |-> m[<<l, b>>]], Used)
  <2>1. PICK f : f = [l \in Used |-> m[<<l, b>>]]
    OBVIOUS
  <2>2. \A l \in Used : f[l] = IF l \in Prefer(a, b) THEN 1 ELSE 0
    BY <1>3, <2>1 DEF Prefer
  <2>3. SumFunctionOnSet(f, Used) = Cardinality({l \in Used : l \in Prefer(a, b)})
    BY <1>1, <2>2, SumCounts
  <2>4. {l \in Used : l \in Prefer(a, b)} = Prefer(a, b)
    BY DEF Prefer
  <2> QED
    BY <2>1, <2>3, <2>4 DEF Wins
<1>7. SumFunctionOnSet(rows, Used) = SumFunctionOnSet(Wins(a), Seats)
  <2>1. RowSums(rows, m, Used, Seats) /\ ColSums(Wins(a), m, Used, Seats)
    BY <1>5, <1>6 DEF RowSums, ColSums
  <2> QED
    BY <1>1, <1>3, <2>1, SumSwaps
<1>8. Score(a) = SumFunction(rows) /\ DOMAIN rows = Used
  BY <1>4 DEF Score
<1>9. Score(a) = SumFunctionOnSet(rows, Used)
  BY <1>8, SumOverDomain
<1> QED
  BY <1>7, <1>9, WinsAre

(* What a label wins and what it loses are together the same for each.        *)
LEMMA ShareIs ==
  ASSUME VoteTypes
  PROVE  \E c \in Int : \A a \in Seats :
           SumFunctionOnSet(Wins(a), Seats) + SumFunctionOnSet(Losses(a), Seats) = c
<1>1. PICK u \in Nat, n \in Nat : u = Cardinality(Used) /\ n = Cardinality(Seats)
  BY UsedAre
<1>2. PICK c \in Int : c = u * (n - 1)
  BY <1>1
<1>3. ASSUME NEW a \in Seats
      PROVE  SumFunctionOnSet(Wins(a), Seats) + SumFunctionOnSet(Losses(a), Seats) = c
  <2>1. PICK h : h = [b \in Seats |-> Wins(a)[b] + Losses(a)[b]]
    OBVIOUS
  <2>2. \A b \in Seats : Wins(a)[b] \in Int /\ Losses(a)[b] \in Int /\ h[b] = Wins(a)[b] + Losses(a)[b]
    BY <2>1, WinsAre
  <2>3. SumFunctionOnSet(h, Seats) = SumFunctionOnSet(Wins(a), Seats) + SumFunctionOnSet(Losses(a), Seats)
    BY <2>2, WinsAre, SumPlus
  <2>4. h[a] = 0 /\ \A b \in Seats \ {a} : h[b] = u
    <3>1. h[a] = 0
      BY <2>1, SidesAre DEF Wins, Losses
    <3>2. ASSUME NEW b \in Seats \ {a} PROVE h[b] = u
      BY <1>1, <2>1, SidesAre DEF Wins, Losses
    <3> QED
      BY <3>1, <3>2
  <2>5. IsFiniteSet(Seats \ {a}) /\ Cardinality(Seats \ {a}) = n - 1
    BY <1>1, WinsAre, OneLess
  <2>6. SumFunctionOnSet(h, Seats \ {a}) = c
    BY <1>1, <1>2, <2>4, <2>5, SumConstant
  <2>7. \A b \in Seats : h[b] \in Int
    BY <2>2
  <2>8. SumFunctionOnSet(h, Seats) = h[a] + SumFunctionOnSet(h, Seats \ {a})
    BY <2>7, WinsAre, SumsAre DEF Sums
  <2> QED
    BY <2>3, <2>4, <2>6, <2>8
<1> QED
  BY <1>3

(* What is won by all is lost by all.                                         *)
LEMMA WonIsLost ==
  ASSUME VoteTypes,
         NEW won, \A a \in Seats : won[a] = SumFunctionOnSet(Wins(a), Seats),
         NEW lost, \A a \in Seats : lost[a] = SumFunctionOnSet(Losses(a), Seats)
  PROVE  SumFunctionOnSet(won, Seats) = SumFunctionOnSet(lost, Seats)
<1>1. PICK m : m = [z \in Seats \X Seats |-> Cardinality(Prefer(z[1], z[2]))]
  OBVIOUS
<1>2. \A a \in Seats, b \in Seats : m[<<a, b>>] = Cardinality(Prefer(a, b)) /\ m[<<a, b>>] \in Int
  BY <1>1, SidesAre
<1>3. ASSUME NEW a \in Seats PROVE won[a] = SumFunctionOnSet([b \in Seats |-> m[<<a, b>>]], Seats)
  <2>1. [b \in Seats |-> m[<<a, b>>]] = Wins(a)
    BY <1>2 DEF Wins
  <2> QED
    BY <2>1
<1>4. ASSUME NEW b \in Seats PROVE lost[b] = SumFunctionOnSet([a \in Seats |-> m[<<a, b>>]], Seats)
  <2>1. [a \in Seats |-> m[<<a, b>>]] = Losses(b)
    BY <1>2 DEF Losses
  <2> QED
    BY <2>1
<1>5. IsFiniteSet(Seats)
  BY DEF VoteTypes
<1>6. RowSums(won, m, Seats, Seats) /\ ColSums(lost, m, Seats, Seats)
  BY <1>3, <1>4 DEF RowSums, ColSums
<1> QED
  BY <1>2, <1>5, <1>6, SumSwaps

(* One label wins no less than it loses.                                      *)
LEMMA OneHoldsItsOwn ==
  ASSUME VoteTypes, Seats # {}
  PROVE  \E a \in Seats : SumFunctionOnSet(Wins(a), Seats) >= SumFunctionOnSet(Losses(a), Seats)
<1> SUFFICES ASSUME \A a \in Seats : SumFunctionOnSet(Wins(a), Seats) < SumFunctionOnSet(Losses(a), Seats)
             PROVE  FALSE
  BY WinsAre
<1>1. PICK won, lost, less : /\ won = [a \in Seats |-> SumFunctionOnSet(Wins(a), Seats)]
                             /\ lost = [a \in Seats |-> SumFunctionOnSet(Losses(a), Seats)]
                             /\ less = [a \in Seats |-> -1]
  OBVIOUS
<1>2. PICK low : low = [a \in Seats |-> lost[a] + less[a]]
  OBVIOUS
<1>3. IsFiniteSet(Seats) /\ Cardinality(Seats) \in Nat \ {0}
  BY FS_CardinalityType, FS_EmptySet DEF VoteTypes
<1>4. \A a \in Seats : won[a] \in Int /\ lost[a] \in Int /\ less[a] \in Int /\ less[a] = -1
                       /\ low[a] = lost[a] + less[a] /\ low[a] \in Int /\ won[a] <= low[a]
  BY <1>1, <1>2, WinsAre
<1>5. SumFunctionOnSet(won, Seats) = SumFunctionOnSet(lost, Seats)
  BY <1>1, WonIsLost
<1>6. SumFunctionOnSet(low, Seats) = SumFunctionOnSet(lost, Seats) + SumFunctionOnSet(less, Seats)
  BY <1>3, <1>4, SumPlus
<1>7. PICK c \in Int : c = -1
  OBVIOUS
<1>8. SumFunctionOnSet(less, Seats) = c * Cardinality(Seats)
  BY <1>3, <1>4, <1>7, SumConstant
<1>9. SumFunctionOnSet(won, Seats) <= SumFunctionOnSet(low, Seats)
  BY <1>3, <1>4, SumNoMore
<1>10. SumFunctionOnSet(lost, Seats) \in Int
  BY <1>3, <1>4, SumType
<1>11. c * Cardinality(Seats) < 0
  BY <1>3, <1>7
<1>12. c * Cardinality(Seats) \in Int
  BY <1>3
<1> QED
  BY <1>5, <1>6, <1>8, <1>9, <1>10, <1>11, <1>12

(* One that is beaten by every other one wins less than it loses.             *)
LEMMA BeatenLoses ==
  ASSUME VoteTypes, NEW w \in Seats, Cardinality(Seats) > 1,
         \A b \in Seats \ {w} : 2 * Cardinality(Prefer(b, w)) > Cardinality(Used)
  PROVE  SumFunctionOnSet(Wins(w), Seats) < SumFunctionOnSet(Losses(w), Seats)
<1>1. ASSUME NEW b \in Seats \ {w} PROVE Wins(w)[b] + 1 <= Losses(w)[b]
  <2>1. PICK x \in Nat, y \in Nat : x = Cardinality(Prefer(w, b)) /\ y = Cardinality(Prefer(b, w))
    BY SidesAre
  <2>2. x + y = Cardinality(Used) /\ 2 * y > Cardinality(Used)
    BY <2>1, SidesAre
  <2> QED
    BY <2>1, <2>2 DEF Wins, Losses
<1>2. Wins(w)[w] = 0 /\ Losses(w)[w] = 0
  BY SidesAre DEF Wins, Losses
<1>3. PICK n \in Nat : n = Cardinality(Seats) - 1 /\ n > 0
  BY UsedAre
<1>4. PICK R : R = Seats \ {w}
  OBVIOUS
<1>5. IsFiniteSet(R) /\ Cardinality(R) = n
  BY <1>3, <1>4, WinsAre, OneLess
<1>6. PICK more, one : more = [b \in R |-> Wins(w)[b] + 1] /\ one = [b \in R |-> 1]
  OBVIOUS
<1>7. \A b \in R : Wins(w)[b] \in Int /\ Losses(w)[b] \in Int /\ one[b] \in Int /\ one[b] = 1
                   /\ more[b] = Wins(w)[b] + one[b] /\ more[b] \in Int /\ more[b] <= Losses(w)[b]
  BY <1>1, <1>4, <1>6, WinsAre
<1>8. SumFunctionOnSet(more, R) = SumFunctionOnSet(Wins(w), R) + SumFunctionOnSet(one, R)
  BY <1>5, <1>7, SumPlus
<1>9. SumFunctionOnSet(one, R) = 1 * n
  BY <1>5, <1>7, SumConstant
<1>10. SumFunctionOnSet(more, R) <= SumFunctionOnSet(Losses(w), R)
  BY <1>5, <1>7, SumNoMore
<1>11. /\ SumFunctionOnSet(Wins(w), Seats) = Wins(w)[w] + SumFunctionOnSet(Wins(w), R)
       /\ SumFunctionOnSet(Losses(w), Seats) = Losses(w)[w] + SumFunctionOnSet(Losses(w), R)
  BY <1>4, WinsAre, SumsAre DEF Sums
<1>12. SumFunctionOnSet(Wins(w), R) \in Int /\ SumFunctionOnSet(Losses(w), R) \in Int
  BY <1>5, <1>7, SumType
<1> QED
  BY <1>2, <1>3, <1>8, <1>9, <1>10, <1>11, <1>12

(* Some label outranks every other one.                                       *)
LEMMA WinnerIs ==
  ASSUME VoteTypes, Seats # {}
  PROVE  PickWinner \in Seats /\ \A b \in Seats : Score(b) <= Score(PickWinner)
<1>1. \A a \in Seats : Score(a) \in Int /\ a \in Nat
  BY ScoreIs DEF VoteTypes
<1> DEFINE F == {T \in SUBSET Seats : T # {} => \E a \in T : \A b \in T \ {a} : Outranks(a, b)}
<1>2. {} \in F
  OBVIOUS
<1>3. ASSUME NEW T \in SUBSET Seats, NEW x \in Seats, T \in F, x \notin T PROVE T \cup {x} \in F
  <2>1. CASE T = {}
    BY <2>1
  <2>2. CASE T # {}
    <3>1. PICK a \in T : \A b \in T \ {a} : Outranks(a, b)
      BY <1>3, <2>2
    <3>2. CASE Outranks(a, x)
      BY <3>1, <3>2
    <3>3. CASE ~Outranks(a, x)
      <4>1. Outranks(x, a)
        BY <1>1, <1>3, <3>3 DEF Outranks
      <4>2. ASSUME NEW b \in T \ {a} PROVE Outranks(x, b)
        <5>1. Outranks(a, b) /\ a \in Seats /\ b \in Seats
          BY <3>1
        <5> QED
          BY <1>1, <4>1, <5>1 DEF Outranks
      <4> QED
        BY <4>1, <4>2
    <3> QED
      BY <3>2, <3>3
  <2> QED
    BY <2>1, <2>2
<1>4. Seats \in F
  <2> HIDE DEF F
  <2>1. IsFiniteSet(Seats)
    BY DEF VoteTypes
  <2> QED
    BY <1>2, <1>3, <2>1, Gathers
<1>5. PickWinner \in Seats /\ \A b \in Seats \ {PickWinner} : Outranks(PickWinner, b)
  BY <1>4 DEF PickWinner
<1> QED
  BY <1>1, <1>5 DEF Outranks

(* The winner is never one that every other label beats.                      *)
LEMMA WinnerIsNotBeaten ==
  ASSUME VoteTypes, Cardinality(Seats) > 1
  PROVE  ~\A b \in Seats \ {PickWinner} : 2 * Cardinality(Prefer(b, PickWinner)) > Cardinality(Used)
<1>1. Seats # {}
  BY FS_EmptySet
<1>2. PICK w \in Seats : w = PickWinner /\ \A b \in Seats : Score(b) <= Score(w)
  BY <1>1, WinnerIs
<1> SUFFICES ASSUME \A b \in Seats \ {w} : 2 * Cardinality(Prefer(b, w)) > Cardinality(Used)
             PROVE  FALSE
  BY <1>2
<1>3. SumFunctionOnSet(Wins(w), Seats) < SumFunctionOnSet(Losses(w), Seats)
  BY BeatenLoses
<1>4. PICK a \in Seats : SumFunctionOnSet(Wins(a), Seats) >= SumFunctionOnSet(Losses(a), Seats)
  BY <1>1, OneHoldsItsOwn
<1>5. PICK c \in Int : \A x \in Seats :
        SumFunctionOnSet(Wins(x), Seats) + SumFunctionOnSet(Losses(x), Seats) = c
  BY ShareIs
<1>6. SumFunctionOnSet(Wins(a), Seats) <= SumFunctionOnSet(Wins(w), Seats)
  BY <1>2, ScoreIs
<1> QED
  BY <1>3, <1>4, <1>5, <1>6, WinsAre

(* One that is first in every ranking wins.                                   *)
LEMMA FirstOfAllWins ==
  ASSUME VoteTypes, Used # {}, NEW a \in Seats, \A l \in Used : rankings[l][1] = a
  PROVE  PickWinner = a
<1>1. PICK w \in Seats : w = PickWinner /\ \A b \in Seats : Score(b) <= Score(w)
  BY WinnerIs
<1> SUFFICES ASSUME w # a PROVE FALSE
  BY <1>1
<1>2. /\ IsFiniteSet(Used) /\ IsFiniteSet(Seats)
      /\ \A l \in Used : rankings[l] \in Orders(Seats)
  BY UsedAre DEF VoteTypes
<1>3. PICK n \in Nat, u \in Nat : n = Cardinality(Seats) /\ n >= 1 /\ u = Cardinality(Used) /\ u >= 1
  <2>1. Cardinality(Seats) \in Nat \ {0} /\ Cardinality(Used) \in Nat \ {0}
    BY <1>2, UsedAre, FS_EmptySet
  <2> QED
    BY <2>1
<1>4. ASSUME NEW l \in Used
      PROVE  PlaceOf(rankings[l], a) = 1 /\ PlaceOf(rankings[l], w) \in 2..n
  <2>1. PlaceOf(rankings[l], a) = 1
    BY <1>2, <1>3, PlaceIs
  <2>2. PlaceOf(rankings[l], w) \in 1..n /\ rankings[l][PlaceOf(rankings[l], w)] = w
    BY <1>2, <1>3, PlaceIs
  <2> QED
    BY <2>1, <2>2
<1>5. PICK f, g, one, h : /\ f = [l \in Used |-> Points(PlaceOf(rankings[l], a))]
                          /\ g = [l \in Used |-> Points(PlaceOf(rankings[l], w))]
                          /\ one = [l \in Used |-> 1]
                          /\ h = [l \in Used |-> g[l] + one[l]]
  <2>1. PICK g : g = [l \in Used |-> Points(PlaceOf(rankings[l], w))]
    OBVIOUS
  <2>2. PICK one : one = [l \in Used |-> 1]
    OBVIOUS
  <2> QED
    BY <2>1, <2>2
<1>6. \A l \in Used : f[l] \in Int /\ g[l] \in Int /\ one[l] \in Int /\ one[l] = 1
                      /\ h[l] = g[l] + one[l] /\ h[l] \in Int /\ h[l] <= f[l]
  BY <1>3, <1>4, <1>5 DEF Points
<1>7. Score(a) = SumFunctionOnSet(f, Used) /\ Score(w) = SumFunctionOnSet(g, Used)
  BY <1>5, SumOverDomain DEF Score
<1>8. SumFunctionOnSet(h, Used) = SumFunctionOnSet(g, Used) + SumFunctionOnSet(one, Used)
  BY <1>2, <1>6, SumPlus
<1>9. SumFunctionOnSet(one, Used) = 1 * u
  BY <1>2, <1>3, <1>6, SumConstant
<1>10. SumFunctionOnSet(h, Used) <= SumFunctionOnSet(f, Used)
  BY <1>2, <1>6, SumNoMore
<1>11. Score(a) \in Int /\ Score(w) \in Int /\ Score(a) <= Score(w)
  BY <1>1, ScoreIs
<1> QED
  BY <1>3, <1>7, <1>8, <1>9, <1>10, <1>11
-----------------------------------------------------------------------------
(* Whether two rankings agree about two labels, as _kendall_tau has it.       *)
Sign(q, p) == IF \A k, l \in q : Agree(rankings[k], rankings[l], p) THEN 1 ELSE -1

(* They do when they are on the same side.                                    *)
LEMMA AgreeIs ==
  ASSUME VoteTypes, NEW a \in Seats, NEW b \in Seats, a # b, NEW q \in PairsOf(Used)
  PROVE  Sign(q, {a, b}) = IF q \in PairsOf(Prefer(a, b)) \cup PairsOf(Prefer(b, a)) THEN 1 ELSE -1
<1>1. PICK k \in Used, l \in Used : k # l /\ q = {k, l}
  BY UsedAre, PairIs
<1>2. ASSUME NEW i \in Used
      PROVE  /\ PlaceOf(rankings[i], a) \in Int /\ PlaceOf(rankings[i], b) \in Int
             /\ PlaceOf(rankings[i], a) # PlaceOf(rankings[i], b)
  BY UsedAre, PlaceIs DEF VoteTypes
<1>3. PICK U, V : U = Prefer(a, b) /\ V = Prefer(b, a)
  OBVIOUS
<1>4. \A i \in Used : /\ i \in U <=> PlaceOf(rankings[i], a) < PlaceOf(rankings[i], b)
                      /\ i \in V <=> PlaceOf(rankings[i], b) < PlaceOf(rankings[i], a)
  BY <1>3 DEF Prefer
<1>5. q \in PairsOf(U) <=> k \in U /\ l \in U
  BY <1>1 DEF PairsOf
<1>6. q \in PairsOf(V) <=> k \in V /\ l \in V
  BY <1>1 DEF PairsOf
<1>7. ASSUME NEW i \in Used, NEW j \in Used
      PROVE  Agree(rankings[i], rankings[j], {a, b}) <=> (i \in U <=> j \in U)
  <2>1. PICK x \in Int, y \in Int, z \in Int, t \in Int :
          /\ x = PlaceOf(rankings[i], a) /\ y = PlaceOf(rankings[i], b) /\ x # y
          /\ z = PlaceOf(rankings[j], a) /\ t = PlaceOf(rankings[j], b) /\ z # t
    BY <1>2
  <2>2. (i \in U <=> x < y) /\ (j \in U <=> z < t)
    BY <1>4, <2>1
  <2>3. Agree(rankings[i], rankings[j], {a, b}) <=>
          /\ (x < x <=> z < z) /\ (x < y <=> z < t) /\ (y < x <=> t < z) /\ (y < y <=> t < t)
    BY <2>1 DEF Agree
  <2> QED
    BY <2>1, <2>2, <2>3
<1>8. ASSUME NEW i \in Used PROVE i \in V <=> i \notin U
  BY <1>2, <1>4
<1>9. (\A i, j \in q : Agree(rankings[i], rankings[j], {a, b})) <=> (k \in U <=> l \in U)
  BY <1>1, <1>7
<1>10. q \in PairsOf(U) \cup PairsOf(V) <=> (k \in U <=> l \in U)
  BY <1>5, <1>6, <1>8
<1> QED
  BY <1>3, <1>9, <1>10 DEF Sign

(* The votes' agreement about two labels, counted by sides.                   *)
LEMMA MarginIs ==
  ASSUME VoteTypes, verdict.used = Cardinality(Used), NEW p \in PairsOf(Seats)
  PROVE  Margin(p) = SumFunctionOnSet([q \in PairsOf(Used) |-> Sign(q, p)], PairsOf(Used))
<1>0. IsFiniteSet(Seats)
  BY DEF VoteTypes
<1>1. PICK a \in Seats, b \in Seats : a # b /\ p = {a, b}
  BY <1>0, PairIs
<1>2. PICK U, V, Q : U = Prefer(a, b) /\ V = Prefer(b, a) /\ Q = PairsOf(Used)
  OBVIOUS
<1>3. IsFiniteSet(U) /\ IsFiniteSet(V) /\ U \subseteq Used /\ V \subseteq Used /\ U \cap V = {}
  BY <1>1, <1>2, SidesAre
<1>4. IsFiniteSet(Q) /\ Cardinality(Q) = Pairings(Cardinality(Used)) /\ Cardinality(Q) \in Nat
  BY <1>2, UsedAre, PairsAre, FS_CardinalityType
<1>5. PICK x \in Nat, y \in Nat : /\ x = Pairings(Cardinality(U)) /\ y = Pairings(Cardinality(V))
                                  /\ x = Cardinality(PairsOf(U)) /\ y = Cardinality(PairsOf(V))
  BY <1>3, PairsAre, FS_CardinalityType
<1>6. PICK G : G = PairsOf(U) \cup PairsOf(V)
  OBVIOUS
<1>7. Cardinality(G) = x + y /\ G \subseteq Q
  <2>1. PairsOf(U) \cap PairsOf(V) = {}
    <3> SUFFICES ASSUME NEW q \in PairsOf(U), q \in PairsOf(V) PROVE FALSE
      OBVIOUS
    <3>1. q \subseteq U \cap V /\ Cardinality(q) = 2
      BY DEF PairsOf
    <3>2. q = {}
      BY <1>3, <3>1
    <3> QED
      BY <3>1, <3>2, FS_EmptySet
  <2>2. Cardinality(PairsOf(U) \cap PairsOf(V)) = 0
    BY <2>1, FS_EmptySet
  <2>3. IsFiniteSet(PairsOf(U)) /\ IsFiniteSet(PairsOf(V))
    BY <1>3, PairsAre
  <2>4. Cardinality(PairsOf(U) \cup PairsOf(V)) =
          Cardinality(PairsOf(U)) + Cardinality(PairsOf(V)) - Cardinality(PairsOf(U) \cap PairsOf(V))
    BY <2>3, FS_Union
  <2>5. Cardinality(G) = x + y - 0
    BY <1>5, <1>6, <2>2, <2>4
  <2>6. G \subseteq Q
    BY <1>2, <1>3, <1>6 DEF PairsOf
  <2> QED
    BY <2>5, <2>6
<1>8. PICK f, i, one, h : /\ f = [q \in Q |-> Sign(q, p)]
                          /\ i = [q \in Q |-> IF q \in G THEN 1 ELSE 0]
                          /\ one = [q \in Q |-> 1]
                          /\ h = [q \in Q |-> (IF q \in G THEN 1 ELSE 0) + (IF q \in G THEN 1 ELSE 0)]
  OBVIOUS
<1>9. ASSUME NEW q \in Q
      PROVE  /\ f[q] \in Int /\ i[q] \in Int /\ one[q] \in Int /\ one[q] = 1
             /\ i[q] = (IF q \in G THEN 1 ELSE 0)
             /\ h[q] = i[q] + i[q] /\ h[q] = f[q] + one[q] /\ h[q] \in Int
  <2>1. Sign(q, p) = IF q \in G THEN 1 ELSE -1
    BY <1>1, <1>2, <1>6, AgreeIs
  <2>2. f[q] = IF q \in G THEN 1 ELSE -1
    BY <1>8, <2>1
  <2>3. /\ i[q] = (IF q \in G THEN 1 ELSE 0) /\ one[q] = 1
        /\ h[q] = (IF q \in G THEN 1 ELSE 0) + (IF q \in G THEN 1 ELSE 0)
    BY <1>8
  <2>4. CASE q \in G
    BY <2>2, <2>3, <2>4
  <2>5. CASE q \notin G
    BY <2>2, <2>3, <2>5
  <2> QED
    BY <2>4, <2>5
<1>10. SumFunctionOnSet(h, Q) = SumFunctionOnSet(i, Q) + SumFunctionOnSet(i, Q)
  BY <1>4, <1>9, SumPlus
<1>11. SumFunctionOnSet(h, Q) = SumFunctionOnSet(f, Q) + SumFunctionOnSet(one, Q)
  BY <1>4, <1>9, SumPlus
<1>12. SumFunctionOnSet(i, Q) = x + y
  <2>0. \A q \in Q : i[q] = IF q \in G THEN 1 ELSE 0
    BY <1>9
  <2>1. SumFunctionOnSet(i, Q) = Cardinality({q \in Q : q \in G})
    BY <1>4, <2>0, SumCounts
  <2>2. {q \in Q : q \in G} = G
    BY <1>7
  <2> QED
    BY <1>7, <2>1, <2>2
<1>13. SumFunctionOnSet(one, Q) = 1 * Cardinality(Q)
  BY <1>4, <1>9, SumConstant
<1>14. SumFunctionOnSet(f, Q) \in Int
  BY <1>4, <1>9, SumType
<1>15. SumFunctionOnSet(f, Q) = 2 * (x + y) - Pairings(Cardinality(Used))
  BY <1>4, <1>10, <1>11, <1>12, <1>13, <1>14
<1>16. {Prefer(z[1], z[2]) : z \in {t \in p \X p : t[1] # t[2]}} = {U, V}
  <2>1. PICK D : D = {t \in p \X p : t[1] # t[2]}
    OBVIOUS
  <2>2. D = {<<a, b>>, <<b, a>>}
    BY <1>1, <2>1
  <2>3. PICK E : E = {Prefer(z[1], z[2]) : z \in D}
    OBVIOUS
  <2>4. \A s \in E : s = U \/ s = V
    BY <1>2, <2>2, <2>3
  <2>5. U \in E /\ V \in E
    <3>1. Prefer(<<a, b>>[1], <<a, b>>[2]) \in E /\ Prefer(<<b, a>>[1], <<b, a>>[2]) \in E
      BY <2>2, <2>3
    <3> QED
      BY <1>2, <3>1
  <2>6. E = {U, V}
    BY <2>4, <2>5
  <2> QED
    BY <2>1, <2>3, <2>6
<1>17. SumFunction([S \in {U, V} |-> Pairings(Cardinality(S))]) = x + y
  <2>1. PICK g : g = [S \in {U, V} |-> Pairings(Cardinality(S))]
    OBVIOUS
  <2>2. g[U] = x /\ g[V] = y /\ DOMAIN g = {U, V}
    BY <1>5, <2>1
  <2>3. IsFiniteSet({U, V})
    <3>1. IsFiniteSet({U} \cup {V})
      BY FS_Singleton, FS_AddElement
    <3>2. {U} \cup {V} = {U, V}
      OBVIOUS
    <3> QED
      BY <3>1, <3>2
  <2>4. Sums(g, {U, V})
    BY <2>2, <2>3, SumsAre
  <2>5. SumFunctionOnSet(g, {U, V}) = g[U] + SumFunctionOnSet(g, {U, V} \ {U})
    BY <2>4 DEF Sums
  <2>6. SumFunctionOnSet(g, {}) = 0
    BY <2>4 DEF Sums
  <2>7. CASE U = V
    <3>1. U = {}
      BY <1>3, <2>7
    <3>2. Cardinality(U) = 0
      BY <3>1, FS_EmptySet
    <3>3. x = 0 /\ y = 0
      BY <1>5, <2>7, <3>2 DEF Pairings
    <3>4. {U, V} \ {U} = {}
      BY <2>7
    <3> QED
      BY <2>1, <2>2, <2>5, <2>6, <3>3, <3>4, SumOverDomain
  <2>8. CASE U # V
    <3>1. {U, V} \ {U} = {V} /\ {V} \in SUBSET {U, V} /\ {V} \ {V} = {} /\ V \in {V}
      BY <2>8
    <3>2. SumFunctionOnSet(g, {V}) = g[V] + SumFunctionOnSet(g, {V} \ {V})
      BY <2>4, <3>1 DEF Sums
    <3>3. SumFunctionOnSet(g, {U, V}) = x + (y + 0)
      BY <2>2, <2>5, <2>6, <3>1, <3>2
    <3> QED
      BY <2>1, <2>2, <3>3, SumOverDomain
  <2> QED
    BY <2>7, <2>8
<1>18. Margin(p) = 2 * (x + y) - Pairings(Cardinality(Used))
  BY <1>16, <1>17 DEF Margin
<1> QED
  BY <1>2, <1>8, <1>15, <1>18

(* Counted ranking by ranking or label by label, the agreement is the same.   *)
LEMMA TauIsConsensus ==
  ASSUME VoteTypes, verdict.used = Cardinality(Used)
  PROVE  TauSum = Consensus /\ TauSum \in Int
<1>1. PICK P, Q : P = PairsOf(Seats) /\ Q = PairsOf(Used)
  OBVIOUS
<1>2. IsFiniteSet(P) /\ IsFiniteSet(Q)
  BY <1>1, UsedAre, PairsAre DEF VoteTypes
<1>3. PICK m : m = [z \in Q \X P |-> Sign(z[1], z[2])]
  OBVIOUS
<1>4. \A q \in Q, p \in P : m[<<q, p>>] = Sign(q, p) /\ m[<<q, p>>] \in Int
  <2>1. \A q, p : Sign(q, p) \in Int
    BY DEF Sign
  <2> QED
    BY <1>3, <2>1
<1>5. PICK rows, cols : rows = [q \in Q |-> Tau(q)] /\ cols = [p \in P |-> Margin(p)]
  OBVIOUS
<1>6. RowSums(rows, m, Q, P)
  <2>1. ASSUME NEW q \in Q PROVE rows[q] = SumFunctionOnSet([p \in P |-> m[<<q, p>>]], P)
    <3>1. PICK f : f = [p \in P |-> Sign(q, p)]
      OBVIOUS
    <3>2. f = [p \in P |-> m[<<q, p>>]]
      BY <1>4, <3>1
    <3>3. Tau(q) = SumFunction(f)
      BY <1>1, <3>1 DEF Tau, Sign
    <3>4. DOMAIN f = P
      BY <3>1
    <3> QED
      BY <1>5, <3>2, <3>3, <3>4, SumOverDomain
  <2> QED
    BY <2>1 DEF RowSums
<1>7. ColSums(cols, m, Q, P)
  <2>1. ASSUME NEW p \in P PROVE cols[p] = SumFunctionOnSet([q \in Q |-> m[<<q, p>>]], Q)
    <3>1. [q \in Q |-> m[<<q, p>>]] = [q \in Q |-> Sign(q, p)]
      BY <1>4
    <3> QED
      BY <1>1, <1>5, <3>1, MarginIs
  <2> QED
    BY <2>1 DEF ColSums
<1>8. SumFunctionOnSet(rows, Q) = SumFunctionOnSet(cols, P)
  BY <1>2, <1>4, <1>6, <1>7, SumSwaps
<1>9. TauSum = SumFunctionOnSet(rows, Q) /\ Consensus = SumFunctionOnSet(cols, P)
  <2>1. TauSum = SumFunction(rows) /\ Consensus = SumFunction(cols)
    BY <1>1, <1>5 DEF TauSum, Consensus
  <2>2. DOMAIN rows = Q /\ DOMAIN cols = P
    BY <1>5
  <2> QED
    BY <2>1, <2>2, SumOverDomain
<1>10. \A q \in Q : rows[q] \in Int
  <2>1. ASSUME NEW q \in Q PROVE rows[q] \in Int
    <3>1. PICK f : f = [p \in P |-> m[<<q, p>>]]
      OBVIOUS
    <3>2. \A p \in P : f[p] \in Int
      BY <1>4, <3>1
    <3> QED
      BY <1>2, <1>6, <3>1, <3>2, SumType DEF RowSums
  <2> QED
    BY <2>1
<1>11. SumFunctionOnSet(rows, Q) \in Int
  BY <1>2, <1>10, SumType
<1> QED
  BY <1>8, <1>9, <1>11

(* The council disagrees when the sides taken on the labels say so.           *)
LEMMA EscalateIs ==
  ASSUME VoteTypes, verdict.used = Cardinality(Used)
  PROVE  ShouldEscalate <=>
           /\ verdict.used >= 2 /\ Cardinality(Seats) >= 2
           /\ 10 * Consensus < Threshold * Pairings(verdict.used) * Pairings(Cardinality(Seats))
<1>1. PICK x \in Nat, y \in Nat : /\ x = Pairings(Cardinality(Used)) /\ y = Pairings(Cardinality(Seats))
                                  /\ x = Cardinality(PairsOf(Used)) /\ y = Cardinality(PairsOf(Seats))
  BY UsedAre, PairsAre, FS_CardinalityType DEF VoteTypes
<1>2. TauPairs = x * y
  BY <1>1 DEF TauPairs
<1>3. Threshold * (x * y) = Threshold * x * y
  BY CouncilAssumption
<1> QED
  BY <1>1, <1>2, <1>3, TauIsConsensus DEF ShouldEscalate
-----------------------------------------------------------------------------
LEMMA MaxIsIn ==
  ASSUME NEW n \in Nat, NEW s \in SUBSET (1..n), s # {}
  PROVE  Max(s) \in s
<1>1. PICK U : U = {u \in Nat : \E y \in s : u = n - y}
  OBVIOUS
<1>2. PICK u \in U : \A v \in U : u <= v
  <2>1. PICK y \in s : TRUE
    OBVIOUS
  <2>2. n - y \in Nat
    OBVIOUS
  <2>3. U \in SUBSET Nat /\ U # {}
    BY <1>1, <2>1, <2>2
  <2> QED
    BY <2>3, LeastNumber
<1>3. PICK m \in s : u = n - m
  BY <1>1, <1>2
<1>4. ASSUME NEW y \in s PROVE m >= y
  <2>1. n - y \in U
    BY <1>1
  <2>2. n - m <= n - y /\ m \in Int /\ y \in Int
    BY <1>2, <1>3, <2>1
  <2> QED
    BY <2>2
<1> QED
  BY <1>3, <1>4 DEF Max

(* The labels dealt are a finite set of numbers.                              *)
LEMMA SeatsAreDealt ==
  ASSUME CouncilInit
  PROVE  IsFiniteSet(Seats) /\ Seats \subseteq Nat
<1>1. roster \in Seq(Range(roster)) /\ LabelPool \in Nat /\ labelOf \in Deals(roster)
  BY CouncilAssumption DEF CouncilInit
<1>2. PICK n \in Nat : LabelsFor(roster) = 1..n
  <2>1. Len(roster) \in Nat
    BY <1>1
  <2>2. Min({Len(roster), LabelPool}) \in {Len(roster), LabelPool}
    BY <1>1, <2>1 DEF Min
  <2> QED
    BY <1>1, <2>1, <2>2 DEF LabelsFor
<1>3. PICK deal \in Bijection(1..n, 1..n) :
        labelOf = [m \in {roster[i] : i \in 1..n} |-> deal[Max({i \in 1..n : roster[i] = m})]]
  BY <1>1, <1>2 DEF Deals
<1>4. deal \in [1..n -> 1..n]
  BY <1>3 DEF Bijection, Injection
<1>5. ASSUME NEW m \in DOMAIN labelOf PROVE labelOf[m] \in 1..n
  <2>1. PICK i \in 1..n : m = roster[i]
    BY <1>3
  <2>2. PICK s \in SUBSET (1..n) : s = {j \in 1..n : roster[j] = m} /\ s # {}
    BY <2>1
  <2>3. Max(s) \in 1..n
    BY <2>2, MaxIsIn
  <2>4. labelOf[m] = deal[Max(s)]
    BY <1>3, <2>1, <2>2
  <2> QED
    BY <1>4, <2>3, <2>4
<1>6. Seats \subseteq 1..n
  BY <1>5 DEF Seats, Range
<1>7. IsFiniteSet(1..n)
  BY FS_Interval
<1>8. IsFiniteSet(Seats)
  BY <1>6, <1>7, FS_Subset
<1> QED
  BY <1>6, <1>8

(* The verdict is the one the rankings call for.                              *)
Called ==
  /\ AllAnswered /\ Seats # {}
  /\ verdict.winner = PickWinner /\ labelOf[verdict.model] = verdict.winner
  /\ verdict.used = Cardinality(Used) /\ verdict.escalate = ShouldEscalate
VoteInv == VoteTypes /\ (verdict # None => Called)

(* What the rankings call for changes with the rankings and the labels only.  *)
LEMMA CalledStays ==
  ASSUME UNCHANGED <<labelOf, rankings, verdict>>, Called, AllAnswered'
  PROVE  Called'
<1>1. Seats' = Seats /\ Used' = Used
  BY DEF Seats, Used, Complete, Range
<1>2. PickWinner' = PickWinner
  BY <1>1 DEF PickWinner, Outranks, Score, Points, PlaceOf
<1>3. ShouldEscalate' = ShouldEscalate
  BY <1>1 DEF ShouldEscalate, TauSum, Tau, TauPairs, Agree, PlaceOf, PairsOf
<1> QED
  BY <1>1, <1>2, <1>3 DEF Called

LEMMA VoteStep == VoteInv /\ [CouncilNext]_councilVars => VoteInv'
<1> SUFFICES ASSUME VoteInv, [CouncilNext]_councilVars PROVE VoteInv'
  OBVIOUS
<1> USE DEF VoteInv
<1>1. ASSUME NEW l \in Seats, MemberAnswers(l) PROVE VoteInv'
  <2>1. ~AllAnswered /\ verdict = None
    BY <1>1 DEF MemberAnswers, AllAnswered, Called
  <2>2. VoteTypes' /\ verdict' = verdict
    BY <1>1 DEF MemberAnswers, VoteTypes, Seats
  <2> QED
    BY <2>1, <2>2 DEF None
<1>2. ASSUME NEW l \in Seats, Ranks(l) PROVE VoteInv'
  <2>1. verdict = None /\ verdict' = verdict /\ labelOf' = labelOf /\ Seats' = Seats
    BY <1>2 DEF Ranks, Seats
  <2>2. PICK r \in Orders(Seats) \cup {<<>>} :
          rankings' = [k \in DOMAIN rankings \cup {l} |-> IF k = l THEN r ELSE rankings[k]]
    BY <1>2 DEF Ranks
  <2>3. DOMAIN rankings' = DOMAIN rankings \cup {l}
        /\ \A k \in DOMAIN rankings' : rankings'[k] = IF k = l THEN r ELSE rankings[k]
    BY <2>2
  <2>4. Orders(Seats)' = Orders(Seats)
    BY <2>1 DEF Orders
  <2>5. VoteTypes'
    BY <2>1, <2>3, <2>4 DEF VoteTypes
  <2> QED
    BY <2>1, <2>5 DEF None
<1>3. ASSUME NEW fails \in BOOLEAN, Concludes(fails) PROVE VoteInv'
  <2>1. UNCHANGED <<labelOf, rankings, answers>> /\ AllAnswered /\ Seats # {}
    BY <1>3 DEF Concludes
  <2>2. /\ verdict'.winner = PickWinner /\ verdict'.used = Cardinality(Used)
        /\ verdict'.escalate = ShouldEscalate
        /\ verdict'.model = CHOOSE m \in Members : labelOf[m] = PickWinner
    BY <1>3 DEF Concludes
  <2>3. PickWinner \in Seats
    BY <2>1, WinnerIs
  <2>4. labelOf[verdict'.model] = PickWinner
    BY <2>2, <2>3 DEF Seats, Members, Range
  <2>5. Seats' = Seats /\ Used' = Used /\ AllAnswered'
    BY <2>1 DEF Seats, Used, Complete, Range, AllAnswered
  <2>6. PickWinner' = PickWinner
    BY <2>1, <2>5 DEF PickWinner, Outranks, Score, Points, PlaceOf
  <2>7. ShouldEscalate' = ShouldEscalate
    BY <2>1, <2>5 DEF ShouldEscalate, TauSum, Tau, TauPairs, Agree, PlaceOf, PairsOf
  <2>8. Called'
    BY <2>1, <2>2, <2>4, <2>5, <2>6, <2>7 DEF Called
  <2>9. VoteTypes'
    BY <2>1, <2>5 DEF VoteTypes, Orders
  <2> QED
    BY <2>8, <2>9
<1>4. CASE UNCHANGED councilVars
  <2>1. UNCHANGED <<labelOf, rankings, verdict, answers>>
    BY <1>4 DEF councilVars
  <2>2. Seats' = Seats /\ (AllAnswered => AllAnswered')
    BY <2>1 DEF Seats, AllAnswered, Range
  <2>3. VoteTypes'
    BY <2>1, <2>2 DEF VoteTypes, Orders
  <2>4. Called => Called'
    BY <2>1, <2>2, CalledStays DEF Called
  <2> QED
    BY <2>1, <2>3, <2>4 DEF None
<1> QED
  BY <1>1, <1>2, <1>3, <1>4 DEF CouncilNext

(* What the rankings say is what the council concludes (council/chairman.py,  *)
(* council/confidence.py), whatever models, labels and threshold there are:   *)
(* the winner is not beaten by every other label, is the one that is first in *)
(* every ranking, and its model is the one that gave the answer; and the      *)
(* council disagrees exactly when the sides taken on the labels say so.       *)
THEOREM VotesStayCounted == CouncilSpec => []VotesAreCounted
<1>1. CouncilInit => VoteInv
  <2> SUFFICES ASSUME CouncilInit PROVE VoteInv
    OBVIOUS
  <2>1. DOMAIN rankings = {} /\ verdict = None
    BY DEF CouncilInit, Empty
  <2>2. VoteTypes
    BY <2>1, SeatsAreDealt DEF VoteTypes
  <2> QED
    BY <2>1, <2>2 DEF VoteInv
<1>2. VoteInv => VotesAreCounted
  <2> SUFFICES ASSUME VoteInv, verdict # None PROVE VotesAreCounted
    BY DEF VotesAreCounted
  <2>1. VoteTypes /\ Called
    BY DEF VoteInv
  <2>2. Cardinality(Seats) > 1 => ~Beaten(verdict.winner)
    BY <2>1, WinnerIsNotBeaten DEF Called, Beaten
  <2>3. ASSUME NEW a \in Seats, Used # {}, \A l \in Used : rankings[l][1] = a
        PROVE  verdict.winner = a
    BY <2>1, <2>3, FirstOfAllWins DEF Called
  <2>4. verdict.escalate <=>
          /\ verdict.used >= 2 /\ Cardinality(Seats) >= 2
          /\ 10 * Consensus < Threshold * Pairings(verdict.used) * Pairings(Cardinality(Seats))
    BY <2>1, EscalateIs DEF Called
  <2> QED
    BY <2>1, <2>2, <2>3, <2>4 DEF VotesAreCounted, Called
<1> QED
  BY <1>1, <1>2, VoteStep, PTL DEF CouncilSpec
=============================================================================
