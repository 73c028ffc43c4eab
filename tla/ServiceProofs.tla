---------------------------- MODULE ServiceProofs ----------------------------
(* What the services beside the agent promise, for any number of requests,    *)
(* calls, turns, packs, plugins and senders: one inductive invariant a        *)
(* service, kept by each of its actions.                                      *)
EXTENDS Surfaces, Mailbox, SessionRows, Routing, ApiServer, McpClient, Installs, ProfileReview,
        SkillRecords, FiniteSetTheorems, NaturalsInduction, WellFoundedInduction, TLAPS

-----------------------------------------------------------------------------
(* A request of the server in the pipe has an id the server has used; an id   *)
(* that is pending is of a call that waits, that was cancelled, or that could *)
(* not be written because the server was gone; and as long as the reader has  *)
(* not ended, a call that waits is pending.                                   *)
Messages ==
  [kind : {"answer", "broken", "request"}, id : Nat] \cup [kind : {"junk", "unreadable"}, id : {0}]
CallStates == {"none", "open", "answered", "late", "cancelled", "failed"}
Futures == [state : CallStates, kind : {"none", "initialize", "list", "call"}, from : Nat]
McpShape ==
  /\ reqId \in Nat /\ pending \subseteq Ids
  /\ futures \in [Ids -> Futures]
  /\ DOMAIN calling = Callers /\ \A c \in Callers : calling[c] # 0 => calling[c] \in Ids
  /\ pipe \in Seq(Messages)
  /\ DOMAIN registry = McpTools
  /\ server \in {"none", "up", "gone"}
PipeIsAsked == \A i \in DOMAIN pipe : pipe[i].kind = "request" => pipe[i].id \in asked
PendingWaits ==
  \A id \in pending :
    \/ futures[id].state \in {"open", "cancelled"}
    \/ futures[id].state = "failed" /\ server = "gone"
AnsweredRight == \A id \in Ids : futures[id].state = "answered" => futures[id].from = id \/ id \in asked
ReaderGoesOn ==
  /\ reader = "ended" => server = "gone" \/ upset
  /\ server = "none" => reader = "none"
WaitingArePending ==
  reader # "ended" => \A id \in Ids : futures[id].state = "open" => id \in pending
OwnAreRegistered == \A n \in McpTools : registry[n] = "mine" => n \in registered
McpInv ==
  McpShape /\ PipeIsAsked /\ PendingWaits /\ AnsweredRight /\ ReaderGoesOn /\ WaitingArePending
  /\ OwnAreRegistered

(* A message written to the pipe keeps it a sequence of known messages, each  *)
(* request of it of an id the server has used.                                *)
LEMMA MessageWritten ==
  ASSUME McpInv, NEW m \in Messages, pipe' = Append(pipe, m), asked \subseteq asked',
         m.kind = "request" => m.id \in asked'
  PROVE  pipe' \in Seq(Messages) /\ PipeIsAsked'
<1>1. pipe \in Seq(Messages)
  BY DEF McpInv, McpShape
<1>2. pipe' \in Seq(Messages) /\ DOMAIN pipe' = 1..(Len(pipe) + 1) /\ DOMAIN pipe = 1..Len(pipe)
  BY <1>1
<1>3. \A i \in DOMAIN pipe' : IF i \in DOMAIN pipe THEN pipe'[i] = pipe[i] ELSE pipe'[i] = m
  BY <1>1, <1>2
<1> QED
  BY <1>2, <1>3 DEF McpInv, PipeIsAsked

(* The message the reader takes from the pipe is a known one, and the rest of *)
(* the pipe is as it was.                                                     *)
LEMMA MessageRead ==
  ASSUME McpInv, pipe # <<>>, pipe' = Tail(pipe), asked' = asked
  PROVE  /\ pipe' \in Seq(Messages) /\ PipeIsAsked'
         /\ Head(pipe) \in Messages /\ (Head(pipe).kind = "request" => Head(pipe).id \in asked)
<1>1. pipe \in Seq(Messages)
  BY DEF McpInv, McpShape
<1>2. pipe' \in Seq(Messages) /\ DOMAIN pipe' = 1..(Len(pipe) - 1) /\ DOMAIN pipe = 1..Len(pipe)
      /\ Head(pipe) = pipe[1] /\ 1 \in DOMAIN pipe
  BY <1>1
<1>3. \A i \in DOMAIN pipe' : pipe'[i] = pipe[i + 1] /\ i + 1 \in DOMAIN pipe
  BY <1>1, <1>2
<1>4. Head(pipe) \in Messages
  BY <1>1, <1>2
<1> QED
  BY <1>2, <1>3, <1>4 DEF McpInv, PipeIsAsked

(* A call takes a new id and waits under it, whether its line is written or   *)
(* the server is gone (tools/mcp.py).                                         *)
LEMMA SendKeeps ==
  ASSUME McpInv, NEW c \in Callers, NEW op \in {"initialize", "list", "call"}, Send(c, op),
         server' \in {"up", "gone"}, server = "gone" => server' = "gone",
         reader' = reader \/ (reader # "ended" /\ reader' # "ended"),
         UNCHANGED <<asked, pipe, registry, registered, upset>>
  PROVE  McpInv'
<1> DEFINE id == reqId + 1
           x == [state |-> "open", kind |-> op, from |-> 0]
           y == [state |-> "failed", kind |-> op, from |-> 0]
<1>1. id \in Ids /\ id \in Nat /\ reqId' = id /\ pending' = pending \cup {id} /\ x \in Futures /\ y \in Futures
  BY DEF Send, McpInv, McpShape, Futures, CallStates
<1>2. [Future(op) EXCEPT !.state = "failed"] = y /\ Future(op) = x
  BY DEF Future
<1>3. \/ futures' = [futures EXCEPT ![id] = x] /\ calling' = [calling EXCEPT ![c] = id]
      \/ futures' = [futures EXCEPT ![id] = y] /\ calling' = calling /\ server = "gone"
  BY <1>2 DEF Send
<1>4. x.state = "open" /\ y.state = "failed"
  OBVIOUS
<1> HIDE DEF id, x, y
<1>5. McpShape'
  BY <1>1, <1>3 DEF McpInv, McpShape
<1>6. \A i \in Ids : futures'[i] = IF i = id THEN futures'[id] ELSE futures[i]
  BY <1>1, <1>3 DEF McpInv, McpShape
<1>7. futures'[id].state = "open" \/ (futures'[id].state = "failed" /\ server = "gone")
  BY <1>1, <1>3, <1>4 DEF McpInv, McpShape
<1>8. PendingWaits'
  BY <1>1, <1>6, <1>7 DEF McpInv, McpShape, PendingWaits
<1>9. AnsweredRight'
  BY <1>6, <1>7 DEF McpInv, AnsweredRight
<1>10. PipeIsAsked' /\ ReaderGoesOn' /\ OwnAreRegistered'
  BY DEF McpInv, PipeIsAsked, ReaderGoesOn, OwnAreRegistered
<1>11. WaitingArePending'
  BY <1>1, <1>6 DEF McpInv, WaitingArePending
<1> QED
  BY <1>5, <1>8, <1>9, <1>10, <1>11 DEF McpInv

(* Settling a call changes the future of its id and no other.                 *)
LEMMA SettledFacts ==
  ASSUME McpInv, NEW id \in Ids, NEW s \in CallStates, Settled(id, s)
  PROVE  futures' \in [Ids -> Futures] /\ futures'[id].state = s
         /\ \A i \in Ids \ {id} : futures'[i] = futures[i]
<1>1. futures \in [Ids -> Futures] /\ futures[id] \in Futures
  BY DEF McpInv, McpShape
<1>2. futures' = [futures EXCEPT ![id] = [futures[id] EXCEPT !.state = s]]
  BY DEF Settled
<1>3. [futures[id] EXCEPT !.state = s] \in Futures /\ [futures[id] EXCEPT !.state = s].state = s
  BY <1>1 DEF Futures
<1> QED
  BY <1>1, <1>2, <1>3

(* The reader settles the call whose id a message carries, whoever chose that *)
(* id (tools/mcp.py).                                                         *)
LEMMA DispatchKeeps == McpInv /\ Dispatch => McpInv'
<1> SUFFICES ASSUME McpInv, Dispatch PROVE McpInv'
  OBVIOUS
<1> DEFINE m == Head(pipe)
<1>1. /\ pipe # <<>> /\ pipe' = Tail(pipe) /\ reader = "runs"
      /\ UNCHANGED <<reqId, calling, server, asked, registry, registered>>
  BY DEF Dispatch, serverVars
<1>2. pipe' \in Seq(Messages) /\ PipeIsAsked' /\ m \in Messages /\ (m.kind = "request" => m.id \in asked)
  BY <1>1, MessageRead
<1>3. OwnAreRegistered'
  BY <1>1 DEF McpInv, OwnAreRegistered
<1>4. CASE /\ m.id \in pending /\ ~Raises(m)
           /\ pending' = pending \ {m.id}
           /\ futures' = [futures EXCEPT ![m.id].state = "answered",
                                         ![m.id].from = IF m.kind = "answer" THEN m.id ELSE 0]
           /\ UNCHANGED <<reader, upset>>
  <2> DEFINE i == m.id
             g == IF m.kind = "answer" THEN i ELSE 0
             f == futures[i]
             z == [f EXCEPT !.state = "answered", !.from = g]
  <2>1. i \in Ids /\ f \in Futures /\ g \in Nat /\ futures \in [Ids -> Futures]
    BY <1>2, <1>4 DEF McpInv, McpShape, Messages
  <2>0. m.kind \in {"answer", "request"}
    BY <1>2, <1>4, <2>1 DEF Raises, NotSettled, Messages, Ids, McpInv, McpShape
  <2>2. futures' = [futures EXCEPT ![i] = z]
    BY <1>4, <2>1
  <2>3. z \in Futures /\ z.state = "answered" /\ z.from = g
    <3> HIDE DEF g, f
    <3> QED
      BY <2>1 DEF Futures, CallStates
  <2> HIDE DEF z
  <2>4. /\ futures' \in [Ids -> Futures] /\ futures'[i].state = "answered" /\ futures'[i].from = g
        /\ \A j \in Ids \ {i} : futures'[j] = futures[j]
    BY <2>1, <2>2, <2>3
  <2>5. g = i \/ i \in asked'
    BY <1>1, <1>2, <2>0 DEF Messages
  <2>6. McpShape'
    BY <1>1, <1>2, <1>4, <2>4 DEF McpInv, McpShape
  <2>7. PendingWaits' /\ AnsweredRight' /\ ReaderGoesOn' /\ WaitingArePending'
    BY <1>1, <1>4, <2>4, <2>5 DEF McpInv, McpShape, PendingWaits, AnsweredRight, ReaderGoesOn, WaitingArePending
  <2> QED
    BY <1>2, <1>3, <2>6, <2>7 DEF McpInv
<1>5. CASE /\ Raises(m)
           /\ pending' = pending \ {m.id}
           /\ reader' = "ended"
           /\ upset' = (upset \/ Unfit(m))
           /\ UNCHANGED futures
  <2>1. McpShape' /\ PendingWaits' /\ AnsweredRight' /\ WaitingArePending'
    BY <1>1, <1>2, <1>5 DEF McpInv, McpShape, PendingWaits, AnsweredRight, WaitingArePending
  <2>2. Unfit(m) \/ server = "gone"
    BY <1>5 DEF Raises, NotSettled, Unfit, McpInv, PendingWaits
  <2>3. ReaderGoesOn'
    BY <1>1, <1>5, <2>2 DEF McpInv, ReaderGoesOn
  <2> QED
    BY <1>2, <1>3, <2>1, <2>3 DEF McpInv
<1>6. CASE UNCHANGED <<pending, futures, reader, upset>>
  <2>1. McpShape' /\ PendingWaits' /\ AnsweredRight' /\ ReaderGoesOn' /\ WaitingArePending'
    BY <1>1, <1>2, <1>6 DEF McpInv, McpShape, PendingWaits, AnsweredRight, ReaderGoesOn, WaitingArePending
  <2> QED
    BY <1>2, <1>3, <2>1 DEF McpInv
<1> QED
  BY <1>4, <1>5, <1>6 DEF Dispatch

(* Every step of a caller, the reader, the server or a registration keeps the *)
(* invariant of the client.                                                   *)
LEMMA McpStep == McpInv /\ [McpNext]_mcpVars => McpInv'
<1> SUFFICES ASSUME McpInv, [McpNext]_mcpVars PROVE McpInv'
  OBVIOUS
<1> USE DEF registryVars, serverVars
<1>1. ASSUME NEW c \in Callers, StartMcp(c) PROVE McpInv'
  BY <1>1, SendKeeps DEF StartMcp, McpInv, ReaderGoesOn
<1>2. ASSUME NEW c \in Callers, NEW op \in {"list", "call"}, CallMcp(c, op) PROVE McpInv'
  <2>1. server \in {"up", "gone"}
    BY <1>2 DEF CallMcp, McpInv, McpShape
  <2> QED
    BY <1>2, <2>1, SendKeeps DEF CallMcp
<1>3. ASSUME NEW c \in Callers, CallReturns(c) PROVE McpInv'
  <2>1. McpShape'
    BY <1>3 DEF CallReturns, Leaves, McpInv, McpShape
  <2> QED
    BY <1>3, <2>1 DEF CallReturns, McpInv, PipeIsAsked, PendingWaits, AnsweredRight, ReaderGoesOn,
        WaitingArePending, OwnAreRegistered
<1>4. ASSUME NEW c \in Callers, CallTimesOut(c) \/ CallCancelled(c) PROVE McpInv'
  <2>1. PICK s \in {"late", "cancelled"} :
          /\ calling[c] \in Ids /\ Settled(calling[c], s) /\ futures[calling[c]].state = "open"
          /\ pending' \in {pending, pending \ {calling[c]}}
          /\ s = "late" => pending' = pending \ {calling[c]}
          /\ calling' = [calling EXCEPT ![c] = 0]
          /\ UNCHANGED <<reqId, server, asked, pipe, reader, registry, registered, upset>>
    BY <1>4 DEF CallTimesOut, CallCancelled, Leaves, Forgotten, McpInv, McpShape
  <2> DEFINE id == calling[c]
  <2>2. futures' \in [Ids -> Futures] /\ futures'[id].state = s /\ \A i \in Ids \ {id} : futures'[i] = futures[i]
    <3>1. s \in CallStates
      BY DEF CallStates
    <3> QED
      BY <2>1, <3>1, SettledFacts
  <2>3. McpShape'
    BY <2>1, <2>2 DEF McpInv, McpShape
  <2>4. PendingWaits' /\ AnsweredRight' /\ WaitingArePending'
    BY <2>1, <2>2 DEF McpInv, McpShape, PendingWaits, AnsweredRight, WaitingArePending
  <2>5. PipeIsAsked' /\ ReaderGoesOn' /\ OwnAreRegistered'
    BY <2>1 DEF McpInv, PipeIsAsked, ReaderGoesOn, OwnAreRegistered
  <2> QED
    BY <2>3, <2>4, <2>5 DEF McpInv
<1>5. ASSUME NEW id \in Ids, NEW kind \in {"answer", "broken"}, ServerAnswers(id, kind) PROVE McpInv'
  <2>1. [kind |-> kind, id |-> id] \in Messages
    BY DEF Messages, Ids
  <2>2. pipe' \in Seq(Messages) /\ PipeIsAsked'
    BY <1>5, <2>1, MessageWritten DEF ServerAnswers
  <2> QED
    BY <1>5, <2>2 DEF ServerAnswers, McpInv, McpShape, PendingWaits, AnsweredRight, ReaderGoesOn,
        WaitingArePending, OwnAreRegistered
<1>6. ASSUME NEW id \in 1..MaxAsked, ServerAsks(id) PROVE McpInv'
  <2>1. [kind |-> "request", id |-> id] \in Messages
    BY DEF Messages
  <2>2. pipe' \in Seq(Messages) /\ PipeIsAsked' /\ asked \subseteq asked'
    BY <1>6, <2>1, MessageWritten DEF ServerAsks
  <2> QED
    BY <1>6, <2>2 DEF ServerAsks, McpInv, McpShape, PendingWaits, AnsweredRight, ReaderGoesOn,
        WaitingArePending, OwnAreRegistered
<1>10. ASSUME NEW kind \in {"junk", "unreadable"}, ServerBabbles(kind) PROVE McpInv'
  <2>1. [kind |-> kind, id |-> 0] \in Messages
    BY DEF Messages
  <2>2. pipe' \in Seq(Messages) /\ PipeIsAsked'
    BY <1>10, <2>1, MessageWritten DEF ServerBabbles
  <2> QED
    BY <1>10, <2>2 DEF ServerBabbles, McpInv, McpShape, PendingWaits, AnsweredRight, ReaderGoesOn,
        WaitingArePending, OwnAreRegistered
<1>7. CASE \/ \E id \in 1..MaxAsked : Sampled(id)
           \/ ServerExits \/ ReaderEnds
  BY <1>7 DEF Sampled, ServerExits, ReaderEnds, McpInv, McpShape, PipeIsAsked, PendingWaits, AnsweredRight,
              ReaderGoesOn, WaitingArePending, OwnAreRegistered
<1>8. CASE \/ RegisterTools \/ StopMcp
           \/ \E n \in McpTools, whose \in {"nobody", "other"} : OtherRegisters(n, whose)
  <2>1. DOMAIN registry' = McpTools /\ OwnAreRegistered'
    BY <1>8 DEF RegisterTools, StopMcp, OtherRegisters, McpInv, McpShape, OwnAreRegistered
  <2> QED
    BY <1>8, <2>1 DEF RegisterTools, StopMcp, OtherRegisters, McpInv, McpShape, PipeIsAsked, PendingWaits,
                      AnsweredRight, ReaderGoesOn, WaitingArePending
<1>9. CASE UNCHANGED mcpVars
  BY <1>9 DEF mcpVars, McpInv, McpShape, PipeIsAsked, PendingWaits, AnsweredRight, ReaderGoesOn,
        WaitingArePending, OwnAreRegistered
<1> QED
  BY <1>1, <1>2, <1>3, <1>4, <1>5, <1>6, <1>7, <1>8, <1>9, <1>10, DispatchKeeps DEF McpNext

(* A call gets its own answer, out of order, late or with calls that gave up  *)
(* in between, unless the server used the id for a request of its own; a call *)
(* that waits can be answered as long as the reader runs; the reader ends for *)
(* a server that is gone, a cancelled call that was answered, an error that   *)
(* is no object or a line it cannot read, and for nothing else; and stop      *)
(* leaves no tool of the client (tools/mcp.py).                               *)
THEOREM AnswersFindTheirCalls == McpSpec => []AnswersReachTheirCalls
<1>1. McpInit => McpInv
  BY DEF McpInit, McpInv, McpShape, PipeIsAsked, PendingWaits, AnsweredRight, ReaderGoesOn,
         WaitingArePending, OwnAreRegistered, NoFuture, Futures, CallStates
<1>2. McpInv => AnswersReachTheirCalls
  BY DEF McpInv, AnsweredRight, ReaderGoesOn,
        WaitingArePending, OwnAreRegistered, AnswersReachTheirCalls
<1> QED
  BY <1>1, <1>2, McpStep, PTL DEF McpSpec
-----------------------------------------------------------------------------
(* Every tool in the registry is of a load; a load that is held has its tools *)
(* unless a later one took them or an unload behind it did; the path has the  *)
(* directories of the plugins that were loaded; and a module the interpreter  *)
(* has came with some load.                                                   *)
Modules == [of : Plugins, edition : Nat] \cup {NoModule}
LoadRecords ==
  [plugin : Plugins, entry : Entries, done : BOOLEAN, count : 0..MaxPluginTools, module : Modules,
   own : BOOLEAN, vouched : BOOLEAN, unloaded : Nat]
PluginShape ==
  /\ loads \in Seq(LoadRecords)
  /\ edition \in [Plugins -> Nat] /\ files \in [Plugins -> SUBSET Entries]
  /\ searched \in Seq(Plugins)
  /\ imported \in [Entries -> Modules]
  /\ provided \in [Plugins -> [PluginTools -> Nat]]
ToolsAreOwned ==
  \A p \in Plugins, t \in PluginTools :
    provided[p][t] # 0 =>
      /\ provided[p][t] \in DOMAIN loads
      /\ loads[provided[p][t]].plugin = p /\ t <= loads[provided[p][t]].count
      /\ loads[provided[p][t]].unloaded = 0
      /\ loads[provided[p][t]].vouched
TakenSince(ls, i) == \E j \in DOMAIN ls : ls[i].plugin = ls[j].plugin /\ ls[j].unloaded >= i
HeldHasTools ==
  \A i \in DOMAIN loads :
    loads[i].done /\ loads[i].unloaded = 0 =>
      \A t \in PluginTools : provided[loads[i].plugin][t] >= i \/ TakenSince(loads, i)
WasLoaded(ls, p) == \E i \in DOMAIN ls : ls[i].done /\ ls[i].plugin = p
HasDirectory(dirs, p) == \E i \in DOMAIN dirs : dirs[i] = p
PathIsLoaded == \A p \in Plugins : HasDirectory(searched, p) <=> WasLoaded(loads, p)
Adds(dirs, p) == \A q \in Plugins : HasDirectory(dirs, q) <=> (q = p \/ HasDirectory(searched, q))
Once(dirs) == \A i, j \in DOMAIN dirs : dirs[i] = dirs[j] => i = j
LoadedBefore(ls, i, p) == \E j \in 1..(i - 1) : ls[j].done /\ ls[j].plugin = p
SameImport(ls, i, j) == ls[j].entry = ls[i].entry /\ ls[j].module = ls[i].module
ModuleExplained(ls, i) ==
  \/ \E j \in 1..(i - 1) : SameImport(ls, i, j)
  \/ LoadedBefore(ls, i, ls[i].module.of) /\ (ls[i].own => LoadedBefore(ls, i, ls[i].plugin))
ModulesCameWithLoads ==
  /\ \A e \in Entries :
       imported[e] # NoModule => \E j \in DOMAIN loads : loads[j].entry = e /\ loads[j].module = imported[e]
  /\ \A i \in DOMAIN loads :
       loads[i].module # NoModule /\ loads[i].module.of # loads[i].plugin => ModuleExplained(loads, i)
PluginInv ==
  /\ PluginShape /\ ToolsAreOwned /\ HeldHasTools /\ PathIsLoaded /\ Once(searched)
  /\ ModulesCameWithLoads

(* A directory put on the path is in front if it was not there, and the       *)
(* others stay.                                                               *)
LEMMA DirectoryAdded ==
  ASSUME PluginInv, NEW p \in Plugins, NEW dirs, dirs = WithDirectory(p)
  PROVE  /\ dirs \in Seq(Plugins) /\ Once(dirs)
         /\ Adds(dirs, p)
         /\ ~IsSearched(p) => 1 \in DOMAIN dirs /\ dirs[1] = p
<1>1. searched \in Seq(Plugins) /\ Once(searched) /\ DOMAIN searched = 1..Len(searched) /\ Len(searched) \in Nat
  BY DEF PluginInv, PluginShape
<1>2. CASE IsSearched(p)
  BY <1>1, <1>2 DEF WithDirectory, IsSearched, Adds, HasDirectory
<1>3. CASE ~IsSearched(p)
  <2>1. dirs = << p >> \o searched
    BY <1>3 DEF WithDirectory
  <2>2. /\ dirs \in Seq(Plugins) /\ DOMAIN dirs = 1..(Len(searched) + 1) /\ dirs[1] = p
        /\ \A i \in 1..Len(searched) : dirs[i + 1] = searched[i]
    BY <1>1, <2>1
  <2>3. \A i \in DOMAIN dirs : i = 1 \/ (i - 1 \in DOMAIN searched /\ dirs[i] = searched[i - 1])
    BY <1>1, <2>2
  <2>4. \A i \in DOMAIN searched : searched[i] # p
    BY <1>3 DEF IsSearched
  <2>5. Once(dirs)
    <3> SUFFICES ASSUME NEW i \in DOMAIN dirs, NEW j \in DOMAIN dirs, dirs[i] = dirs[j] PROVE i = j
      BY DEF Once
    <3>1. CASE i = 1 \/ j = 1
      BY <2>2, <2>3, <2>4, <3>1
    <3>2. CASE i # 1 /\ j # 1
      <4>1. i - 1 \in DOMAIN searched /\ j - 1 \in DOMAIN searched /\ searched[i - 1] = searched[j - 1]
        BY <2>3, <3>2
      <4>2. i - 1 = j - 1
        BY <1>1, <4>1 DEF Once
      <4> QED
        BY <2>2, <4>2
    <3> QED
      BY <3>1, <3>2
  <2>6. ASSUME NEW q \in Plugins
        PROVE  HasDirectory(dirs, q) <=> (q = p \/ HasDirectory(searched, q))
    <3>1. ASSUME NEW i \in DOMAIN dirs, dirs[i] = q PROVE q = p \/ HasDirectory(searched, q)
      BY <2>2, <2>3, <3>1 DEF HasDirectory
    <3>2. ASSUME NEW i \in DOMAIN searched, searched[i] = q PROVE \E j \in DOMAIN dirs : dirs[j] = q
      <4>1. i + 1 \in DOMAIN dirs /\ dirs[i + 1] = q
        BY <1>1, <2>2, <3>2
      <4> QED
        BY <4>1
    <3>3. 1 \in DOMAIN dirs
      BY <1>1, <2>2
    <3> QED
      BY <2>2, <3>1, <3>2, <3>3 DEF HasDirectory
  <2>7. 1 \in DOMAIN dirs
    BY <1>1, <2>2
  <2> QED
    BY <2>2, <2>5, <2>6, <2>7 DEF Adds
<1> QED
  BY <1>2, <1>3

(* An import finds the module the interpreter has, or one of a plugin on the  *)
(* path: its own if it has one and was not on the path.                       *)
LEMMA ModuleIs ==
  ASSUME PluginInv, NEW p \in Plugins, NEW e \in Entries, NEW m \in ModulesOf(p, e)
  PROVE  /\ m \in Modules
         /\ \/ imported[e] # NoModule /\ m = imported[e]
            \/ m.of = p
            \/ IsSearched(m.of) /\ m.of \in Plugins /\ (e \in files[p] => IsSearched(p))
<1>1. imported \in [Entries -> Modules] /\ edition \in [Plugins -> Nat]
  BY DEF PluginInv, PluginShape
<1>2. CASE imported[e] # NoModule
  BY <1>1, <1>2 DEF ModulesOf
<1>3. CASE imported[e] = NoModule
  <2>1. PICK dirs : dirs = WithDirectory(p)
    OBVIOUS
  <2>2. PICK q \in FirstOf(dirs, e) : m = [of |-> q, edition |-> edition[q]]
    BY <1>3, <2>1 DEF ModulesOf
  <2>3. PICK i \in DOMAIN dirs : dirs[i] = q /\ \A j \in 1..(i - 1) : e \notin files[dirs[j]]
    BY <2>2 DEF FirstOf
  <2>4. /\ dirs \in Seq(Plugins)
        /\ Adds(dirs, p)
        /\ ~IsSearched(p) => 1 \in DOMAIN dirs /\ dirs[1] = p
    BY <2>1, DirectoryAdded
  <2>8. q \in Plugins /\ i \in Nat /\ i >= 1
    BY <2>3, <2>4
  <2>5. q \in Plugins /\ (q = p \/ IsSearched(q)) /\ i \in Nat /\ i >= 1
    BY <2>3, <2>4, <2>8 DEF Adds, HasDirectory, IsSearched
  <2>6. m \in Modules /\ m.of = q
    BY <1>1, <2>2, <2>5 DEF Modules
  <2>7. ASSUME q # p, e \in files[p], ~IsSearched(p) PROVE FALSE
    <3>1. i # 1 /\ dirs[1] = p
      BY <2>3, <2>4, <2>7
    <3>2. 1 \in 1..(i - 1)
      BY <2>5, <3>1
    <3> QED
      BY <2>3, <2>7, <3>1, <3>2
  <2> QED
    BY <2>5, <2>6, <2>7
<1> QED
  BY <1>2, <1>3

(* What explains a module goes on to explain it when loads are added or taken *)
(* back.                                                                      *)
LEMMA ExplainedStays ==
  ASSUME NEW ls, NEW i \in Nat, ModuleExplained(ls, i), NEW ms,
         \A j \in 1..i : /\ ms[j].plugin = ls[j].plugin /\ ms[j].entry = ls[j].entry
                         /\ ms[j].done = ls[j].done /\ ms[j].module = ls[j].module /\ ms[j].own = ls[j].own
  PROVE  ModuleExplained(ms, i)
<1>1. ASSUME 1 > i PROVE FALSE
  BY <1>1 DEF ModuleExplained, LoadedBefore
<1>2. i \in 1..i /\ \A j \in 1..(i - 1) : j \in 1..i
  BY <1>1
<1>3. \A p : LoadedBefore(ls, i, p) => LoadedBefore(ms, i, p)
  BY <1>2 DEF LoadedBefore
<1>4. \A j \in 1..(i - 1) : SameImport(ls, i, j) => SameImport(ms, i, j)
  BY <1>2 DEF SameImport
<1>5. ms[i].module = ls[i].module /\ ms[i].own = ls[i].own /\ ms[i].plugin = ls[i].plugin
  BY <1>2
<1> QED
  BY <1>3, <1>4, <1>5 DEF ModuleExplained

(* A load that registers its first tools, done or not, keeps what is said of  *)
(* the loads before it.                                                       *)
LEMMA LoadKeeps ==
  ASSUME PluginInv, NEW r \in LoadRecords, loads' = Append(loads, r), r.unloaded = 0,
         provided' = [provided EXCEPT ![r.plugin] =
                        [t \in PluginTools |-> IF t <= r.count THEN Len(loads) + 1 ELSE provided[r.plugin][t]]],
         r.count > 0 => r.vouched,
         r.done => r.count = MaxPluginTools,
         searched' = IF r.done THEN WithDirectory(r.plugin) ELSE searched,
         r.own => r.entry \in files[r.plugin],
         \/ imported' = imported /\ r.module = NoModule
         \/ imported' = [imported EXCEPT ![r.entry] = r.module] /\ r.module \in ModulesOf(r.plugin, r.entry),
         UNCHANGED <<edition, files>>
  PROVE  PluginInv'
<1> DEFINE k == Len(loads) + 1
           p == r.plugin
<1>1. /\ loads \in Seq(LoadRecords) /\ Len(loads) \in Nat /\ DOMAIN loads = 1..Len(loads)
      /\ imported \in [Entries -> Modules] /\ provided \in [Plugins -> [PluginTools -> Nat]]
      /\ p \in Plugins /\ r.entry \in Entries /\ r.module \in Modules /\ r.count \in 0..MaxPluginTools
      /\ MaxPluginTools \in Nat
  BY PluginAssumption DEF PluginInv, PluginShape, LoadRecords
<1>2. /\ loads' \in Seq(LoadRecords) /\ DOMAIN loads' = DOMAIN loads \cup {k} /\ k \notin DOMAIN loads
      /\ k \in Nat /\ k # 0 /\ loads'[k] = r /\ \A i \in DOMAIN loads : loads'[i] = loads[i] /\ i < k /\ i \in Nat
  BY <1>1
<1>3. /\ provided' \in [Plugins -> [PluginTools -> Nat]]
      /\ \A t \in PluginTools : provided'[p][t] = IF t <= r.count THEN k ELSE provided[p][t]
      /\ \A q \in Plugins \ {p} : provided'[q] = provided[q]
  BY <1>1, <1>2
<1>4. /\ searched' \in Seq(Plugins) /\ Once(searched')
      /\ \A q \in Plugins : HasDirectory(searched', q) <=> (HasDirectory(searched, q) \/ (r.done /\ q = p))
  <2>1. CASE r.done
    <3>1. searched' = WithDirectory(p)
      BY <2>1
    <3>2. searched' \in Seq(Plugins) /\ Once(searched') /\ Adds(searched', p)
      BY <1>1, <3>1, DirectoryAdded
    <3> QED
      BY <2>1, <3>2 DEF Adds
  <2>2. CASE ~r.done
    BY <2>2 DEF PluginInv, PluginShape
  <2> QED
    BY <2>1, <2>2
<1>5. PluginShape'
  BY <1>1, <1>2, <1>3, <1>4 DEF PluginInv, PluginShape
<1> HIDE DEF k
<1>6. ToolsAreOwned'
  <2> SUFFICES ASSUME NEW q \in Plugins, NEW t \in PluginTools, provided'[q][t] # 0
               PROVE  /\ provided'[q][t] \in DOMAIN loads' /\ loads'[provided'[q][t]].plugin = q
                      /\ t <= loads'[provided'[q][t]].count /\ loads'[provided'[q][t]].unloaded = 0
                      /\ loads'[provided'[q][t]].vouched
    BY DEF ToolsAreOwned
  <2>1. CASE q = p /\ t <= r.count
    <3>1. provided'[q][t] = k
      BY <1>3, <2>1
    <3>2. r.count > 0
      BY <1>1, <2>1 DEF PluginTools
    <3> QED
      BY <1>2, <2>1, <3>1, <3>2
  <2>2. CASE ~(q = p /\ t <= r.count)
    <3>1. provided'[q][t] = provided[q][t] /\ provided[q][t] # 0
      BY <1>3, <2>2
    <3> DEFINE j == provided[q][t]
    <3>2. j \in DOMAIN loads /\ loads[j].plugin = q /\ t <= loads[j].count /\ loads[j].unloaded = 0 /\ loads[j].vouched
      BY <3>1 DEF PluginInv, ToolsAreOwned
    <3>3. j \in DOMAIN loads' /\ loads'[j] = loads[j]
      BY <1>2, <3>2
    <3> QED
      BY <3>1, <3>2, <3>3
  <2> QED
    BY <2>1, <2>2
<1>7. HeldHasTools'
  <2> SUFFICES ASSUME NEW i \in DOMAIN loads', loads'[i].done, loads'[i].unloaded = 0, NEW t \in PluginTools
               PROVE  provided'[loads'[i].plugin][t] >= i \/ TakenSince(loads', i)
    BY DEF HeldHasTools
  <2>1. CASE i = k
    <3>1. t <= r.count /\ loads'[i].plugin = p
      BY <1>1, <1>2, <2>1 DEF PluginTools
    <3> QED
      BY <1>2, <1>3, <2>1, <3>1
  <2>2. CASE i # k
    <3>0. i \in DOMAIN loads /\ loads'[i] = loads[i] /\ i < k /\ i \in Nat /\ loads[i] \in LoadRecords
      BY <1>1, <1>2, <2>2
    <3>1. i \in DOMAIN loads /\ loads'[i] = loads[i] /\ loads[i].plugin \in Plugins /\ i < k /\ i \in Nat
      BY <3>0 DEF LoadRecords
    <3>2. TakenSince(loads, i) => TakenSince(loads', i)
      BY <1>2, <3>1 DEF TakenSince
    <3>3. provided[loads[i].plugin][t] >= i \/ TakenSince(loads, i)
      BY <3>1 DEF PluginInv, HeldHasTools
    <3>4. provided'[loads[i].plugin][t] \in {k, provided[loads[i].plugin][t]}
      BY <1>3, <3>1
    <3> QED
      BY <1>2, <3>1, <3>2, <3>3, <3>4
  <2> QED
    BY <2>1, <2>2
<1>8. PathIsLoaded'
  <2>1. \A q \in Plugins : WasLoaded(loads', q) <=> (WasLoaded(loads, q) \/ (r.done /\ q = p))
    BY <1>2 DEF WasLoaded
  <2> QED
    BY <1>4, <2>1 DEF PluginInv, PathIsLoaded
<1>9. \A e \in Entries : imported'[e] # NoModule =>
        \E j \in DOMAIN loads' : loads'[j].entry = e /\ loads'[j].module = imported'[e]
  <2> SUFFICES ASSUME NEW e \in Entries, imported'[e] # NoModule
               PROVE  \E j \in DOMAIN loads' : loads'[j].entry = e /\ loads'[j].module = imported'[e]
    OBVIOUS
  <2>1. CASE imported'[e] = imported[e]
    <3>1. PICK j \in DOMAIN loads : loads[j].entry = e /\ loads[j].module = imported[e]
      BY <2>1 DEF PluginInv, ModulesCameWithLoads
    <3> QED
      BY <1>2, <2>1, <3>1
  <2>2. CASE imported'[e] # imported[e]
    <3>1. e = r.entry /\ imported'[e] = r.module
      BY <1>1, <2>2
    <3> QED
      BY <1>2, <3>1
  <2> QED
    BY <2>1, <2>2
<1>10. ASSUME NEW i \in DOMAIN loads', loads'[i].module # NoModule, loads'[i].module.of # loads'[i].plugin
       PROVE  ModuleExplained(loads', i)
  <2>1. CASE i = k
    <3>1. /\ loads'[i] = r /\ r.module # NoModule /\ r.module.of # p
          /\ r.module \in ModulesOf(p, r.entry)
      BY <1>2, <1>10, <2>1
    <3>2. \/ imported[r.entry] # NoModule /\ r.module = imported[r.entry]
          \/ IsSearched(r.module.of) /\ r.module.of \in Plugins /\ (r.entry \in files[p] => IsSearched(p))
      BY <1>1, <3>1, ModuleIs
    <3>3. \A j \in DOMAIN loads : j \in 1..(i - 1)
      BY <1>1, <1>2, <2>1
    <3>4. CASE imported[r.entry] # NoModule /\ r.module = imported[r.entry]
      <4>0. imported[r.entry] # NoModule =>
              \E j \in DOMAIN loads : loads[j].entry = r.entry /\ loads[j].module = imported[r.entry]
        BY <1>1 DEF PluginInv, ModulesCameWithLoads
      <4>1. PICK j \in DOMAIN loads : loads[j].entry = r.entry /\ loads[j].module = r.module
        BY <3>4, <4>0
      <4>2. SameImport(loads', i, j)
        BY <1>2, <3>1, <4>1 DEF SameImport
      <4> QED
        BY <3>3, <4>2 DEF ModuleExplained
    <3>5. CASE IsSearched(r.module.of) /\ r.module.of \in Plugins /\ (r.entry \in files[p] => IsSearched(p))
      <4>1. \A q \in Plugins : IsSearched(q) => LoadedBefore(loads', i, q)
        <5> SUFFICES ASSUME NEW q \in Plugins, IsSearched(q) PROVE LoadedBefore(loads', i, q)
          OBVIOUS
        <5>1. PICK j \in DOMAIN loads : loads[j].done /\ loads[j].plugin = q
          BY DEF PluginInv, PathIsLoaded, HasDirectory, IsSearched, WasLoaded
        <5> QED
          BY <1>2, <3>3, <5>1 DEF LoadedBefore
      <4> QED
        BY <1>1, <3>1, <3>5, <4>1 DEF ModuleExplained
    <3> QED
      BY <3>2, <3>4, <3>5
  <2>2. CASE i # k
    <3>1. i \in DOMAIN loads /\ loads'[i] = loads[i] /\ i \in Nat
      BY <1>2, <2>2
    <3>2. ModuleExplained(loads, i)
      BY <1>10, <3>1 DEF PluginInv, ModulesCameWithLoads
    <3>3. \A j \in 1..i : loads'[j] = loads[j]
      BY <1>1, <1>2, <3>1
    <3>4. PICK ms : ms = loads'
      OBVIOUS
    <3>5. \A j \in 1..i : /\ ms[j].plugin = loads[j].plugin /\ ms[j].entry = loads[j].entry
                          /\ ms[j].done = loads[j].done /\ ms[j].module = loads[j].module
                          /\ ms[j].own = loads[j].own
      BY <3>3, <3>4
    <3>6. ModuleExplained(ms, i)
      BY <3>1, <3>2, <3>5, ExplainedStays
    <3> QED
      BY <3>4, <3>6
  <2> QED
    BY <2>1, <2>2
<1>11. ModulesCameWithLoads'
  BY <1>9, <1>10 DEF ModulesCameWithLoads
<1> QED
  BY <1>4, <1>5, <1>6, <1>7, <1>8, <1>11 DEF PluginInv

(* A load keeps the invariant where it is done, where its import or a tool of *)
(* it fails, and where it is refused (plugins/manifest.py).                   *)
LEMMA LoadsKeep ==
  ASSUME PluginInv, NEW p \in Plugins, NEW e \in Entries,
         Load(p, e) \/ ImportFails(p, e) \/ ToolFails(p, e) \/ LoadRefused(p, e)
  PROVE  PluginInv'
<1>1. PICK done \in BOOLEAN, n \in 0..MaxPluginTools, m \in Modules, vouched \in BOOLEAN :
        /\ loads' = Append(loads, [plugin |-> p, entry |-> e, done |-> done, count |-> n, module |-> m,
                                   own |-> e \in files[p], vouched |-> vouched, unloaded |-> 0])
        /\ n > 0 => vouched
        /\ done => n = MaxPluginTools
        /\ searched' = IF done THEN WithDirectory(p) ELSE searched
        /\ IF n = 0 THEN provided' = provided \/ Register(p, 0, Len(loads) + 1)
           ELSE Register(p, n, Len(loads) + 1)
        /\ \/ imported' = imported /\ m = NoModule
           \/ imported' = [imported EXCEPT ![e] = m] /\ m \in ModulesOf(p, e)
        /\ UNCHANGED <<edition, files>>
  <2>1. (\A m \in ModulesOf(p, e) : m \in Modules) /\ NoModule \in Modules /\ MaxPluginTools \in Nat
    BY ModuleIs, PluginAssumption DEF Modules
  <2>2. ASSUME NEW done, NEW n, NEW m, Recorded(p, e, done, n, m)
        PROVE  loads' = Append(loads, [plugin |-> p, entry |-> e, done |-> done, count |-> n, module |-> m,
                                       own |-> e \in files[p], vouched |-> TRUE, unloaded |-> 0])
    <3>1. PICK manifest \in Manifests, require \in BOOLEAN :
            /\ Acceptable(manifest, require)
            /\ loads' = Append(loads, [plugin |-> p, entry |-> e, done |-> done, count |-> n, module |-> m,
                                       own |-> e \in files[p], vouched |-> Vouched(manifest, require),
                                       unloaded |-> 0])
      BY <2>2 DEF Recorded
    <3>2. Vouched(manifest, require) = TRUE
      BY <3>1 DEF Acceptable, Vouched
    <3> QED
      BY <3>1, <3>2
  <2>3. CASE Load(p, e)
    <3>1. PICK m \in ModulesOf(p, e) :
            imported' = [imported EXCEPT ![e] = m] /\ Recorded(p, e, TRUE, MaxPluginTools, m)
      BY <2>3 DEF Load
    <3>2. /\ searched' = WithDirectory(p) /\ Register(p, MaxPluginTools, Len(loads) + 1)
          /\ UNCHANGED <<edition, files>>
      BY <2>3 DEF Load, Loading, onDisk
    <3>3. MaxPluginTools \in 0..MaxPluginTools /\ TRUE \in BOOLEAN /\ m \in Modules
      BY <2>1
    <3> QED
      BY <2>2, <3>1, <3>2, <3>3
  <2>4. CASE ImportFails(p, e)
    <3>1. Recorded(p, e, FALSE, 0, NoModule) /\ UNCHANGED <<imported, provided, searched, edition, files>>
      BY <2>4 DEF ImportFails, Loading, KeepsPath, onDisk
    <3>2. 0 \in 0..MaxPluginTools /\ ~(0 > 0) /\ FALSE \in BOOLEAN /\ TRUE \in BOOLEAN
      BY <2>1
    <3> QED
      BY <2>1, <2>2, <3>1, <3>2
  <2>5. CASE ToolFails(p, e)
    <3>1. PICK m \in ModulesOf(p, e) :
            /\ imported' = [imported EXCEPT ![e] = m]
            /\ \E n \in 0..MaxPluginTools - 1 :
                 Register(p, n, Len(loads) + 1) /\ Recorded(p, e, FALSE, n, m)
      BY <2>5 DEF ToolFails
    <3>2. PICK n \in 0..MaxPluginTools - 1 : Register(p, n, Len(loads) + 1) /\ Recorded(p, e, FALSE, n, m)
      BY <3>1
    <3>3. n \in 0..MaxPluginTools /\ FALSE \in BOOLEAN /\ TRUE \in BOOLEAN /\ m \in Modules
      BY <2>1
    <3>4. UNCHANGED <<searched, edition, files>>
      BY <2>5 DEF ToolFails, Loading, KeepsPath, onDisk
    <3>5. loads' = Append(loads, [plugin |-> p, entry |-> e, done |-> FALSE, count |-> n, module |-> m,
                                  own |-> e \in files[p], vouched |-> TRUE, unloaded |-> 0])
      BY <2>2, <3>2
    <3> QED
      BY <3>1, <3>2, <3>3, <3>4, <3>5
  <2>6. CASE LoadRefused(p, e)
    <3>1. loads' = Append(loads, [plugin |-> p, entry |-> e, done |-> FALSE, count |-> 0,
                                  module |-> NoModule, own |-> e \in files[p], vouched |-> FALSE,
                                  unloaded |-> 0])
      BY <2>6 DEF LoadRefused
    <3>2. 0 \in 0..MaxPluginTools /\ ~(0 > 0) /\ FALSE \in BOOLEAN
      BY <2>1
    <3>3. UNCHANGED <<imported, provided, searched, edition, files>>
      BY <2>6 DEF LoadRefused, Loading, onDisk
    <3> QED
      BY <2>1, <3>1, <3>2, <3>3
  <2> QED
    BY <2>3, <2>4, <2>5, <2>6
<1> DEFINE r == [plugin |-> p, entry |-> e, done |-> done, count |-> n, module |-> m,
                 own |-> e \in files[p], vouched |-> vouched, unloaded |-> 0]
<1>2. /\ r \in LoadRecords /\ r.plugin = p /\ r.entry = e /\ r.done = done /\ r.count = n /\ r.module = m
      /\ r.own = (e \in files[p]) /\ r.vouched = vouched /\ r.unloaded = 0
  BY DEF LoadRecords
<1>3. loads' = Append(loads, r)
  BY <1>1
<1> HIDE DEF r
<1>4. provided' = [provided EXCEPT ![p] = [t \in PluginTools |-> IF t <= n THEN Len(loads) + 1 ELSE provided[p][t]]]
  <2>1. provided \in [Plugins -> [PluginTools -> Nat]] /\ MaxPluginTools \in Nat
    BY PluginAssumption DEF PluginInv, PluginShape
  <2>2. CASE Register(p, n, Len(loads) + 1)
    BY <2>1, <2>2 DEF Register
  <2>3. CASE n = 0 /\ provided' = provided
    <3>1. \A t \in PluginTools : ~(t <= n)
      BY <2>1, <2>3 DEF PluginTools
    <3>2. provided[p] = [t \in PluginTools |-> provided[p][t]]
      BY <2>1
    <3>3. [t \in PluginTools |-> IF t <= n THEN Len(loads) + 1 ELSE provided[p][t]] = provided[p]
      BY <3>1, <3>2
    <3> QED
      BY <2>1, <2>3, <3>3
  <2> QED
    BY <1>1, <2>2, <2>3
<1>5. /\ provided' = [provided EXCEPT ![r.plugin] =
                        [t \in PluginTools |-> IF t <= r.count THEN Len(loads) + 1 ELSE provided[r.plugin][t]]]
      /\ r.count > 0 => r.vouched
      /\ r.done => r.count = MaxPluginTools
      /\ searched' = IF r.done THEN WithDirectory(r.plugin) ELSE searched
      /\ r.own => r.entry \in files[r.plugin]
      /\ \/ imported' = imported /\ r.module = NoModule
         \/ imported' = [imported EXCEPT ![r.entry] = r.module] /\ r.module \in ModulesOf(r.plugin, r.entry)
  BY <1>1, <1>2, <1>4
<1> QED
  BY <1>1, <1>2, <1>3, <1>5, LoadKeeps

(* Unloading takes away the tools of its load and leaves the modules and the  *)
(* path (plugins/manifest.py).                                                *)
LEMMA UnloadKeeps ==
  ASSUME PluginInv, NEW i \in DOMAIN loads, Unload(i)
  PROVE  PluginInv'
<1> DEFINE p == loads[i].plugin
           n == loads[i].count
           x == [loads[i] EXCEPT !.unloaded = Len(loads)]
<1>0. /\ loads \in Seq(LoadRecords) /\ Len(loads) \in Nat /\ DOMAIN loads = 1..Len(loads) /\ loads[i] \in LoadRecords
      /\ provided \in [Plugins -> [PluginTools -> Nat]] /\ \A j \in DOMAIN loads : loads[j] \in LoadRecords
  BY DEF PluginInv, PluginShape
<1>1. /\ loads \in Seq(LoadRecords) /\ Len(loads) \in Nat /\ DOMAIN loads = 1..Len(loads) /\ loads[i] \in LoadRecords
      /\ provided \in [Plugins -> [PluginTools -> Nat]] /\ p \in Plugins /\ n \in Nat /\ PluginTools \subseteq Int
  BY <1>0, PluginAssumption DEF LoadRecords, PluginTools
<1>2. /\ x \in LoadRecords /\ x.plugin = p /\ x.entry = loads[i].entry /\ x.done = loads[i].done /\ x.count = n
      /\ x.module = loads[i].module /\ x.own = loads[i].own /\ x.vouched = loads[i].vouched
      /\ x.unloaded = Len(loads)
  BY <1>1 DEF LoadRecords
<1>3. loads' = [loads EXCEPT ![i] = x] /\ UNCHANGED <<edition, files, searched, imported>> /\ loads[i].unloaded = 0
  BY DEF Unload, onDisk
<1>4. provided' = [provided EXCEPT ![p] = [t \in PluginTools |-> IF t <= n THEN 0 ELSE provided[p][t]]]
  BY <1>1 DEF Unload, Unregister
<1> HIDE DEF x
<1>5. /\ loads' \in Seq(LoadRecords) /\ DOMAIN loads' = DOMAIN loads /\ loads'[i] = x
      /\ \A j \in DOMAIN loads \ {i} : loads'[j] = loads[j]
  BY <1>1, <1>2, <1>3
<1>6. /\ provided' \in [Plugins -> [PluginTools -> Nat]]
      /\ \A t \in PluginTools : provided'[p][t] = IF t <= n THEN 0 ELSE provided[p][t]
      /\ \A q \in Plugins \ {p} : provided'[q] = provided[q]
  BY <1>1, <1>4
<1>7. PluginShape'
  BY <1>3, <1>5, <1>6 DEF PluginInv, PluginShape
<1>8. \A j \in DOMAIN loads : /\ loads'[j].plugin = loads[j].plugin /\ loads'[j].entry = loads[j].entry
                              /\ loads'[j].done = loads[j].done /\ loads'[j].count = loads[j].count
                              /\ loads'[j].module = loads[j].module /\ loads'[j].own = loads[j].own
                              /\ loads'[j].vouched = loads[j].vouched
  BY <1>2, <1>5
<1>9. ToolsAreOwned'
  <2> SUFFICES ASSUME NEW q \in Plugins, NEW t \in PluginTools, provided'[q][t] # 0
               PROVE  /\ provided'[q][t] \in DOMAIN loads' /\ loads'[provided'[q][t]].plugin = q
                      /\ t <= loads'[provided'[q][t]].count /\ loads'[provided'[q][t]].unloaded = 0
                      /\ loads'[provided'[q][t]].vouched
    BY DEF ToolsAreOwned
  <2>1. provided'[q][t] = provided[q][t] /\ (q = p => ~(t <= n))
    BY <1>6
  <2> DEFINE j == provided[q][t]
  <2>2. /\ j \in DOMAIN loads /\ loads[j].plugin = q /\ t <= loads[j].count /\ loads[j].unloaded = 0
        /\ loads[j].vouched
    BY <2>1 DEF PluginInv, ToolsAreOwned
  <2>3. j # i
    BY <2>1, <2>2
  <2> QED
    BY <1>5, <2>1, <2>2, <2>3
<1>10. HeldHasTools'
  <2> SUFFICES ASSUME NEW j \in DOMAIN loads', loads'[j].done, loads'[j].unloaded = 0, NEW t \in PluginTools
               PROVE  provided'[loads'[j].plugin][t] >= j \/ TakenSince(loads', j)
    BY DEF HeldHasTools
  <2>0. j \in DOMAIN loads /\ loads[j] \in LoadRecords /\ Len(loads) >= j
    BY <1>0, <1>5
  <2>1. /\ j \in DOMAIN loads /\ loads[j].plugin \in Plugins /\ loads'[j].plugin = loads[j].plugin /\ loads[j].done
        /\ Len(loads) >= j
    BY <1>8, <2>0 DEF LoadRecords
  <2>2. CASE loads[j].plugin = p
    <3>1. loads'[i].unloaded >= j /\ loads'[i].plugin = loads'[j].plugin
      BY <1>2, <1>5, <2>1, <2>2
    <3> QED
      BY <1>5, <3>1 DEF TakenSince
  <2>3. CASE loads[j].plugin # p
    <3>1. j # i /\ loads'[j] = loads[j]
      BY <1>5, <2>1, <2>3
    <3>2. provided[loads[j].plugin][t] >= j \/ TakenSince(loads, j)
      BY <2>1, <3>1 DEF PluginInv, HeldHasTools
    <3>3. ASSUME TakenSince(loads, j) PROVE TakenSince(loads', j)
      <4>1. PICK h \in DOMAIN loads : loads[j].plugin = loads[h].plugin /\ loads[h].unloaded >= j
        BY <3>3 DEF TakenSince
      <4>2. h # i /\ loads'[h] = loads[h]
        BY <1>5, <2>3, <4>1
      <4> QED
        BY <1>5, <3>1, <4>1, <4>2 DEF TakenSince
    <3> QED
      BY <1>6, <2>1, <2>3, <3>2, <3>3
  <2> QED
    BY <2>2, <2>3
<1>11. PathIsLoaded' /\ Once(searched)'
  <2>1. \A q \in Plugins : WasLoaded(loads', q) <=> WasLoaded(loads, q)
    BY <1>5, <1>8 DEF WasLoaded
  <2> QED
    BY <1>3, <2>1 DEF PluginInv, PathIsLoaded
<1>12. ASSUME NEW j \in DOMAIN loads', loads'[j].module # NoModule, loads'[j].module.of # loads'[j].plugin
       PROVE  ModuleExplained(loads', j)
  <2>1. j \in DOMAIN loads /\ j \in Nat /\ \A h \in 1..j : h \in DOMAIN loads
    BY <1>1, <1>5
  <2>2. ModuleExplained(loads, j)
    BY <1>8, <1>12, <2>1 DEF PluginInv, ModulesCameWithLoads
  <2>3. \A h \in 1..j : /\ loads'[h].plugin = loads[h].plugin /\ loads'[h].entry = loads[h].entry
                        /\ loads'[h].done = loads[h].done /\ loads'[h].module = loads[h].module
                        /\ loads'[h].own = loads[h].own
    BY <1>8, <2>1
  <2> QED
    BY <2>1, <2>2, <2>3, ExplainedStays
<1>13. ModulesCameWithLoads'
  <2>1. \A e \in Entries : imported'[e] # NoModule =>
          \E j \in DOMAIN loads' : loads'[j].entry = e /\ loads'[j].module = imported'[e]
    BY <1>3, <1>5, <1>8 DEF PluginInv, ModulesCameWithLoads
  <2> QED
    BY <1>12, <2>1 DEF ModulesCameWithLoads
<1> QED
  BY <1>7, <1>9, <1>10, <1>11, <1>13 DEF PluginInv

(* A tool in the registry is of the plugin its name says, from a load that    *)
(* nobody took back, done or failed at a later tool, of a manifest that was   *)
(* signed where that was required; a load that was done has its tools until   *)
(* they are replaced or taken away behind it; failed loads leave the path as  *)
(* it was; and a plugin runs its own file unless the name was imported before *)
(* or found in front of it (plugins/manifest.py, tools/registry.py).          *)
THEOREM ToolsStayOwned == PluginSpec => []PluginToolsAreOwned
<1>1. PluginInit => PluginInv
  <2> SUFFICES ASSUME PluginInit PROVE PluginInv
    OBVIOUS
  <2>1. /\ loads = << >> /\ DOMAIN loads = {} /\ loads \in Seq(LoadRecords)
        /\ searched = << >> /\ DOMAIN searched = {} /\ searched \in Seq(Plugins)
    BY DEF PluginInit
  <2>2. PluginShape /\ ToolsAreOwned
    BY <2>1 DEF PluginInit, PluginShape, ToolsAreOwned, Modules
  <2>3. HeldHasTools /\ PathIsLoaded /\ Once(searched)
    BY <2>1 DEF HeldHasTools, PathIsLoaded, HasDirectory, WasLoaded, Once
  <2>4. ModulesCameWithLoads
    BY <2>1 DEF PluginInit, ModulesCameWithLoads
  <2> QED
    BY <2>2, <2>3, <2>4 DEF PluginInv
<1>2. PluginInv /\ [PluginNext]_pluginVars => PluginInv'
  <2> SUFFICES ASSUME PluginInv, [PluginNext]_pluginVars PROVE PluginInv'
    OBVIOUS
  <2>1. ASSUME NEW p \in Plugins, Upgrade(p) PROVE PluginInv'
    <3>1. /\ edition' \in [Plugins -> Nat] /\ files' \in [Plugins -> SUBSET Entries]
          /\ UNCHANGED <<searched, imported, provided, loads>>
      BY <2>1 DEF Upgrade, PluginInv, PluginShape
    <3> QED
      BY <3>1 DEF PluginInv, PluginShape, ToolsAreOwned, HeldHasTools, PathIsLoaded,
                  ModulesCameWithLoads
  <2>2. CASE UNCHANGED pluginVars
    BY <2>2 DEF pluginVars, PluginInv, PluginShape, ToolsAreOwned, HeldHasTools, PathIsLoaded,
                ModulesCameWithLoads
  <2> QED
    BY <2>1, <2>2, LoadsKeep, UnloadKeeps DEF PluginNext
<1>3. PluginInv => PluginToolsAreOwned
  <2> SUFFICES ASSUME PluginInv PROVE PluginToolsAreOwned
    OBVIOUS
  <2>1. \A i \in DOMAIN loads :
          loads[i].done /\ loads[i].unloaded = 0 =>
            \A t \in PluginTools :
              \/ provided[loads[i].plugin][t] >= i
              \/ \E j \in DOMAIN loads : SamePlugin(i, j) /\ loads[j].unloaded >= i
    BY DEF PluginInv, HeldHasTools, TakenSince, SamePlugin
  <2>2. \A p \in Plugins :
          IsSearched(p) <=> \E i \in DOMAIN loads : loads[i].done /\ loads[i].plugin = p
    BY DEF PluginInv, PathIsLoaded, HasDirectory, IsSearched, WasLoaded
  <2>3. ASSUME NEW i \in DOMAIN loads, loads[i].module # NoModule, loads[i].module.of # loads[i].plugin
        PROVE  \E j \in 1..(i - 1) :
                 \/ ImportedBefore(i, j)
                 \/ loads[j].done /\ loads[j].plugin = loads[i].module.of
                    /\ (loads[i].own => \E h \in 1..(i - 1) : loads[h].done /\ SamePlugin(i, h))
    <3>1. ModuleExplained(loads, i)
      BY <2>3 DEF PluginInv, ModulesCameWithLoads
    <3>2. CASE \E j \in 1..(i - 1) : SameImport(loads, i, j)
      BY <3>2 DEF SameImport, ImportedBefore
    <3>3. CASE LoadedBefore(loads, i, loads[i].module.of)
               /\ (loads[i].own => LoadedBefore(loads, i, loads[i].plugin))
      <4>1. loads[i].own => \E h \in 1..(i - 1) : loads[h].done /\ SamePlugin(i, h)
        BY <3>3 DEF LoadedBefore, SamePlugin
      <4> QED
        BY <3>3, <4>1 DEF LoadedBefore
    <3> QED
      BY <3>1, <3>2, <3>3 DEF ModuleExplained
  <2>4. \A i, j \in DOMAIN searched : searched[i] = searched[j] => i = j
    BY DEF PluginInv, Once
  <2>5. \A p \in Plugins, t \in PluginTools :
          provided[p][t] # 0 => /\ loads[provided[p][t]].plugin = p /\ t <= loads[provided[p][t]].count
                                /\ loads[provided[p][t]].unloaded = 0 /\ loads[provided[p][t]].vouched
    BY DEF PluginInv, ToolsAreOwned
  <2> QED
    BY <2>1, <2>2, <2>3, <2>4, <2>5 DEF PluginToolsAreOwned
<1> QED
  BY <1>1, <1>2, <1>3, PTL DEF PluginSpec
-----------------------------------------------------------------------------
(* The catalog names files that are there; what is in place was verified as   *)
(* the install saw it; an install has verified what it saw before it          *)
(* extracts; and a row is marked once something is in place.                  *)
AnyKey == Keys \cup {NoKey}
PackRecords == [contents : Nat, digest : Nat, signer : AnyKey]
Rows == [file : PackFiles, key : AnyKey, red : BOOLEAN, installed : BOOLEAN]
InstallRecords ==
  [stage : {"none", "found", "verified", "extracted"}, row : Nat, key : AnyKey, red : BOOLEAN, seen : PackRecords]
PlaceRecords == [pack : PackRecords, seen : PackRecords, key : AnyKey, red : BOOLEAN]
PackShape ==
  /\ packs \in [PackFiles -> PackRecords] /\ edits \in Nat
  /\ catalog \in Seq(Rows) /\ install \in InstallRecords /\ inPlace \in [PackFiles -> PlaceRecords]
RowsHavePacks == \A i \in DOMAIN catalog : packs[catalog[i].file].contents # 0
PlaceHolds(there) ==
  there.pack.contents # 0 =>
    /\ SignatureHolds(there.seen, there.key)
    /\ there.red => HashHolds(there.seen)
    /\ ~there.red => there.pack.digest = Unlisted \/ HashHolds(there.pack)
InstallIsSound ==
  /\ install.stage # "none" => install.row \in DOMAIN catalog
  /\ install.stage = "verified" =>
       SignatureHolds(install.seen, install.key) /\ (install.red => HashHolds(install.seen))
  /\ install.stage = "extracted" => inPlace[catalog[install.row].file].pack.contents # 0
MarkedInPlace == \A i \in DOMAIN catalog : catalog[i].installed => inPlace[catalog[i].file].pack.contents # 0
PackInv ==
  /\ PackShape /\ RowsHavePacks /\ (\A f \in PackFiles : PlaceHolds(inPlace[f]))
  /\ InstallIsSound /\ MarkedInPlace

(* The catalog finds the last row of a name where it has one: it has a        *)
(* greatest number, rows being finite.                                        *)
LEMMA RowOfName ==
  ASSUME PackInv, NEW f \in PackFiles, \E i \in DOMAIN catalog : catalog[i].file = f
  PROVE  LastOf(f) \in DOMAIN catalog
<1> DEFINE D == {d \in Nat : d < Len(catalog) /\ catalog[Len(catalog) - d].file = f}
<1>1. catalog \in Seq(Rows) /\ Len(catalog) \in Nat /\ DOMAIN catalog = 1..Len(catalog)
  BY DEF PackInv, PackShape
<1>2. PICK i \in DOMAIN catalog : catalog[i].file = f
  OBVIOUS
<1>3. Len(catalog) - i \in D
  <2>1. Len(catalog) - (Len(catalog) - i) = i
    BY <1>1
  <2> QED
    BY <1>1, <1>2, <2>1
<1>4. PICK d \in D : \A c \in D : ~(<<c, d>> \in OpToRel(<, Nat))
  <2>1. D \in SUBSET Nat /\ D # {}
    BY <1>3
  <2> QED
    BY <2>1, NatLessThanWellFounded, WFMin
<1> DEFINE k == Len(catalog) - d
<1>5. d \in Nat /\ d < Len(catalog) /\ catalog[k].file = f /\ k \in DOMAIN catalog
  <2>1. d \in D
    OBVIOUS
  <2> QED
    BY <1>1, <2>1
<1>6. ASSUME NEW j \in DOMAIN catalog, catalog[j].file = f
      PROVE  j <= k
  <2>1. Len(catalog) - j \in Nat /\ Len(catalog) - j < Len(catalog) /\ Len(catalog) - (Len(catalog) - j) = j
    BY <1>1
  <2>2. Len(catalog) - j \in D
    BY <1>6, <2>1
  <2>3. ~(Len(catalog) - j < d)
    BY <1>4, <1>5, <2>1, <2>2 DEF OpToRel
  <2> QED
    BY <1>1, <1>5, <2>3
<1> QED
  BY <1>5, <1>6 DEF LastOf

(* The install that is none is at no stage.                                   *)
LEMMA NoInstallIs == NoInstall \in InstallRecords /\ NoInstall.stage = "none"
BY DEF NoInstall, InstallRecords, NoPack, Unlisted, PackRecords, AnyKey

(* A pack file may be written over at any time, so long as it is not removed: *)
(* what was extracted of it is apart.                                         *)
LEMMA FilesChange ==
  ASSUME PackInv, packs' \in [PackFiles -> PackRecords], edits' \in Nat, UNCHANGED <<catalog, install, inPlace>>,
         \A f \in PackFiles : packs[f].contents # 0 => packs'[f].contents # 0
  PROVE  PackInv'
<1>1. PackShape'
  BY DEF PackInv, PackShape
<1>2. \A i \in DOMAIN catalog : catalog[i].file \in PackFiles
  <2>1. \A i \in DOMAIN catalog : catalog[i] \in Rows
    BY DEF PackInv, PackShape
  <2> QED
    BY <2>1 DEF Rows
<1>3. RowsHavePacks'
  BY <1>2 DEF PackInv, RowsHavePacks
<1> QED
  BY <1>1, <1>3 DEF PackInv, InstallIsSound, MarkedInPlace

(* Building, signing and damaging a file keep the invariant (skills/pack.py). *)
LEMMA PackKeeps ==
  ASSUME PackInv, NEW f \in PackFiles, NEW k \in AnyKey, Pack(f, k) \/ PackUnlisted(f, k) \/ Sign(f, k) \/ Damaged(f)
  PROVE  PackInv'
<1>1. packs \in [PackFiles -> PackRecords] /\ edits \in Nat /\ edits + 1 \in Nat /\ edits + 1 # 0
  BY DEF PackInv, PackShape
<1>2. packs[f] \in PackRecords
  BY <1>1
<1>3. PICK x \in PackRecords : /\ packs' = [packs EXCEPT ![f] = x] /\ (packs[f].contents # 0 => x.contents # 0)
                               /\ edits' \in Nat /\ UNCHANGED <<catalog, install, inPlace>>
  <2>1. CASE Pack(f, k)
    <3> DEFINE x == [contents |-> edits + 1, digest |-> edits + 1, signer |-> k]
    <3>1. x \in PackRecords /\ x.contents # 0
      BY <1>1 DEF PackRecords
    <3>2. packs' = [packs EXCEPT ![f] = x] /\ edits' = edits + 1 /\ UNCHANGED <<catalog, install, inPlace>>
      BY <2>1 DEF Pack
    <3> QED
      BY <1>1, <3>1, <3>2
  <2>4. CASE PackUnlisted(f, k)
    <3> DEFINE x == [contents |-> edits + 1, digest |-> Unlisted, signer |-> k]
    <3>1. x \in PackRecords /\ x.contents # 0
      BY <1>1 DEF PackRecords, Unlisted
    <3>2. packs' = [packs EXCEPT ![f] = x] /\ edits' = edits + 1 /\ UNCHANGED <<catalog, install, inPlace>>
      BY <2>4 DEF PackUnlisted
    <3> QED
      BY <1>1, <3>1, <3>2
  <2>2. CASE Sign(f, k)
    <3> DEFINE x == [packs[f] EXCEPT !.signer = k]
    <3>1. x \in PackRecords /\ x.contents = packs[f].contents
      BY <1>2 DEF PackRecords
    <3>2. packs' = [packs EXCEPT ![f] = x] /\ UNCHANGED <<edits, catalog, install, inPlace>>
      BY <1>1, <2>2 DEF Sign
    <3> QED
      BY <1>1, <3>1, <3>2
  <2>3. CASE Damaged(f)
    <3> DEFINE x == [packs[f] EXCEPT !.contents = edits + 1]
    <3>1. x \in PackRecords /\ x.contents # 0
      BY <1>1, <1>2 DEF PackRecords
    <3>2. packs' = [packs EXCEPT ![f] = x] /\ edits' = edits + 1 /\ UNCHANGED <<catalog, install, inPlace>>
      BY <1>1, <2>3 DEF Damaged
    <3> QED
      BY <1>1, <3>1, <3>2
  <2> QED
    BY <2>1, <2>2, <2>3, <2>4
<1>4. packs' \in [PackFiles -> PackRecords]
  BY <1>1, <1>3
<1>5. \A g \in PackFiles : packs[g].contents # 0 => packs'[g].contents # 0
  BY <1>1, <1>3
<1> QED
  BY <1>3, <1>4, <1>5, FilesChange

(* Publishing appends a row for a file that is there, or replaces one of it   *)
(* (marketplace/registry.py).                                                 *)
LEMMA PublishKeeps ==
  ASSUME PackInv, NEW f \in PackFiles, NEW k \in AnyKey, PublishPack(f, k)
  PROVE  PackInv'
<1>1. PICK red \in BOOLEAN :
        catalog' = Append(catalog, [file |-> f, key |-> k, red |-> red, installed |-> FALSE])
  BY DEF PublishPack
<1> DEFINE r == [file |-> f, key |-> k, red |-> red, installed |-> FALSE]
<1>2. r \in Rows /\ r.file = f /\ ~r.installed
  BY DEF Rows
<1>3. catalog' = Append(catalog, r)
  BY <1>1
<1> HIDE DEF r
<1>4. catalog \in Seq(Rows)
  BY DEF PackInv, PackShape
<1>5. /\ catalog' \in Seq(Rows) /\ DOMAIN catalog' = DOMAIN catalog \cup {Len(catalog) + 1}
      /\ \A i \in DOMAIN catalog : catalog'[i] = catalog[i]
      /\ catalog'[Len(catalog) + 1] = r
  BY <1>2, <1>3, <1>4
<1>6. packs[f].contents # 0 /\ UNCHANGED <<packs, edits, install, inPlace>>
  BY DEF PublishPack
<1>7. PackShape'
  BY <1>5, <1>6 DEF PackInv, PackShape
<1>8. RowsHavePacks'
  BY <1>2, <1>5, <1>6 DEF PackInv, RowsHavePacks
<1>9. InstallIsSound'
  BY <1>5, <1>6 DEF PackInv, InstallIsSound
<1>10. MarkedInPlace'
  BY <1>2, <1>5, <1>6 DEF PackInv, MarkedInPlace
<1> QED
  BY <1>6, <1>7, <1>8, <1>9, <1>10 DEF PackInv

(* An install that moves on with nothing in place changed keeps the invariant *)
(* when it is sound.                                                          *)
LEMMA InstallChanges ==
  ASSUME PackInv, install' \in InstallRecords, UNCHANGED <<packs, edits, catalog, inPlace>>, InstallIsSound'
  PROVE  PackInv'
BY DEF PackInv, PackShape, RowsHavePacks, MarkedInPlace

(* An install begins with a row of the catalog.                               *)
LEMMA LookupKeeps ==
  ASSUME PackInv, NEW f \in PackFiles, NEW k \in AnyKey, Lookup(f, k)
  PROVE  PackInv'
<1> DEFINE i == LastOf(f)
<1>1. i \in DOMAIN catalog
  BY RowOfName DEF Lookup
<1>2. catalog[i] \in Rows /\ i \in Nat
  BY <1>1 DEF PackInv, PackShape
<1>3. UNCHANGED <<packs, edits, catalog, inPlace>>
  BY DEF Lookup
<1>4. install' = [NoInstall EXCEPT !.stage = "found", !.row = i, !.red = catalog[i].red,
                                   !.key = IF k # NoKey THEN k ELSE catalog[i].key]
  BY DEF Lookup
<1> HIDE DEF i
<1>5. install' \in InstallRecords /\ install'.stage = "found" /\ install'.row = i
  BY <1>2, <1>4, NoInstallIs DEF InstallRecords, Rows, AnyKey, NoInstall
<1>6. InstallIsSound'
  BY <1>1, <1>3, <1>5 DEF InstallIsSound
<1> QED
  BY <1>3, <1>5, <1>6, InstallChanges

(* An install that stops leaves what was in place.                            *)
LEMMA StopKeeps ==
  ASSUME PackInv, install' = NoInstall, UNCHANGED <<packs, edits, catalog, inPlace>>
  PROVE  PackInv'
<1>1. install' \in InstallRecords /\ install'.stage = "none"
  BY NoInstallIs
<1>2. InstallIsSound'
  BY <1>1 DEF InstallIsSound
<1> QED
  BY <1>1, <1>2, InstallChanges

(* The file of an install under way is one the catalog names.                 *)
LEMMA InstallFileIs ==
  ASSUME PackInv, install.stage # "none"
  PROVE  /\ install.row \in DOMAIN catalog /\ catalog[install.row] \in Rows
         /\ catalog[install.row].file \in PackFiles
         /\ InstallFile \in PackRecords /\ InstallFile.contents # 0
<1>1. install.row \in DOMAIN catalog /\ catalog[install.row] \in Rows
  BY DEF PackInv, PackShape, InstallIsSound
<1>2. catalog[install.row].file \in PackFiles
  BY <1>1 DEF Rows
<1> QED
  BY <1>1, <1>2 DEF PackInv, PackShape, RowsHavePacks, InstallFile

(* What an install has verified is the file as it was read                    *)
(* (marketplace/client.py).                                                   *)
LEMMA VerifiedKeeps ==
  ASSUME PackInv, Verified
  PROVE  PackInv'
<1>1. install.stage = "found" /\ UNCHANGED <<packs, edits, catalog, inPlace>>
  BY DEF Verified
<1>2. CASE install' = NoInstall
  BY <1>1, <1>2, StopKeeps
<1>3. CASE /\ SignatureHolds(InstallFile, install.key) /\ (install.red => HashHolds(InstallFile))
           /\ install' = [install EXCEPT !.stage = "verified", !.seen = InstallFile]
  <2>1. install \in InstallRecords /\ InstallFile \in PackRecords /\ install.row \in DOMAIN catalog
    BY <1>1, InstallFileIs DEF PackInv, PackShape
  <2>2. /\ install' \in InstallRecords /\ install'.stage = "verified" /\ install'.row = install.row
        /\ install'.seen = InstallFile /\ install'.key = install.key /\ install'.red = install.red
    BY <1>3, <2>1 DEF InstallRecords
  <2>3. InstallIsSound'
    BY <1>1, <1>3, <2>1, <2>2 DEF InstallIsSound, SignatureHolds, HashHolds
  <2> QED
    BY <1>1, <2>2, <2>3, InstallChanges
<1> QED
  BY <1>2, <1>3 DEF Verified

(* What is extracted is the file as it is by then: it is sound if that is     *)
(* what was verified.                                                         *)
LEMMA ExtractedKeeps ==
  ASSUME PackInv, Extracted
  PROVE  PackInv'
<1>1. install.stage = "verified" /\ UNCHANGED <<packs, edits, catalog>>
  BY DEF Extracted
<1>2. CASE install' = NoInstall /\ UNCHANGED inPlace
  BY <1>1, <1>2, StopKeeps
<1>3. CASE /\ Extractable(InstallFile)
           /\ inPlace' = [inPlace EXCEPT ![catalog[install.row].file] =
                            [pack |-> InstallFile, seen |-> install.seen, key |-> install.key, red |-> install.red]]
           /\ install' = [install EXCEPT !.stage = "extracted"]
  <2> DEFINE g == catalog[install.row].file
             x == [pack |-> InstallFile, seen |-> install.seen, key |-> install.key, red |-> install.red]
  <2>1. install \in InstallRecords /\ InstallFile \in PackRecords /\ install.row \in DOMAIN catalog /\ g \in PackFiles
        /\ InstallFile.contents # 0 /\ inPlace \in [PackFiles -> PlaceRecords] /\ catalog \in Seq(Rows)
    BY <1>1, InstallFileIs DEF PackInv, PackShape
  <2>2. x \in PlaceRecords
    BY <2>1 DEF PlaceRecords, InstallRecords
  <2>3. PlaceHolds(x) /\ x.pack.contents # 0
    <3>1. SignatureHolds(install.seen, install.key) /\ (install.red => HashHolds(install.seen))
      BY <1>1 DEF PackInv, InstallIsSound
    <3>2. install.red \/ InstallFile.digest = Unlisted \/ HashHolds(InstallFile)
      BY <1>3 DEF Extractable
    <3> QED
      BY <2>1, <3>1, <3>2 DEF PlaceHolds
  <2>4. inPlace' = [inPlace EXCEPT ![g] = x]
    BY <1>3
  <2>5. install' \in InstallRecords /\ install'.stage = "extracted" /\ install'.row = install.row
    BY <1>3, <2>1 DEF InstallRecords
  <2> HIDE DEF x
  <2>6. /\ inPlace' \in [PackFiles -> PlaceRecords] /\ inPlace'[g] = x
        /\ \A f \in PackFiles \ {g} : inPlace'[f] = inPlace[f]
    BY <2>1, <2>2, <2>4
  <2>7. PackShape'
    BY <1>1, <2>5, <2>6 DEF PackInv, PackShape
  <2>8. RowsHavePacks'
    BY <1>1 DEF PackInv, RowsHavePacks
  <2>9. \A f \in PackFiles : PlaceHolds(inPlace'[f])
    BY <2>3, <2>6 DEF PackInv
  <2>10. InstallIsSound'
    BY <1>1, <2>1, <2>3, <2>5, <2>6 DEF InstallIsSound
  <2>11. MarkedInPlace'
    <3>1. \A i \in DOMAIN catalog : catalog[i] \in Rows
      BY <2>1
    <3>2. \A i \in DOMAIN catalog : catalog[i].file \in PackFiles
      BY <3>1 DEF Rows
    <3> QED
      BY <1>1, <2>3, <2>6, <3>2 DEF PackInv, MarkedInPlace
  <2>12. (\A f \in PackFiles : PlaceHolds(inPlace[f]))'
    BY <2>9
  <2> QED
    BY <2>7, <2>8, <2>10, <2>11, <2>12 DEF PackInv
<1> QED
  BY <1>2, <1>3 DEF Extracted

(* The row is marked installed once the pack is in place.                     *)
LEMMA MarkedKeeps ==
  ASSUME PackInv, Marked
  PROVE  PackInv'
<1>1. /\ install.stage = "extracted" /\ install' = NoInstall /\ UNCHANGED <<packs, edits, inPlace>>
      /\ catalog' = [catalog EXCEPT ![install.row].installed = TRUE]
  BY DEF Marked
<1> DEFINE i == install.row
           x == [catalog[i] EXCEPT !.installed = TRUE]
<1>2. i \in DOMAIN catalog /\ catalog[i] \in Rows /\ catalog \in Seq(Rows)
  BY <1>1, InstallFileIs DEF PackInv, PackShape
<1>3. x \in Rows /\ x.file = catalog[i].file
  BY <1>2 DEF Rows
<1>4. catalog' = [catalog EXCEPT ![i] = x]
  BY <1>1, <1>2
<1> HIDE DEF x
<1>5. /\ catalog' \in Seq(Rows) /\ DOMAIN catalog' = DOMAIN catalog /\ catalog'[i] = x
      /\ \A j \in DOMAIN catalog \ {i} : catalog'[j] = catalog[j]
  BY <1>2, <1>3, <1>4
<1>6. PackShape'
  BY <1>1, <1>5, NoInstallIs DEF PackInv, PackShape
<1>7. RowsHavePacks'
  BY <1>1, <1>2, <1>3, <1>5 DEF PackInv, RowsHavePacks
<1>8. InstallIsSound'
  BY <1>1, NoInstallIs DEF InstallIsSound
<1>9. MarkedInPlace'
  BY <1>1, <1>2, <1>3, <1>5 DEF PackInv, MarkedInPlace, InstallIsSound
<1> QED
  BY <1>1, <1>6, <1>7, <1>8, <1>9 DEF PackInv

(* Whatever happens to a pack's file during an install, what was seen of it   *)
(* was verified; a skill that is in place fits the manifest it was read with, *)
(* unless that does not name it; and a row marked as installed has something  *)
(* in place (skills/pack.py, redteam/pack.py, marketplace/registry.py).       *)
THEOREM PacksStayVerified == PackSpec => []InstalledIsVerified
<1>1. PackInit => PackInv
  <2> SUFFICES ASSUME PackInit PROVE PackInv
    OBVIOUS
  <2>1. NoPack \in PackRecords /\ NoKey \in AnyKey /\ NoPack.contents = 0
    BY DEF NoPack, Unlisted, PackRecords, AnyKey
  <2>2. catalog = <<>> /\ DOMAIN catalog = {} /\ catalog \in Seq(Rows)
    BY DEF PackInit
  <2>3. packs \in [PackFiles -> PackRecords] /\ edits \in Nat /\ inPlace \in [PackFiles -> PlaceRecords]
    BY <2>1 DEF PackInit, PlaceRecords
  <2>4. install = NoInstall
    BY DEF PackInit
  <2>5. \A f \in PackFiles : PlaceHolds(inPlace[f])
    BY <2>1 DEF PackInit, PlaceHolds
  <2> QED
    BY <2>2, <2>3, <2>4, <2>5, NoInstallIs DEF PackInv, PackShape, RowsHavePacks, InstallIsSound, MarkedInPlace
<1>2. PackInv /\ [PackNext]_packVars => PackInv'
  <2> SUFFICES ASSUME PackInv, [PackNext]_packVars PROVE PackInv'
    OBVIOUS
  <2>1. CASE UNCHANGED packVars
    BY <2>1 DEF packVars, PackInv, PackShape, RowsHavePacks, PlaceHolds, InstallIsSound, MarkedInPlace
  <2>2. CASE InstallStops
    BY <2>2, StopKeeps DEF InstallStops
  <2>3. ASSUME NEW f \in PackFiles, Damaged(f) PROVE PackInv'
    <3>1. NoKey \in AnyKey
      BY DEF AnyKey
    <3> QED
      BY <2>3, <3>1, PackKeeps
  <2>4. ASSUME NEW f \in PackFiles, NEW k \in AnyKey,
               Pack(f, k) \/ PackUnlisted(f, k) \/ Sign(f, k) \/ PublishPack(f, k) \/ Lookup(f, k)
        PROVE  PackInv'
    BY <2>4, PackKeeps, PublishKeeps, LookupKeeps
  <2>5. Keys \cup {NoKey} = AnyKey
    BY DEF AnyKey
  <2> QED
    BY <2>1, <2>2, <2>3, <2>4, <2>5, VerifiedKeeps, ExtractedKeeps, MarkedKeeps DEF PackNext
<1>3. PackInv => InstalledIsVerified
  BY DEF PackInv, PlaceHolds, MarkedInPlace, InstalledIsVerified
<1> QED
  BY <1>1, <1>2, <1>3, PTL DEF PackSpec
-----------------------------------------------------------------------------
(* A review under way has a row; what it wrote was in the file; while nobody  *)
(* disturbs the file, at most one reviewer writes it, what that one will write*)
(* has all that is kept and has no escape, and otherwise the file has it; and *)
(* what the file has, or a reviewer will write, comes of defaults and of what *)
(* was applied.                                                               *)
ProfileTexts == [own : Nat, block : BOOLEAN, bullets : SUBSET BulletTexts]
Suggestions == [item : Bullets, status : {"pending", "rejected", "applied"}]
Reviews == [at : {"idle", "chosen", "rendered", "writing", "written"}, id : Nat, text : ProfileTexts]
ProfileShape ==
  /\ suggestions \in Seq(Suggestions) /\ profile \in ProfileTexts
  /\ reviewer \in [Reviewers -> Reviews] /\ handEdits \in Nat
  /\ ownText \in Nat /\ disturbed \in BOOLEAN
RowsAreUnique == \A i, j \in DOMAIN suggestions : suggestions[i] = suggestions[j] => i = j
ItemOf(r) == suggestions[reviewer[r].id].item
ReviewsChose == \A r \in Reviewers : ~ReviewAt(r, "idle") => reviewer[r].id \in DOMAIN suggestions
AppliedWasIn ==
  /\ \A r \in Reviewers : ReviewAt(r, "written") => ItemOf(r) \in kept \cup dropped
  /\ \A i \in DOMAIN suggestions : suggestions[i].status = "applied" => suggestions[i].item \in kept \cup dropped
TextHolds(r) ==
  /\ kept \cap Literal \subseteq reviewer[r].text.bullets /\ reviewer[r].text.own = ownText
  /\ {ItemOf(r)} \cap Literal \subseteq reviewer[r].text.bullets
FileIsKept ==
  ~disturbed =>
    /\ \A r, s \in Writing : r = s
    /\ (\A r \in Reviewers : ~ReviewAt(r, "writing")) =>
         kept \cap Literal \subseteq profile.bullets /\ profile.own = ownText
    /\ \A r \in Writing : TextHolds(r)
ComeOf(texts, items) == \A t \in texts \ DefaultBullets : \E b \in items : IsFormOf(t, b)
BlockIsExplained ==
  /\ ComeOf(profile.bullets, kept \cup dropped)
  /\ \A r \in Writing : ComeOf(reviewer[r].text.bullets, kept \cup dropped \cup {ItemOf(r)})
ProfileInv ==
  ProfileShape /\ RowsAreUnique /\ ReviewsChose /\ AppliedWasIn /\ FileIsKept /\ BlockIsExplained

(* A reviewer without a review is idle, and the first profile is a profile.   *)
LEMMA NoReviewIs ==
  NoReview \in Reviews /\ NoReview.at = "idle" /\ Blank \in ProfileTexts /\ Blank.bullets = {}
BY DEF NoReview, Reviews, Blank, ProfileTexts

(* More may have been applied.                                                *)
LEMMA ComeOfMore ==
  ASSUME NEW texts, NEW items, NEW more, items \subseteq more, ComeOf(texts, items)
  PROVE  ComeOf(texts, more)
BY DEF ComeOf

(* A text is a form of itself, and so is what its escapes make of a form; what*)
(* is rendered comes of what was to be rendered, and of that it has all that  *)
(* is literal (profile.py).                                                   *)
LEMMA RenderedIs ==
  ASSUME NEW file \in ProfileTexts, NEW bs \in SUBSET BulletTexts
  PROVE  /\ Rendered(file, bs) \in SUBSET BulletTexts
         /\ bs \cap Literal \subseteq Rendered(file, bs)
         /\ \A items : ComeOf(bs, items) => ComeOf(Rendered(file, bs), items)
<1>1. /\ Unescaped \in [BulletTexts -> SUBSET BulletTexts]
      /\ \A b \in DefaultBullets : Unescaped[b] = {b}
  BY ProfileAssumption
<1>2. CASE ~file.block
  BY <1>2 DEF Rendered
<1>3. CASE file.block
  <2>1. Rendered(file, bs) = UNION {Unescaped[b] : b \in bs}
    BY <1>3 DEF Rendered
  <2>2. Rendered(file, bs) \in SUBSET BulletTexts
    BY <1>1, <2>1
  <2>3. bs \cap Literal \subseteq Rendered(file, bs)
    BY <2>1 DEF Literal
  <2>4. ASSUME NEW items, ComeOf(bs, items), NEW t \in Rendered(file, bs) \ DefaultBullets
        PROVE  \E b \in items : IsFormOf(t, b)
    <3>1. PICK x \in bs : t \in Unescaped[x]
      BY <2>1
    <3>2. x \notin DefaultBullets
      BY <1>1, <3>1
    <3>3. PICK b \in items : IsFormOf(x, b)
      BY <2>4, <3>2 DEF ComeOf
    <3>4. IsFormOf(t, b)
      BY <3>1, <3>3 DEF IsFormOf
    <3> QED
      BY <3>4
  <2> QED
    BY <2>2, <2>3, <2>4 DEF ComeOf
<1> QED
  BY <1>2, <1>3

(* The rows change, and each keeps its item.                                  *)
LEMMA RowsChange ==
  ASSUME ProfileInv, suggestions' \in Seq(Suggestions), DOMAIN suggestions \subseteq DOMAIN suggestions',
         \A i \in DOMAIN suggestions : suggestions'[i].item = suggestions[i].item,
         \A i \in DOMAIN suggestions' : suggestions'[i].status = "applied" =>
           suggestions'[i].item \in kept \cup dropped,
         RowsAreUnique',
         UNCHANGED <<profile, reviewer, handEdits, kept, dropped, ownText, disturbed>>
  PROVE  ProfileInv'
<1>1. \A r \in Reviewers : ~ReviewAt(r, "idle") => ItemOf(r)' = ItemOf(r)
  BY DEF ProfileInv, ReviewsChose, ItemOf
<1>2. Writing' = Writing /\ \A r \in Writing : r \in Reviewers /\ ~ReviewAt(r, "idle")
  BY DEF Writing, ReviewAt
<1>3. ProfileShape'
  BY DEF ProfileInv, ProfileShape
<1>4. ReviewsChose'
  BY DEF ProfileInv, ReviewsChose, ReviewAt
<1>5. AppliedWasIn'
  <2>1. \A r \in Reviewers : ReviewAt(r, "written") => ~ReviewAt(r, "idle")
    BY DEF ReviewAt
  <2> QED
    BY <1>1, <2>1 DEF ProfileInv, AppliedWasIn, ReviewAt
<1>6. FileIsKept'
  <2>1. \A r \in Writing : TextHolds(r) => TextHolds(r)'
    BY <1>1, <1>2 DEF TextHolds
  <2> QED
    BY <1>2, <2>1 DEF ProfileInv, FileIsKept, ReviewAt
<1>7. BlockIsExplained'
  BY <1>1, <1>2 DEF ProfileInv, BlockIsExplained
<1> QED
  BY <1>3, <1>4, <1>5, <1>6, <1>7 DEF ProfileInv

(* A suggestion is stored unless the same pending one is there                *)
(* (profile_learning.py).                                                     *)
LEMMA SuggestKeeps ==
  ASSUME ProfileInv, NEW b \in Bullets, Suggest(b)
  PROVE  ProfileInv'
<1> DEFINE x == [item |-> b, status |-> "pending"]
<1>1. x \in Suggestions /\ x.status # "applied" /\ suggestions \in Seq(Suggestions)
  BY DEF Suggestions, ProfileInv, ProfileShape
<1>2. suggestions' = Append(suggestions, x)
  BY DEF Suggest
<1>3. \A i \in DOMAIN suggestions : suggestions[i] # x
  BY DEF Suggest, Has
<1>4. UNCHANGED <<profile, reviewer, handEdits, kept, dropped, ownText, disturbed>>
  BY DEF Suggest
<1> HIDE DEF x
<1>5. /\ suggestions' \in Seq(Suggestions) /\ DOMAIN suggestions' = DOMAIN suggestions \cup {Len(suggestions) + 1}
      /\ \A i \in DOMAIN suggestions : suggestions'[i] = suggestions[i]
      /\ suggestions'[Len(suggestions) + 1] = x
  BY <1>1, <1>2
<1>6. RowsAreUnique'
  BY <1>3, <1>5 DEF ProfileInv, RowsAreUnique
<1>7. \A i \in DOMAIN suggestions' : suggestions'[i].status = "applied" => suggestions'[i].item \in kept \cup dropped
  BY <1>1, <1>5 DEF ProfileInv, AppliedWasIn
<1> QED
  BY <1>4, <1>5, <1>6, <1>7, RowsChange

(* A row takes a new status unless another row of its item has that status    *)
(* already.                                                                   *)
LEMMA StatusKeeps ==
  ASSUME ProfileInv, NEW i \in DOMAIN suggestions, NEW status \in {"rejected", "applied"}, Free(i, status),
         suggestions' = [suggestions EXCEPT ![i].status = status],
         status = "applied" => suggestions[i].item \in kept \cup dropped,
         UNCHANGED <<profile, reviewer, handEdits, kept, dropped, ownText, disturbed>>
  PROVE  ProfileInv'
<1> DEFINE x == [suggestions[i] EXCEPT !.status = status]
<1>1. suggestions \in Seq(Suggestions) /\ suggestions[i] \in Suggestions
  BY DEF ProfileInv, ProfileShape
<1>2. x \in Suggestions /\ x.item = suggestions[i].item /\ x.status = status
  BY <1>1 DEF Suggestions
<1>3. suggestions' = [suggestions EXCEPT ![i] = x]
  OBVIOUS
<1>4. \A j \in DOMAIN suggestions \ {i} : suggestions[j] # x
  BY DEF Free
<1> HIDE DEF x
<1>5. /\ suggestions' \in Seq(Suggestions) /\ DOMAIN suggestions' = DOMAIN suggestions /\ suggestions'[i] = x
      /\ \A j \in DOMAIN suggestions \ {i} : suggestions'[j] = suggestions[j]
  BY <1>1, <1>2, <1>3
<1>6. RowsAreUnique'
  BY <1>4, <1>5 DEF ProfileInv, RowsAreUnique
<1>7. \A j \in DOMAIN suggestions' : suggestions'[j].status = "applied" => suggestions'[j].item \in kept \cup dropped
  BY <1>2, <1>5 DEF ProfileInv, AppliedWasIn
<1>8. \A j \in DOMAIN suggestions : suggestions'[j].item = suggestions[j].item
  BY <1>2, <1>5
<1> QED
  BY <1>5, <1>6, <1>7, <1>8, RowsChange

(* A review moves on to v, and the file and the histories follow.             *)
LEMMA ReviewMoves ==
  ASSUME ProfileInv, NEW r \in Reviewers, NEW v \in Reviews, reviewer' = [reviewer EXCEPT ![r] = v],
         UNCHANGED <<suggestions, handEdits, ownText>>, profile' \in ProfileTexts, disturbed' \in BOOLEAN,
         kept \cup dropped \subseteq kept' \cup dropped',
         v.at # "idle" => v.id \in DOMAIN suggestions,
         v.at = "written" => suggestions[v.id].item \in kept' \cup dropped',
         FileIsKept', BlockIsExplained'
  PROVE  ProfileInv'
<1>1. /\ reviewer \in [Reviewers -> Reviews] /\ reviewer' \in [Reviewers -> Reviews] /\ reviewer'[r] = v
      /\ \A s \in Reviewers \ {r} : reviewer'[s] = reviewer[s]
  BY DEF ProfileInv, ProfileShape
<1>2. ProfileShape'
  BY <1>1 DEF ProfileInv, ProfileShape
<1>3. RowsAreUnique'
  BY DEF ProfileInv, RowsAreUnique
<1>4. ReviewsChose'
  BY <1>1 DEF ProfileInv, ReviewsChose, ReviewAt
<1>5. AppliedWasIn'
  <2>1. ASSUME NEW s \in Reviewers, reviewer'[s].at = "written"
        PROVE  suggestions[reviewer'[s].id].item \in kept' \cup dropped'
    BY <1>1, <2>1 DEF ProfileInv, AppliedWasIn, ItemOf, ReviewAt
  <2>2. \A i \in DOMAIN suggestions : suggestions[i].status = "applied" => suggestions[i].item \in kept' \cup dropped'
    BY DEF ProfileInv, AppliedWasIn
  <2> QED
    BY <2>1, <2>2 DEF AppliedWasIn, ItemOf, ReviewAt
<1> QED
  BY <1>2, <1>3, <1>4, <1>5 DEF ProfileInv

(* Who is writing behind the step.                                            *)
LEMMA WritersAfter ==
  ASSUME ProfileInv, NEW r \in Reviewers, NEW v \in Reviews, reviewer' = [reviewer EXCEPT ![r] = v]
  PROVE  /\ reviewer'[r] = v /\ \A s \in Reviewers \ {r} : reviewer'[s] = reviewer[s]
         /\ Writing' = (Writing \ {r}) \cup (IF v.at \in {"rendered", "writing"} THEN {r} ELSE {})
<1>1. reviewer \in [Reviewers -> Reviews]
  BY DEF ProfileInv, ProfileShape
<1> QED
  BY <1>1 DEF Writing

(* A review goes from one point to another of which neither touches the file. *)
LEMMA AsideKeeps ==
  ASSUME ProfileInv, NEW r \in Reviewers, NEW v \in Reviews, reviewer' = [reviewer EXCEPT ![r] = v],
         UNCHANGED <<suggestions, profile, handEdits, kept, dropped, ownText>>,
         v.at \in {"idle", "chosen"}, v.at # "idle" => v.id \in DOMAIN suggestions,
         disturbed' \in BOOLEAN, disturbed \/ ReviewAt(r, "writing") => disturbed'
  PROVE  ProfileInv'
<1>1. /\ reviewer'[r] = v /\ \A s \in Reviewers \ {r} : reviewer'[s] = reviewer[s]
      /\ Writing' = Writing \ {r}
  BY WritersAfter
<1>2. FileIsKept'
  <2> SUFFICES ASSUME ~disturbed' PROVE FileIsKept'
    BY DEF FileIsKept
  <2>1. ~disturbed /\ ~ReviewAt(r, "writing")
    OBVIOUS
  <2>2. \A s \in Writing' : s \in Reviewers \ {r} /\ s \in Writing /\ TextHolds(s)
    BY <1>1, <2>1 DEF ProfileInv, FileIsKept, Writing
  <2>3. \A s \in Writing' : TextHolds(s)'
    BY <1>1, <2>2 DEF TextHolds, ItemOf
  <2>4. (\A s \in Reviewers : reviewer'[s].at # "writing") => \A s \in Reviewers : ~ReviewAt(s, "writing")
    BY <1>1, <2>1 DEF ReviewAt
  <2> QED
    BY <1>1, <2>1, <2>3, <2>4 DEF ProfileInv, FileIsKept, ReviewAt
<1>3. BlockIsExplained'
  BY <1>1 DEF ProfileInv, BlockIsExplained, Writing, ItemOf
<1> QED
  BY <1>2, <1>3, ReviewMoves DEF ProfileInv, ProfileShape

(* A reviewer chooses a pending row (profile_learning.py).                    *)
LEMMA ChoosesKeeps ==
  ASSUME ProfileInv, NEW i \in DOMAIN suggestions, NEW r \in Reviewers, Chooses(r, i)
  PROVE  ProfileInv'
<1> DEFINE v == [reviewer[r] EXCEPT !.at = "chosen", !.id = i]
<1>1. reviewer \in [Reviewers -> Reviews] /\ i \in Nat /\ disturbed \in BOOLEAN
  BY DEF ProfileInv, ProfileShape
<1>2. v \in Reviews /\ v.at = "chosen" /\ v.id = i
  BY <1>1 DEF Reviews
<1>3. /\ reviewer' = [reviewer EXCEPT ![r] = v] /\ ~ReviewAt(r, "writing")
      /\ UNCHANGED <<suggestions, profile, handEdits, kept, dropped, ownText, disturbed>>
  BY <1>1 DEF Chooses, ReviewAt
<1> QED
  BY <1>1, <1>2, <1>3, AsideKeeps

(* A reviewer that dies while the file is empty leaves the profile disturbed, *)
(* at any other point as it was.                                              *)
LEMMA DiesKeeps ==
  ASSUME ProfileInv, NEW r \in Reviewers, ReviewDies(r)
  PROVE  ProfileInv'
<1>1. /\ disturbed' = (disturbed \/ ReviewAt(r, "writing")) /\ disturbed \in BOOLEAN
      /\ reviewer' = [reviewer EXCEPT ![r] = NoReview]
      /\ UNCHANGED <<suggestions, profile, handEdits, kept, dropped, ownText>>
  BY DEF ReviewDies, ProfileInv, ProfileShape
<1>2. disturbed' \in BOOLEAN /\ (disturbed \/ ReviewAt(r, "writing") => disturbed')
  BY <1>1 DEF ReviewAt
<1> QED
  BY <1>1, <1>2, NoReviewIs, AsideKeeps

(* The text a reviewer will write has all that the file it read has, and its  *)
(* item.                                                                      *)
LEMMA ReadsKeeps ==
  ASSUME ProfileInv, NEW r \in Reviewers, Reads(r)
  PROVE  ProfileInv'
<1> DEFINE item == suggestions[reviewer[r].id].item
           bs == Present(profile) \cup {item}
           rendered == Rendered(profile, bs)
           t == [own |-> profile.own, block |-> TRUE, bullets |-> rendered]
           v == [reviewer[r] EXCEPT !.at = "rendered", !.text = t]
<1>1. /\ reviewer[r].at = "chosen" /\ reviewer \in [Reviewers -> Reviews] /\ disturbed \in BOOLEAN
      /\ UNCHANGED <<suggestions, profile, handEdits, kept, dropped, ownText>>
  BY DEF Reads, ReviewAt, ProfileInv, ProfileShape
<1>2. CASE reviewer' = [reviewer EXCEPT ![r] = NoReview] /\ UNCHANGED disturbed
  BY <1>1, <1>2, NoReviewIs, AsideKeeps DEF ReviewAt
<1>3. CASE /\ reviewer' = [reviewer EXCEPT ![r].at = "rendered", ![r].text = t]
           /\ disturbed' = (disturbed \/ Writing # {})
  <2>1. reviewer[r].id \in DOMAIN suggestions
    BY <1>1 DEF ProfileInv, ReviewsChose, ReviewAt
  <2>2. item \in Bullets
    <3>1. suggestions[reviewer[r].id] \in Suggestions
      BY <2>1 DEF ProfileInv, ProfileShape
    <3> QED
      BY <3>1 DEF Suggestions
  <2>3. profile \in ProfileTexts
    BY DEF ProfileInv, ProfileShape
  <2>4. bs \in SUBSET BulletTexts /\ profile.bullets \subseteq bs /\ item \in bs
    BY <2>2, <2>3, ProfileAssumption DEF Present, ProfileTexts
  <2>5. ComeOf(bs, kept \cup dropped \cup {item})
    <3>1. ComeOf(profile.bullets, kept \cup dropped \cup {item})
      BY ComeOfMore DEF ProfileInv, BlockIsExplained
    <3>2. IsFormOf(item, item)
      BY DEF IsFormOf
    <3> HIDE DEF item
    <3> QED
      BY <3>1, <3>2 DEF ComeOf, Present
  <2> HIDE DEF bs
  <2>6. /\ rendered \in SUBSET BulletTexts /\ bs \cap Literal \subseteq rendered
        /\ ComeOf(rendered, kept \cup dropped \cup {item})
    BY <2>3, <2>4, <2>5, RenderedIs
  <2> HIDE DEF rendered
  <2>7. t \in ProfileTexts /\ t.bullets = rendered /\ t.own = profile.own
    BY <2>3, <2>6 DEF ProfileTexts
  <2> HIDE DEF t
  <2>8. v \in Reviews /\ v.at = "rendered" /\ v.text = t /\ v.id = reviewer[r].id
    BY <1>1, <2>7 DEF Reviews
  <2>9. reviewer' = [reviewer EXCEPT ![r] = v]
    BY <1>1, <1>3
  <2> HIDE DEF v
  <2>10. /\ reviewer'[r] = v /\ \A s \in Reviewers \ {r} : reviewer'[s] = reviewer[s]
         /\ Writing' = (Writing \ {r}) \cup {r}
    BY <2>8, <2>9, WritersAfter
  <2>11. FileIsKept'
    <3> SUFFICES ASSUME ~disturbed' PROVE FileIsKept'
      BY DEF FileIsKept
    <3>1. ~disturbed /\ Writing = {}
      BY <1>3
    <3>2. \A s \in Reviewers : ~ReviewAt(s, "writing")
      BY <3>1 DEF Writing, ReviewAt
    <3>3. kept \cap Literal \subseteq profile.bullets /\ profile.own = ownText
      BY <3>1, <3>2 DEF ProfileInv, FileIsKept
    <3>4. Writing' = {r}
      BY <2>10, <3>1
    <3>5. TextHolds(r)'
      BY <1>1, <2>4, <2>6, <2>7, <2>8, <2>10, <3>3 DEF TextHolds, ItemOf
    <3> QED
      BY <1>1, <3>3, <3>4, <3>5 DEF FileIsKept
  <2>12. BlockIsExplained'
    <3>1. ItemOf(r)' = item /\ reviewer'[r].text.bullets = rendered
      BY <1>1, <2>7, <2>8, <2>10 DEF ItemOf
    <3>2. \A s \in Writing \ {r} : s \in Reviewers \ {r} /\ ItemOf(s)' = ItemOf(s)
      BY <1>1, <2>10 DEF Writing, ItemOf
    <3> HIDE DEF item
    <3> QED
      BY <1>1, <2>6, <2>10, <3>1, <3>2 DEF ProfileInv, BlockIsExplained
  <2>13. disturbed' \in BOOLEAN
    BY <1>1, <1>3
  <2> QED
    BY <1>1, <2>1, <2>3, <2>8, <2>9, <2>11, <2>12, <2>13, ReviewMoves
<1> QED
  BY <1>2, <1>3 DEF Reads

(* Opening the profile for writing empties it: only a reviewer alone is sure  *)
(* of what it will write.                                                     *)
LEMMA EmptiesKeeps ==
  ASSUME ProfileInv, NEW r \in Reviewers, Empties(r)
  PROVE  ProfileInv'
<1> DEFINE v == [reviewer[r] EXCEPT !.at = "writing"]
<1>1. /\ reviewer[r].at = "rendered" /\ reviewer \in [Reviewers -> Reviews] /\ disturbed \in BOOLEAN
      /\ UNCHANGED <<suggestions, handEdits, kept, dropped, ownText, disturbed>> /\ profile' = Blank
  BY DEF Empties, ReviewAt, ProfileInv, ProfileShape
<1>2. v \in Reviews /\ v.at = "writing" /\ v.text = reviewer[r].text /\ v.id = reviewer[r].id
  BY <1>1 DEF Reviews
<1>3. reviewer' = [reviewer EXCEPT ![r] = v]
  BY <1>1 DEF Empties
<1> HIDE DEF v
<1>4. /\ reviewer'[r] = v /\ \A s \in Reviewers \ {r} : reviewer'[s] = reviewer[s]
      /\ Writing' = (Writing \ {r}) \cup {r} /\ r \in Writing
  BY <1>1, <1>2, <1>3, WritersAfter DEF Writing
<1>5. FileIsKept'
  <2> SUFFICES ASSUME ~disturbed' PROVE FileIsKept'
    BY DEF FileIsKept
  <2>1. Writing = {r} /\ TextHolds(r)
    BY <1>1, <1>4 DEF ProfileInv, FileIsKept
  <2>2. Writing' = {r} /\ TextHolds(r)'
    BY <1>1, <1>2, <1>4, <2>1 DEF TextHolds, ItemOf
  <2>3. ReviewAt(r, "writing")'
    BY <1>2, <1>4 DEF ReviewAt
  <2> QED
    BY <2>2, <2>3 DEF FileIsKept
<1>6. reviewer[r].id \in DOMAIN suggestions
  BY <1>1 DEF ProfileInv, ReviewsChose, ReviewAt
<1>7. BlockIsExplained'
  <2>1. profile'.bullets = {} /\ Writing' = Writing
    BY <1>1, <1>4, NoReviewIs
  <2>2. \A s \in Writing : s \in Reviewers
    BY DEF Writing
  <2>3. \A s \in Writing : ItemOf(s)' = ItemOf(s) /\ reviewer'[s].text = reviewer[s].text
    BY <1>1, <1>2, <1>4, <2>2 DEF ItemOf
  <2>4. ComeOf(profile'.bullets, kept \cup dropped)
    BY <2>1 DEF ComeOf
  <2> QED
    BY <1>1, <2>1, <2>3, <2>4 DEF ProfileInv, BlockIsExplained
<1> QED
  BY <1>1, <1>2, <1>3, <1>5, <1>6, <1>7, NoReviewIs, ReviewMoves

(* The file that was emptied gets the text that was prepared.                 *)
LEMMA FillsKeeps ==
  ASSUME ProfileInv, NEW r \in Reviewers, Fills(r)
  PROVE  ProfileInv'
<1> DEFINE v == [reviewer[r] EXCEPT !.at = "written"]
           item == suggestions[reviewer[r].id].item
<1>1. /\ reviewer[r].at = "writing" /\ reviewer \in [Reviewers -> Reviews] /\ disturbed \in BOOLEAN
      /\ UNCHANGED <<suggestions, handEdits, ownText, disturbed>> /\ profile' = reviewer[r].text
      /\ kept' = kept \cup {item} /\ dropped' = dropped \ {item}
  BY DEF Fills, ReviewAt, ProfileInv, ProfileShape
<1>2. v \in Reviews /\ v.at = "written" /\ v.id = reviewer[r].id /\ reviewer[r].text \in ProfileTexts
  BY <1>1 DEF Reviews
<1>3. reviewer' = [reviewer EXCEPT ![r] = v]
  BY <1>1 DEF Fills
<1> HIDE DEF v
<1>4. /\ reviewer'[r] = v /\ \A s \in Reviewers \ {r} : reviewer'[s] = reviewer[s]
      /\ Writing' = Writing \ {r} /\ r \in Writing
  BY <1>1, <1>2, <1>3, WritersAfter DEF Writing
<1>5. FileIsKept'
  <2> SUFFICES ASSUME ~disturbed' PROVE FileIsKept'
    BY DEF FileIsKept
  <2>1. Writing = {r} /\ TextHolds(r)
    BY <1>1, <1>4 DEF ProfileInv, FileIsKept
  <2>2. Writing' = {}
    BY <1>4, <2>1
  <2>3. kept' \cap Literal \subseteq profile'.bullets /\ profile'.own = ownText'
    BY <1>1, <2>1 DEF TextHolds, ItemOf
  <2> QED
    BY <2>2, <2>3 DEF FileIsKept
<1>6. reviewer[r].id \in DOMAIN suggestions
  BY <1>1 DEF ProfileInv, ReviewsChose, ReviewAt
<1>7. kept \cup dropped \subseteq kept' \cup dropped' /\ item \in kept' \cup dropped'
  BY <1>1
<1>8. BlockIsExplained'
  <2>1. ComeOf(reviewer[r].text.bullets, kept \cup dropped \cup {item})
    BY <1>4 DEF ProfileInv, BlockIsExplained, ItemOf
  <2>2. ComeOf(profile'.bullets, kept' \cup dropped')
    BY <1>1, <1>7, <2>1, ComeOfMore
  <2>3. ASSUME NEW s \in Writing'
        PROVE  ComeOf(reviewer'[s].text.bullets, kept' \cup dropped' \cup {ItemOf(s)'})
    <3>1. s \in Reviewers \ {r} /\ s \in Writing
      BY <1>4, <2>3 DEF Writing
    <3>2. ItemOf(s)' = ItemOf(s) /\ reviewer'[s] = reviewer[s]
      BY <1>1, <1>4, <3>1 DEF ItemOf
    <3>3. ComeOf(reviewer[s].text.bullets, kept \cup dropped \cup {ItemOf(s)})
      BY <3>1 DEF ProfileInv, BlockIsExplained
    <3>4. kept \cup dropped \cup {ItemOf(s)} \subseteq kept' \cup dropped' \cup {ItemOf(s)}
      BY <1>7
    <3> QED
      BY <3>2, <3>3, <3>4, ComeOfMore
  <2> QED
    BY <2>2, <2>3 DEF BlockIsExplained
<1> QED
  BY <1>1, <1>2, <1>3, <1>5, <1>6, <1>7, <1>8, ReviewMoves

(* The row is marked applied after its item was written                       *)
(* (profile_learning.py).                                                     *)
LEMMA MarksKeeps ==
  ASSUME ProfileInv, NEW r \in Reviewers, Marks(r)
  PROVE  ProfileInv'
<1> DEFINE i == reviewer[r].id
           after == IF Free(i, "applied") THEN [suggestions EXCEPT ![i].status = "applied"] ELSE suggestions
<1>1. /\ reviewer[r].at = "written" /\ reviewer \in [Reviewers -> Reviews] /\ disturbed \in BOOLEAN
      /\ UNCHANGED <<profile, handEdits, kept, dropped, ownText, disturbed>> /\ suggestions' = after
      /\ reviewer' = [reviewer EXCEPT ![r] = NoReview]
  BY DEF Marks, ReviewAt, ProfileInv, ProfileShape
<1>2. i \in DOMAIN suggestions /\ suggestions[i].item \in kept \cup dropped
  BY <1>1 DEF ProfileInv, ReviewsChose, AppliedWasIn, ReviewAt, ItemOf
<1>3. suggestions \in Seq(Suggestions) /\ suggestions[i] \in Suggestions
  BY <1>2 DEF ProfileInv, ProfileShape
<1>4. /\ suggestions' \in Seq(Suggestions) /\ DOMAIN suggestions' = DOMAIN suggestions
      /\ \A j \in DOMAIN suggestions : suggestions'[j].item = suggestions[j].item
      /\ \A j \in DOMAIN suggestions : suggestions'[j].status = "applied" =>
           suggestions'[j].item \in kept \cup dropped
      /\ RowsAreUnique'
  <2>1. CASE ~Free(i, "applied")
    BY <1>1, <1>3, <2>1 DEF ProfileInv, AppliedWasIn, RowsAreUnique
  <2>2. CASE Free(i, "applied")
    <3> DEFINE x == [suggestions[i] EXCEPT !.status = "applied"]
    <3>1. x \in Suggestions /\ x.item = suggestions[i].item
      BY <1>3 DEF Suggestions
    <3>2. suggestions' = [suggestions EXCEPT ![i] = x]
      BY <1>1, <2>2
    <3>3. \A j \in DOMAIN suggestions \ {i} : suggestions[j] # x
      BY <2>2 DEF Free
    <3> HIDE DEF x
    <3>4. /\ suggestions' \in Seq(Suggestions) /\ DOMAIN suggestions' = DOMAIN suggestions /\ suggestions'[i] = x
          /\ \A j \in DOMAIN suggestions \ {i} : suggestions'[j] = suggestions[j]
      BY <1>2, <1>3, <3>1, <3>2
    <3>5. RowsAreUnique'
      BY <3>3, <3>4 DEF ProfileInv, RowsAreUnique
    <3> QED
      BY <1>2, <3>1, <3>4, <3>5 DEF ProfileInv, AppliedWasIn
  <2> QED
    BY <2>1, <2>2
<1>5. /\ reviewer'[r] = NoReview /\ \A s \in Reviewers \ {r} : reviewer'[s] = reviewer[s]
      /\ Writing' = Writing \ {r} /\ Writing' = Writing
  BY <1>1, NoReviewIs, WritersAfter DEF Writing
<1>6. ProfileShape'
  <2>1. reviewer' \in [Reviewers -> Reviews]
    BY <1>1, NoReviewIs
  <2> QED
    BY <1>1, <1>4, <2>1 DEF ProfileInv, ProfileShape
<1>7. ReviewsChose'
  BY <1>4, <1>5, NoReviewIs DEF ProfileInv, ReviewsChose, ReviewAt
<1>8. AppliedWasIn'
  BY <1>1, <1>4, <1>5, NoReviewIs DEF ProfileInv, ReviewsChose, AppliedWasIn, ReviewAt, ItemOf
<1>9. FileIsKept'
  <2>1. \A s \in Writing : s \in Reviewers \ {r} /\ reviewer[s].id \in DOMAIN suggestions
    BY <1>1 DEF Writing, ProfileInv, ReviewsChose, ReviewAt
  <2>2. \A s \in Writing : TextHolds(s) => TextHolds(s)'
    BY <1>1, <1>4, <1>5, <2>1 DEF TextHolds, ItemOf
  <2>3. \A s \in Reviewers : ReviewAt(s, "writing") => ReviewAt(s, "writing")'
    BY <1>1, <1>5 DEF ReviewAt
  <2> QED
    BY <1>1, <1>5, <2>2, <2>3 DEF ProfileInv, FileIsKept
<1>10. BlockIsExplained'
  <2>1. \A s \in Writing : s \in Reviewers \ {r} /\ reviewer[s].id \in DOMAIN suggestions
    BY <1>1 DEF Writing, ProfileInv, ReviewsChose, ReviewAt
  <2>2. \A s \in Writing : ItemOf(s)' = ItemOf(s) /\ reviewer'[s] = reviewer[s]
    BY <1>4, <1>5, <2>1 DEF ItemOf
  <2> QED
    BY <1>1, <1>5, <2>2 DEF ProfileInv, BlockIsExplained
<1> QED
  BY <1>4, <1>6, <1>7, <1>8, <1>9, <1>10 DEF ProfileInv

(* A person's edit of the profile replaces it as a whole, and says what is    *)
(* kept.                                                                      *)
LEMMA SavesKeeps ==
  ASSUME ProfileInv, NEW file \in ProfileTexts, Saves(file),
         \A t \in file.bullets : t \in profile.bullets \/ t \in DefaultBullets
  PROVE  ProfileInv'
<1>1. /\ profile' = file /\ ownText' = file.own /\ disturbed' = (disturbed \/ Writing # {})
      /\ kept' = kept \ (profile.bullets \ file.bullets)
      /\ kept' \cup dropped' = kept \cup dropped
      /\ UNCHANGED <<suggestions, reviewer>> /\ handEdits' = handEdits + 1
  BY DEF Saves
<1>2. ProfileShape'
  BY <1>1 DEF ProfileInv, ProfileShape, ProfileTexts
<1>3. RowsAreUnique' /\ ReviewsChose'
  BY <1>1 DEF ProfileInv, RowsAreUnique, ReviewsChose, ReviewAt
<1>4. kept \cup dropped \subseteq kept' \cup dropped'
  BY <1>1
<1>5. AppliedWasIn'
  BY <1>1, <1>4 DEF ProfileInv, AppliedWasIn, ReviewAt, ItemOf
<1>6. FileIsKept'
  <2> SUFFICES ASSUME ~disturbed' PROVE FileIsKept'
    BY DEF FileIsKept
  <2>1. Writing' = {} /\ Writing = {} /\ ~disturbed
    BY <1>1 DEF Writing
  <2>2. \A s \in Reviewers : ~ReviewAt(s, "writing")
    BY <2>1 DEF Writing, ReviewAt
  <2>3. kept \cap Literal \subseteq profile.bullets
    BY <2>1, <2>2 DEF ProfileInv, FileIsKept
  <2>4. kept' \cap Literal \subseteq file.bullets
    BY <1>1, <2>3
  <2> QED
    BY <1>1, <2>1, <2>4 DEF FileIsKept
<1>7. BlockIsExplained'
  <2>1. ComeOf(file.bullets, kept \cup dropped)
    BY DEF ProfileInv, BlockIsExplained, ComeOf
  <2>2. Writing' = Writing /\ \A s \in Writing : ItemOf(s)' = ItemOf(s)
    BY <1>1 DEF Writing, ItemOf
  <2> QED
    BY <1>1, <2>1, <2>2 DEF ProfileInv, BlockIsExplained
<1> QED
  BY <1>2, <1>3, <1>5, <1>6, <1>7 DEF ProfileInv

(* The edits by hand and the first profile keep the invariant.                *)
LEMMA HandKeeps ==
  ASSUME ProfileInv, Edits \/ Initialises
  PROVE  ProfileInv'
<1>1. profile \in ProfileTexts /\ handEdits \in Nat
  BY DEF ProfileInv, ProfileShape
<1>2. CASE Edits
  <2>1. PICK bullets \in SUBSET profile.bullets : Saves([profile EXCEPT !.own = handEdits + 1, !.bullets = bullets])
    BY <1>2 DEF Edits
  <2>2. [profile EXCEPT !.own = handEdits + 1, !.bullets = bullets] \in ProfileTexts
    <3>1. bullets \in SUBSET BulletTexts /\ handEdits + 1 \in Nat
      BY <1>1 DEF ProfileTexts
    <3> QED
      BY <1>1, <3>1 DEF ProfileTexts
  <2>3. PICK file \in ProfileTexts : file = [profile EXCEPT !.own = handEdits + 1, !.bullets = bullets]
    BY <2>2
  <2>4. file.bullets = bullets
    BY <1>1, <2>3 DEF ProfileTexts
  <2> QED
    BY <2>1, <2>3, <2>4, SavesKeeps
<1>3. CASE Initialises
  <2>1. PICK own \in {0, profile.own} : Saves([own |-> own, block |-> TRUE, bullets |-> DefaultBullets])
    BY <1>3 DEF Initialises
  <2>2. [own |-> own, block |-> TRUE, bullets |-> DefaultBullets] \in ProfileTexts
    BY <1>1, ProfileAssumption DEF ProfileTexts
  <2> QED
    BY <2>1, <2>2, SavesKeeps
<1> QED
  BY <1>2, <1>3

(* While nobody wrote the profile at the same time or died writing it, every  *)
(* applied bullet without an escape and the user's own text stay in it, and a *)
(* row is applied only once the file was written for it; however reviewers    *)
(* race, the block has only defaults and what rendering makes of applied      *)
(* bullets, and no item has two rows of one status (profile_learning.py,      *)
(* profile.py).                                                               *)
THEOREM AppliedStaysKept == ProfileSpec => []AppliedIsKept
<1>1. ProfileInit => ProfileInv
  <2> SUFFICES ASSUME ProfileInit PROVE ProfileInv
    OBVIOUS
  <2>1. suggestions = <<>> /\ DOMAIN suggestions = {} /\ suggestions \in Seq(Suggestions)
    BY DEF ProfileInit
  <2>2. \A r \in Reviewers : reviewer[r] = NoReview
    BY DEF ProfileInit
  <2>3. Writing = {}
    BY <2>2, NoReviewIs DEF Writing
  <2>4. ProfileShape
    BY <2>1, NoReviewIs DEF ProfileInit, ProfileShape
  <2>5. FileIsKept
    BY <2>3, NoReviewIs DEF FileIsKept, ProfileInit, Blank
  <2>6. ReviewsChose /\ AppliedWasIn /\ RowsAreUnique
    BY <2>1, <2>2, NoReviewIs DEF ReviewsChose, AppliedWasIn, RowsAreUnique, ReviewAt
  <2>7. BlockIsExplained
    BY <2>3, NoReviewIs DEF BlockIsExplained, ComeOf, ProfileInit
  <2> QED
    BY <2>4, <2>5, <2>6, <2>7 DEF ProfileInv
<1>2. ProfileInv /\ [ProfileNext]_profileVars => ProfileInv'
  <2> SUFFICES ASSUME ProfileInv, [ProfileNext]_profileVars PROVE ProfileInv'
    OBVIOUS
  <2>1. CASE UNCHANGED profileVars
    BY <2>1 DEF profileVars, ProfileInv, ProfileShape, RowsAreUnique, ReviewsChose, AppliedWasIn, FileIsKept,
                BlockIsExplained, Writing, ReviewAt, TextHolds, ItemOf
  <2>2. ASSUME NEW i \in DOMAIN suggestions, Reject(i) PROVE ProfileInv'
    BY <2>2, StatusKeeps DEF Reject
  <2> QED
    BY <2>1, <2>2, SuggestKeeps, ChoosesKeeps, ReadsKeeps, EmptiesKeeps, FillsKeeps, MarksKeeps, DiesKeeps,
       HandKeeps DEF ProfileNext
<1>3. ProfileInv => AppliedIsKept
  BY DEF ProfileInv, RowsAreUnique, AppliedWasIn, FileIsKept, BlockIsExplained, ComeOf, AppliedIsKept
<1> QED
  BY <1>1, <1>2, <1>3, PTL DEF ProfileSpec
-----------------------------------------------------------------------------
(* A turn has a profile while it calls, and has noted one failure for each    *)
(* provider before the present one; the arm of a profile has its turns and    *)
(* its seeds.                                                                 *)
FlowRecords ==
  [phase : {"waiting", "calling", "answered", "failed", "done"}, profile : Profiles \cup {0}, at : Nat,
   passed : Seq(Nat), failed : Seq([primary : Nat, fallback : Nat])]
Counts2 == [Kinds -> Nat]
Arms == [good : Counts2, bad : Counts2]
RoutingShape ==
  /\ flow \in [Turns -> FlowRecords] /\ arms \in [Profiles -> Arms]
  /\ rows \in [Profiles -> Counts2] /\ ended \in [Profiles -> Nat] /\ seeded \in [Profiles -> Counts2]
FlowHolds(f) ==
  /\ f.phase \in {"calling", "answered", "failed"} => f.profile \in Profiles
  /\ \A i, j \in DOMAIN f.passed : i < j => f.passed[i] <= f.passed[j]
  /\ \A i \in DOMAIN f.passed : f.passed[i] <= f.at
  /\ f.phase = "calling" =>
       /\ Len(f.failed) = f.at - 1
       /\ \A i \in DOMAIN f.failed : f.failed[i] = [primary |-> i, fallback |-> i + 1]
ArmHolds(p) ==
  arms[p].good["chat"] + arms[p].bad["chat"] + arms[p].good["tool"] + arms[p].bad["tool"]
    = ended[p] + seeded[p]["chat"] + seeded[p]["tool"]
RoutingInv ==
  /\ RoutingShape /\ (\A t \in Turns : FlowHolds(flow[t])) /\ (\A p \in Profiles : ArmHolds(p))

(* A turn that moves on within what is said of flows leaves the counts of the *)
(* arms as they were.                                                         *)
LEMMA FlowChanges ==
  ASSUME RoutingInv, NEW t \in Turns, NEW f \in FlowRecords, FlowHolds(f), flow' = [flow EXCEPT ![t] = f],
         rows' \in [Profiles -> Counts2], UNCHANGED <<arms, ended, seeded>>
  PROVE  RoutingInv'
<1>1. flow \in [Turns -> FlowRecords]
  BY DEF RoutingInv, RoutingShape
<1>2. flow' \in [Turns -> FlowRecords] /\ \A s \in Turns : flow'[s] = IF s = t THEN f ELSE flow[s]
  BY <1>1
<1>3. RoutingShape'
  BY <1>2 DEF RoutingInv, RoutingShape
<1>4. \A s \in Turns : FlowHolds(flow'[s])
  BY <1>2 DEF RoutingInv
<1>5. (\A s \in Turns : FlowHolds(flow[s]))'
  BY <1>4
<1>6. (\A p \in Profiles : ArmHolds(p))'
  BY DEF RoutingInv, ArmHolds
<1> QED
  BY <1>3, <1>5, <1>6 DEF RoutingInv

(* A turn that waits, and a turn that begins with a profile, are as flows     *)
(* are.                                                                       *)
LEMMA StartsOfFlows ==
  ASSUME NEW p \in Profiles
  PROVE  /\ Waiting \in FlowRecords /\ FlowHolds(Waiting)
         /\ [Waiting EXCEPT !.phase = "calling", !.profile = p] \in FlowRecords
         /\ FlowHolds([Waiting EXCEPT !.phase = "calling", !.profile = p])
         /\ [Waiting EXCEPT !.phase = "done"] \in FlowRecords
         /\ FlowHolds([Waiting EXCEPT !.phase = "done"])
<1>1. <<>> \in Seq(Nat) /\ <<>> \in Seq([primary : Nat, fallback : Nat]) /\ DOMAIN <<>> = {} /\ Len(<<>>) = 0
  OBVIOUS
<1> DEFINE W == [phase |-> "waiting", profile |-> 0, at |-> 1, passed |-> <<>>, failed |-> <<>>]
           D == [phase |-> "done", profile |-> 0, at |-> 1, passed |-> <<>>, failed |-> <<>>]
<1>2. W \in FlowRecords /\ D \in FlowRecords
  BY <1>1 DEF FlowRecords
<1>3. FlowHolds(W) /\ FlowHolds(D)
  BY <1>1 DEF FlowHolds
<1>4. Waiting = W
  BY DEF Waiting
<1>5. /\ [W EXCEPT !.phase = "calling", !.profile = p] \in FlowRecords
      /\ FlowHolds([W EXCEPT !.phase = "calling", !.profile = p])
  <2> DEFINE f == [W EXCEPT !.phase = "calling", !.profile = p]
  <2>1. f \in FlowRecords
    BY <1>2 DEF FlowRecords
  <2>2. f.phase = "calling" /\ f.profile = p /\ f.at = 1 /\ f.passed = <<>> /\ f.failed = <<>>
    OBVIOUS
  <2> HIDE DEF f
  <2>3. FlowHolds(f)
    BY <1>1, <2>2 DEF FlowHolds
  <2> QED
    BY <2>1, <2>3 DEF f
<1>6. [W EXCEPT !.phase = "done"] = D
  OBVIOUS
<1> HIDE DEF W, D
<1> QED
  BY <1>2, <1>3, <1>4, <1>5, <1>6

(* A provider whose breaker is open or that is cooling is passed over, in the *)
(* order of the chain (llm/failover.py).                                      *)
LEMMA PassesKeeps ==
  ASSUME RoutingInv, NEW t \in Turns, Passes(t)
  PROVE  RoutingInv'
<1> DEFINE g == flow[t]
           f == [g EXCEPT !.passed = Append(@, g.at)]
           q == g.passed
<1>1. /\ flow \in [Turns -> FlowRecords] /\ g \in FlowRecords /\ FlowHolds(g)
      /\ rows \in [Profiles -> Counts2]
  BY DEF RoutingInv, RoutingShape
<1>2. q \in Seq(Nat) /\ g.at \in Nat
  BY <1>1 DEF FlowRecords
<1>3. /\ f \in FlowRecords /\ f.phase = g.phase /\ f.profile = g.profile /\ f.at = g.at /\ f.failed = g.failed
      /\ f.passed = Append(q, g.at)
  <2>1. Append(q, g.at) \in Seq(Nat)
    BY <1>2
  <2> QED
    BY <1>1, <2>1 DEF FlowRecords
<1>4. flow' = [flow EXCEPT ![t] = f] /\ UNCHANGED <<arms, rows, ended, seeded>>
  BY <1>1 DEF Passes
<1>5. /\ DOMAIN Append(q, g.at) = 1..Len(q) + 1 /\ \A i \in 1..Len(q) : Append(q, g.at)[i] = q[i]
      /\ Append(q, g.at)[Len(q) + 1] = g.at /\ DOMAIN q = 1..Len(q) /\ Len(q) \in Nat
      /\ \A i \in DOMAIN q : q[i] \in Nat
  BY <1>2
<1>6. /\ \A i, j \in DOMAIN q : i < j => q[i] <= q[j]
      /\ \A i \in DOMAIN q : q[i] <= g.at
  BY <1>1 DEF FlowHolds
<1> HIDE DEF f
<1>7. \A i \in DOMAIN f.passed : f.passed[i] <= f.at
  BY <1>2, <1>3, <1>5, <1>6
<1>8. \A i, j \in DOMAIN f.passed : i < j => f.passed[i] <= f.passed[j]
  BY <1>2, <1>3, <1>5, <1>6
<1>9. FlowHolds(f)
  BY <1>1, <1>3, <1>7, <1>8 DEF FlowHolds
<1> QED
  BY <1>1, <1>3, <1>4, <1>9, FlowChanges

(* A failed call is noted once with the next of the chain, and that one is    *)
(* called.                                                                    *)
LEMMA FailsKeeps ==
  ASSUME RoutingInv, NEW t \in Turns, ProviderFails(t)
  PROVE  RoutingInv'
<1> DEFINE g == flow[t]
           i == g.at
           following == IF i < ChainLength THEN i + 1 ELSE 0
           e == [primary |-> i, fallback |-> following]
<1>1. /\ flow \in [Turns -> FlowRecords] /\ g \in FlowRecords /\ FlowHolds(g)
      /\ rows \in [Profiles -> Counts2] /\ g.phase = "calling" /\ UNCHANGED <<arms, rows, ended, seeded>>
  BY DEF RoutingInv, RoutingShape, ProviderFails
<1>2. /\ i \in Nat /\ g.passed \in Seq(Nat) /\ g.failed \in Seq([primary : Nat, fallback : Nat])
      /\ g.profile \in Profiles
  BY <1>1 DEF FlowRecords, FlowHolds
<1>3. CASE flow' = [flow EXCEPT ![t].phase = "failed"]
  <2> DEFINE f == [g EXCEPT !.phase = "failed"]
  <2>1. f \in FlowRecords /\ f.phase = "failed" /\ f.profile = g.profile /\ f.at = g.at /\ f.passed = g.passed
    BY <1>1 DEF FlowRecords
  <2>2. FlowHolds(f)
    BY <1>1, <2>1 DEF FlowHolds
  <2>3. flow' = [flow EXCEPT ![t] = f]
    BY <1>1, <1>3
  <2> QED
    BY <1>1, <2>1, <2>2, <2>3, FlowChanges
<1>4. CASE flow' = [flow EXCEPT ![t].failed = Append(@, e), ![t].at = IF following = 0 THEN i ELSE NextProvider(i),
                                ![t].phase = IF following = 0 THEN "failed" ELSE @]
  <2> DEFINE f == [g EXCEPT !.failed = Append(@, e), !.at = IF following = 0 THEN i ELSE NextProvider(i),
                            !.phase = IF following = 0 THEN "failed" ELSE @]
  <2>1. flow' = [flow EXCEPT ![t] = f]
    BY <1>1, <1>4
  <2>2. /\ e \in [primary : Nat, fallback : Nat] /\ following \in Nat /\ (following = 0 \/ following = i + 1)
        /\ NextProvider(i) = i + 1 /\ i + 1 \in Nat
    BY <1>2, RoutingAssumption DEF NextProvider
  <2>3. Append(g.failed, e) \in Seq([primary : Nat, fallback : Nat])
    BY <1>2, <2>2
  <2>4. f = [g EXCEPT !.failed = Append(g.failed, e), !.at = IF following = 0 THEN i ELSE i + 1,
                      !.phase = IF following = 0 THEN "failed" ELSE "calling"]
    BY <1>1, <2>2
  <2>5. f.failed = Append(g.failed, e) /\ f.passed = g.passed /\ f.profile = g.profile
    BY <1>1, <2>4 DEF FlowRecords
  <2>6. CASE following = 0
    <3>1. f.phase = "failed" /\ f.at = i
      BY <1>1, <2>4, <2>6 DEF FlowRecords
    <3>2. f \in FlowRecords
      BY <1>1, <1>2, <2>3, <2>4, <2>6 DEF FlowRecords
    <3>3. FlowHolds(f)
      BY <1>1, <2>5, <3>1 DEF FlowHolds
    <3> QED
      BY <1>1, <2>1, <3>2, <3>3, FlowChanges
  <2>7. CASE following # 0
    <3>1. f.phase = "calling" /\ f.at = i + 1 /\ e = [primary |-> i, fallback |-> i + 1]
      BY <1>1, <2>2, <2>4, <2>7 DEF FlowRecords
    <3>2. f \in FlowRecords
      BY <1>1, <1>2, <2>2, <2>3, <2>4, <2>7 DEF FlowRecords
    <3>3. Len(g.failed) = i - 1 /\ \A k \in DOMAIN g.failed : g.failed[k] = [primary |-> k, fallback |-> k + 1]
      BY <1>1 DEF FlowHolds
    <3> HIDE DEF e, f, following
    <3>4. /\ Len(f.failed) = i /\ DOMAIN f.failed = 1..i /\ f.failed[i] = e
          /\ \A k \in 1..i - 1 : f.failed[k] = g.failed[k] /\ k \in DOMAIN g.failed
      <4>1. DOMAIN g.failed = 1..i - 1 /\ Len(g.failed) + 1 = i
        BY <1>2, <3>3
      <4> QED
        BY <1>2, <2>2, <2>5, <4>1
    <3>5. \A k \in DOMAIN f.failed : f.failed[k] = [primary |-> k, fallback |-> k + 1]
      <4>1. \A k \in 1..i : k = i \/ k \in 1..i - 1
        BY <1>2
      <4> QED
        BY <3>1, <3>3, <3>4, <4>1
    <3>6. Len(f.failed) = f.at - 1
      BY <1>2, <3>1, <3>4
    <3>7. \A k \in DOMAIN f.passed : f.passed[k] <= f.at
      <4>1. \A k \in DOMAIN g.passed : g.passed[k] \in Nat /\ g.passed[k] <= i
        BY <1>1, <1>2 DEF FlowHolds
      <4> QED
        BY <1>2, <2>5, <3>1, <4>1
    <3>8. FlowHolds(f)
      BY <1>1, <1>2, <2>5, <3>5, <3>6, <3>7 DEF FlowHolds
    <3> QED
      BY <1>1, <2>1, <3>2, <3>8, FlowChanges
  <2> QED
    BY <2>6, <2>7
<1> QED
  BY <1>3, <1>4 DEF ProviderFails

(* A call that ends is written to its row and leaves the arms for the end of  *)
(* its turn.                                                                  *)
LEMMA EndsKeeps ==
  ASSUME RoutingInv, NEW t \in Turns, CallEnds(t)
  PROVE  RoutingInv'
<1> DEFINE g == flow[t]
           p == g.profile
<1>1. /\ flow \in [Turns -> FlowRecords] /\ g \in FlowRecords /\ FlowHolds(g) /\ g.phase = "calling"
      /\ rows \in [Profiles -> Counts2] /\ UNCHANGED <<arms, ended, seeded>>
  BY DEF RoutingInv, RoutingShape, CallEnds
<1>2. p \in Profiles
  BY <1>1 DEF FlowHolds
<1>3. PICK k \in Kinds :
        /\ rows' = [rows EXCEPT ![p][k] = @ + 1]
        /\ flow' = [flow EXCEPT ![t] = IF k = "tool" THEN [Waiting EXCEPT !.phase = "calling", !.profile = p]
                                       ELSE [@ EXCEPT !.phase = "answered"]]
  BY DEF CallEnds
<1>4. rows' \in [Profiles -> Counts2]
  <2>1. rows[p] \in [Kinds -> Nat]
    BY <1>1, <1>2 DEF Counts2
  <2>2. [rows[p] EXCEPT ![k] = @ + 1] \in [Kinds -> Nat]
    BY <2>1
  <2>3. rows' = [rows EXCEPT ![p] = [rows[p] EXCEPT ![k] = @ + 1]]
    BY <1>1, <1>2, <1>3
  <2> QED
    BY <1>1, <2>2, <2>3 DEF Counts2
<1>5. CASE k = "tool"
  BY <1>1, <1>2, <1>3, <1>4, <1>5, StartsOfFlows, FlowChanges
<1>6. CASE k # "tool"
  <2> DEFINE f == [g EXCEPT !.phase = "answered"]
  <2>1. f \in FlowRecords /\ f.phase = "answered" /\ f.profile = p /\ f.at = g.at /\ f.passed = g.passed
    BY <1>1 DEF FlowRecords
  <2>2. FlowHolds(f)
    BY <1>1, <1>2, <2>1 DEF FlowHolds
  <2>3. flow' = [flow EXCEPT ![t] = f]
    BY <1>1, <1>3, <1>6
  <2> QED
    BY <1>1, <1>4, <2>1, <2>2, <2>3, FlowChanges
<1> QED
  BY <1>5, <1>6

(* The end of a turn adds one to one arm, of the profile that answered it     *)
(* (llm/bandit.py).                                                           *)
LEMMA RewardKeeps ==
  ASSUME RoutingInv, NEW t \in Turns, TurnRewarded(t)
  PROVE  RoutingInv'
<1>0. PICK p \in Profiles : p = flow[t].profile
  BY DEF TurnRewarded, RoutingInv, FlowHolds
<1> DEFINE f == [Waiting EXCEPT !.phase = "done"]
           b == arms[p]
<1>1. /\ flow \in [Turns -> FlowRecords] /\ flow[t].phase \in {"answered", "failed"} /\ arms \in [Profiles -> Arms]
      /\ ended \in [Profiles -> Nat] /\ seeded \in [Profiles -> Counts2] /\ UNCHANGED <<rows, seeded>>
      /\ ended' = [ended EXCEPT ![p] = @ + 1] /\ flow' = [flow EXCEPT ![t] = f]
  BY <1>0 DEF RoutingInv, RoutingShape, TurnRewarded
<1>2. p \in Profiles
  BY <1>0
<1>3. f \in FlowRecords /\ FlowHolds(f)
  BY <1>2, StartsOfFlows
<1> HIDE DEF f
<1>4. /\ b \in Arms /\ b.good \in [Kinds -> Nat] /\ b.bad \in [Kinds -> Nat] /\ "chat" \in Kinds /\ "tool" \in Kinds
  BY <1>1, <1>2 DEF Arms, Counts2, Kinds
<1>5. PICK x \in Arms : /\ arms' = [arms EXCEPT ![p] = x]
                        /\ x.good["chat"] + x.bad["chat"] + x.good["tool"] + x.bad["tool"]
                             = b.good["chat"] + b.bad["chat"] + b.good["tool"] + b.bad["tool"] + 1
  <2>1. CASE arms' = [arms EXCEPT ![p].good["chat"] = @ + 1]
    <3> DEFINE h == [b.good EXCEPT !["chat"] = @ + 1]
               x == [b EXCEPT !.good = h]
    <3>1. h \in [Kinds -> Nat] /\ h["chat"] = b.good["chat"] + 1 /\ h["tool"] = b.good["tool"]
      BY <1>4
    <3>2. arms' = [arms EXCEPT ![p] = x]
      BY <1>1, <1>2, <2>1
    <3> HIDE DEF h
    <3>3. x \in Arms /\ x.good = h /\ x.bad = b.bad
      BY <1>4, <3>1 DEF Arms, Counts2
    <3>4. /\ b.good["chat"] \in Nat /\ b.bad["chat"] \in Nat /\ b.good["tool"] \in Nat /\ b.bad["tool"] \in Nat
      BY <1>4
    <3> HIDE DEF x
    <3>5. x.good["chat"] + x.bad["chat"] + x.good["tool"] + x.bad["tool"]
            = b.good["chat"] + b.bad["chat"] + b.good["tool"] + b.bad["tool"] + 1
      BY <3>1, <3>3, <3>4
    <3> QED
      BY <3>2, <3>3, <3>5
  <2>2. CASE arms' = [arms EXCEPT ![p].bad["chat"] = @ + 1]
    <3> DEFINE h == [b.bad EXCEPT !["chat"] = @ + 1]
               x == [b EXCEPT !.bad = h]
    <3>1. h \in [Kinds -> Nat] /\ h["chat"] = b.bad["chat"] + 1 /\ h["tool"] = b.bad["tool"]
      BY <1>4
    <3>2. arms' = [arms EXCEPT ![p] = x]
      BY <1>1, <1>2, <2>2
    <3> HIDE DEF h
    <3>3. x \in Arms /\ x.bad = h /\ x.good = b.good
      BY <1>4, <3>1 DEF Arms, Counts2
    <3>4. /\ b.good["chat"] \in Nat /\ b.bad["chat"] \in Nat /\ b.good["tool"] \in Nat /\ b.bad["tool"] \in Nat
      BY <1>4
    <3> HIDE DEF x
    <3>5. x.good["chat"] + x.bad["chat"] + x.good["tool"] + x.bad["tool"]
            = b.good["chat"] + b.bad["chat"] + b.good["tool"] + b.bad["tool"] + 1
      BY <3>1, <3>3, <3>4
    <3> QED
      BY <3>2, <3>3, <3>5
  <2> QED
    BY <1>0, <2>1, <2>2 DEF TurnRewarded
<1>6. /\ arms' \in [Profiles -> Arms] /\ arms'[p] = x /\ \A q \in Profiles \ {p} : arms'[q] = arms[q]
      /\ ended' \in [Profiles -> Nat] /\ ended'[p] = ended[p] + 1 /\ \A q \in Profiles \ {p} : ended'[q] = ended[q]
      /\ flow' \in [Turns -> FlowRecords] /\ \A s \in Turns : flow'[s] = IF s = t THEN f ELSE flow[s]
  BY <1>1, <1>2, <1>3, <1>5
<1>7. RoutingShape'
  BY <1>1, <1>6 DEF RoutingInv, RoutingShape
<1>8. \A s \in Turns : FlowHolds(flow'[s])
  BY <1>3, <1>6 DEF RoutingInv
<1>9. ArmHolds(p)'
  <2>1. ArmHolds(p)
    BY <1>2 DEF RoutingInv
  <2>2. /\ ended[p] \in Nat /\ seeded[p]["chat"] \in Nat /\ seeded[p]["tool"] \in Nat
        /\ b.good["chat"] \in Nat /\ b.bad["chat"] \in Nat /\ b.good["tool"] \in Nat /\ b.bad["tool"] \in Nat
    BY <1>1, <1>2, <1>4 DEF Counts2
  <2> QED
    BY <1>1, <1>5, <1>6, <2>1, <2>2 DEF ArmHolds
<1>10. \A q \in Profiles \ {p} : ArmHolds(q)'
  BY <1>1, <1>6 DEF RoutingInv, ArmHolds
<1>11. (\A s \in Turns : FlowHolds(flow[s]))'
  BY <1>8
<1>12. (\A q \in Profiles : ArmHolds(q))'
  BY <1>9, <1>10
<1> QED
  BY <1>7, <1>11, <1>12 DEF RoutingInv

(* Arms and rows begin with nothing counted.                                  *)
LEMMA ZeroIs ==
  /\ Zero \in [Profiles -> Counts2] /\ NoArm \in Arms
  /\ \A p \in Profiles, k \in Kinds : Zero[p][k] = 0
  /\ \A k \in Kinds : NoArm.good[k] = 0 /\ NoArm.bad[k] = 0
  /\ "chat" \in Kinds /\ "tool" \in Kinds
BY DEF Zero, NoArm, Arms, Counts2, Kinds

(* A process starts with no turns, its arms empty, its rows what the file     *)
(* has.                                                                       *)
LEMMA StartKeeps ==
  ASSUME NEW f, f = [t \in Turns |-> Waiting], flow' = f, arms' = [p \in Profiles |-> NoArm],
         ended' = [p \in Profiles |-> 0], seeded' = Zero, rows' \in [Profiles -> Counts2]
  PROVE  RoutingInv'
<1>2. Waiting \in FlowRecords /\ FlowHolds(Waiting)
  <2>1. <<>> \in Seq(Nat) /\ <<>> \in Seq([primary : Nat, fallback : Nat]) /\ DOMAIN <<>> = {}
    OBVIOUS
  <2> QED
    BY <2>1 DEF Waiting, FlowRecords, FlowHolds
<1>3. RoutingShape'
  BY <1>2, ZeroIs DEF RoutingShape
<1>4. (\A t \in Turns : FlowHolds(flow[t]))'
  BY <1>2
<1>5. (\A p \in Profiles : ArmHolds(p))'
  BY ZeroIs DEF ArmHolds
<1> QED
  BY <1>3, <1>4, <1>5 DEF RoutingInv

(* The arms are seeded with the rows of the file, counted as seeds.           *)
LEMMA SeedsKeeps ==
  ASSUME RoutingInv, Seeds
  PROVE  RoutingInv'
<1>1. /\ seeded = Zero /\ UNCHANGED <<flow, rows, ended>> /\ seeded' = rows
      /\ arms' = [p \in Profiles |-> [arms[p] EXCEPT !.good = [k \in Kinds |-> arms[p].good[k] + rows[p][k]]]]
      /\ arms \in [Profiles -> Arms] /\ rows \in [Profiles -> Counts2] /\ ended \in [Profiles -> Nat]
      /\ flow \in [Turns -> FlowRecords]
  BY DEF Seeds, P50Table, RoutingInv, RoutingShape
<1>2. ASSUME NEW p \in Profiles
      PROVE  arms'[p] \in Arms /\ ArmHolds(p)'
  <2> DEFINE b == arms[p]
             h == [k \in Kinds |-> b.good[k] + rows[p][k]]
  <2>1. b \in Arms /\ b.good \in [Kinds -> Nat] /\ b.bad \in [Kinds -> Nat] /\ rows[p] \in [Kinds -> Nat]
    BY <1>1 DEF Arms, Counts2
  <2>2. h \in [Kinds -> Nat] /\ h["chat"] = b.good["chat"] + rows[p]["chat"] /\ h["tool"] = b.good["tool"] + rows[p]["tool"]
    BY <2>1, ZeroIs
  <2>3. arms'[p] = [b EXCEPT !.good = h]
    BY <1>1
  <2> HIDE DEF h
  <2>4. arms'[p] \in Arms /\ arms'[p].good = h /\ arms'[p].bad = b.bad
    BY <2>1, <2>2, <2>3 DEF Arms, Counts2
  <2>5. ArmHolds(p) /\ seeded[p]["chat"] = 0 /\ seeded[p]["tool"] = 0
    BY <1>1, ZeroIs DEF RoutingInv
  <2>6. /\ b.good["chat"] \in Nat /\ b.bad["chat"] \in Nat /\ b.good["tool"] \in Nat /\ b.bad["tool"] \in Nat
        /\ rows[p]["chat"] \in Nat /\ rows[p]["tool"] \in Nat /\ ended[p] \in Nat
    BY <1>1, <2>1, ZeroIs
  <2>7. /\ seeded'[p]["chat"] = rows[p]["chat"] /\ seeded'[p]["tool"] = rows[p]["tool"] /\ ended'[p] = ended[p]
    BY <1>1
  <2>8. b.good["chat"] + b.bad["chat"] + b.good["tool"] + b.bad["tool"] = ended[p]
    BY <2>5, <2>6 DEF ArmHolds
  <2>9. arms'[p].good["chat"] + arms'[p].bad["chat"] + arms'[p].good["tool"] + arms'[p].bad["tool"]
          = ended'[p] + seeded'[p]["chat"] + seeded'[p]["tool"]
    BY <2>2, <2>4, <2>6, <2>7, <2>8
  <2> QED
    BY <2>4, <2>9 DEF ArmHolds
<1>3. arms' \in [Profiles -> Arms]
  <2>1. \A p \in Profiles : arms'[p] \in Arms
    BY <1>2
  <2>2. arms' = [p \in Profiles |-> arms'[p]]
    BY <1>1
  <2> QED
    BY <2>1, <2>2
<1>4. RoutingShape'
  BY <1>1, <1>3 DEF RoutingShape
<1>5. (\A t \in Turns : FlowHolds(flow[t]))'
  BY <1>1 DEF RoutingInv
<1>6. (\A p \in Profiles : ArmHolds(p))'
  BY <1>2
<1> QED
  BY <1>4, <1>5, <1>6 DEF RoutingInv

(* However turns overlap, the arm of a profile counts each of its turns once, *)
(* whatever the outcome, beside its seeds; pieces come in the order of the    *)
(* providers; and each provider that failed has an event that names the next  *)
(* (llm/bandit.py, llm/failover.py, llm/router_stats.py).                     *)
THEOREM RoutingStaysBooked == RoutingSpec => []RoutingIsBooked
<1>1. RoutingInit => RoutingInv
  <2> SUFFICES ASSUME RoutingInit PROVE RoutingInv
    OBVIOUS
  <2>1. Waiting \in FlowRecords /\ FlowHolds(Waiting)
    <3>1. <<>> \in Seq(Nat) /\ <<>> \in Seq([primary : Nat, fallback : Nat]) /\ DOMAIN <<>> = {}
      OBVIOUS
    <3> QED
      BY <3>1 DEF Waiting, FlowRecords, FlowHolds
  <2>2. RoutingShape
    BY <2>1, ZeroIs DEF RoutingInit, RoutingShape
  <2>3. \A t \in Turns : FlowHolds(flow[t])
    BY <2>1 DEF RoutingInit
  <2>4. \A p \in Profiles : ArmHolds(p)
    BY ZeroIs DEF RoutingInit, ArmHolds
  <2> QED
    BY <2>2, <2>3, <2>4 DEF RoutingInv
<1>2. RoutingInv /\ [RoutingNext]_routingVars => RoutingInv'
  <2> SUFFICES ASSUME RoutingInv, [RoutingNext]_routingVars PROVE RoutingInv'
    OBVIOUS
  <2>1. CASE UNCHANGED routingVars
    BY <2>1 DEF routingVars, RoutingInv, RoutingShape, ArmHolds
  <2>2. ASSUME NEW t \in Turns, Picks(t) PROVE RoutingInv'
    <3>1. PICK p \in Profiles : flow' = [flow EXCEPT ![t] = [Waiting EXCEPT !.phase = "calling", !.profile = p]]
      BY <2>2 DEF Picks
    <3>2. rows' \in [Profiles -> Counts2] /\ UNCHANGED <<arms, ended, seeded>>
      BY <2>2 DEF Picks, RoutingInv, RoutingShape
    <3> QED
      BY <3>1, <3>2, StartsOfFlows, FlowChanges
  <2>3. CASE RoutingRestarts
    BY <2>3, StartKeeps DEF RoutingRestarts, RoutingInv, RoutingShape
  <2> QED
    BY <2>1, <2>2, <2>3, PassesKeeps, FailsKeeps, EndsKeeps, RewardKeeps, SeedsKeeps DEF RoutingNext
<1>3. RoutingInv => RoutingIsBooked
  BY DEF RoutingInv, FlowHolds, ArmHolds, RoutingIsBooked
<1> QED
  BY <1>1, <1>2, <1>3, PTL DEF RoutingSpec
-----------------------------------------------------------------------------
(* What a request has been told is so, at each of its phases; the count of    *)
(* successes is the number of requests that count as such.                    *)
RequestRecords ==
  [phase : {"away", "called", "waiting", "streaming", "over"}, route : Routes, token : Tokens,
   body : {"fine", "empty", "bad", "badlength"}, code : Nat, told : BOOLEAN, got : Nat,
   ending : {"none", "done", "error", "cut"}]
TurnRecords ==
  [state : {"none", "running", "ended"}, put : Nat, how : {"reply", "value", "timeout", "other"}]
StatNames == {"ok", "unauthorized", "forbidden", "bad_request", "timeout", "error"}
ApiShape ==
  /\ request \in [Requests -> RequestRecords] /\ turn \in [Requests -> TurnRecords]
  /\ stats \in [StatNames -> Nat]
AnswerHolds(q, t) ==
  /\ (q.route = "turn" /\ q.code = 200) \/ q.ending = "done" => t.state = "ended" /\ t.how = "reply"
  /\ q.ending = "done" => q.got = t.put
  /\ q.got <= t.put
  /\ t.state # "none" => Scoped(q) /\ q.body = "fine"
  /\ q.code # 0 => q.code \in Published[q.route] \cup Unpublished[q.route]
PhaseHolds(q, t) ==
  /\ q.phase \in {"away", "called"} => q.code = 0 /\ q.ending = "none" /\ q.got = 0 /\ t.state = "none" /\ t.put = 0
  /\ q.phase = "waiting" => q.route = "turn" /\ q.code = 0 /\ q.ending = "none" /\ t.state # "none"
  /\ q.phase = "streaming" => q.route = "stream" /\ q.code = 200 /\ q.ending = "none" /\ t.state # "none"
Succeeds(q) ==
  /\ q.phase = "over"
  /\ IF q.route = "stream" THEN q.ending \in {"done", "error"} ELSE q.route \in {"turn", "ingest"} /\ q.code = 200
ApiInv ==
  /\ ApiShape
  /\ \A r \in Requests : AnswerHolds(request[r], turn[r]) /\ PhaseHolds(request[r], turn[r])
  /\ IsFiniteSet(Successes) /\ stats["ok"] = Cardinality(Successes)

(* The requests that count as successes, one by one.                          *)
LEMMA SuccessesAre == Successes = {r \in Requests : Succeeds(request[r])}
BY DEF Successes, Succeeds

(* One request and its turn change: the invariant is kept when what it says   *)
(* of them, and the count of successes, is shown.                             *)
LEMMA RequestChanges ==
  ASSUME ApiInv, NEW r \in Requests, NEW q \in RequestRecords, NEW t \in TurnRecords,
         request' = [request EXCEPT ![r] = q], turn' = [turn EXCEPT ![r] = t],
         AnswerHolds(q, t), PhaseHolds(q, t), request[r].phase # "over",
         stats' \in [StatNames -> Nat], stats'["ok"] = IF Succeeds(q) THEN stats["ok"] + 1 ELSE stats["ok"]
  PROVE  ApiInv'
<1>1. request \in [Requests -> RequestRecords] /\ turn \in [Requests -> TurnRecords] /\ stats["ok"] \in Nat
  BY DEF ApiInv, ApiShape, StatNames
<1>2. /\ request' \in [Requests -> RequestRecords] /\ turn' \in [Requests -> TurnRecords]
      /\ request'[r] = q /\ turn'[r] = t
      /\ \A s \in Requests \ {r} : request'[s] = request[s] /\ turn'[s] = turn[s]
  BY <1>1
<1>3. (\A s \in Requests : AnswerHolds(request[s], turn[s]) /\ PhaseHolds(request[s], turn[s]))'
  <2>1. \A s \in Requests : AnswerHolds(request'[s], turn'[s]) /\ PhaseHolds(request'[s], turn'[s])
    BY <1>2 DEF ApiInv
  <2> QED
    BY <2>1
<1>4. /\ Successes = {s \in Requests : Succeeds(request[s])} /\ Successes' = {s \in Requests : Succeeds(request'[s])}
      /\ r \notin Successes
  BY SuccessesAre DEF Successes, Succeeds
<1>5. Successes' = IF Succeeds(q) THEN Successes \cup {r} ELSE Successes
  <2>1. \A s \in Requests : s # r => (Succeeds(request'[s]) <=> Succeeds(request[s]))
    BY <1>2
  <2>2. ~Succeeds(request[r])
    BY DEF Succeeds
  <2> QED
    BY <1>2, <1>4, <2>1, <2>2
<1>6. IsFiniteSet(Successes) /\ stats["ok"] = Cardinality(Successes)
  BY DEF ApiInv
<1>7. IsFiniteSet(Successes') /\ stats'["ok"] = Cardinality(Successes')
  <2>1. IsFiniteSet(Successes \cup {r}) /\ Cardinality(Successes \cup {r}) = Cardinality(Successes) + 1
    BY <1>4, <1>6, FS_AddElement
  <2>2. CASE Succeeds(q)
    BY <1>5, <1>6, <2>1, <2>2
  <2>3. CASE ~Succeeds(q)
    BY <1>5, <1>6, <2>3
  <2> QED
    BY <2>2, <2>3
<1> QED
  BY <1>2, <1>3, <1>7 DEF ApiInv, ApiShape

(* The turn of a request goes on with the request as it is.                   *)
LEMMA TurnChanges ==
  ASSUME ApiInv, NEW r \in Requests, NEW t \in TurnRecords, turn' = [turn EXCEPT ![r] = t],
         AnswerHolds(request[r], t), PhaseHolds(request[r], t), UNCHANGED <<offered, request, stats>>
  PROVE  ApiInv'
<1>1. turn \in [Requests -> TurnRecords]
  BY DEF ApiInv, ApiShape
<1>2. turn' \in [Requests -> TurnRecords] /\ turn'[r] = t /\ \A s \in Requests \ {r} : turn'[s] = turn[s]
  BY <1>1
<1>3. (\A s \in Requests : AnswerHolds(request[s], turn[s]) /\ PhaseHolds(request[s], turn[s]))'
  <2>1. \A s \in Requests : AnswerHolds(request[s], turn'[s]) /\ PhaseHolds(request[s], turn'[s])
    BY <1>2 DEF ApiInv
  <2> QED
    BY <2>1
<1>4. Successes' = Successes
  BY DEF Successes
<1> QED
  BY <1>2, <1>3, <1>4 DEF ApiInv, ApiShape

(* What the invariant says of one request.                                    *)
LEMMA HoldsNow ==
  ASSUME ApiInv, NEW r \in Requests
  PROVE  /\ request[r] \in RequestRecords /\ turn[r] \in TurnRecords
         /\ AnswerHolds(request[r], turn[r]) /\ PhaseHolds(request[r], turn[r])
         /\ stats \in [StatNames -> Nat] /\ turn \in [Requests -> TurnRecords]
         /\ request \in [Requests -> RequestRecords] /\ turn = [turn EXCEPT ![r] = turn[r]]
BY DEF ApiInv, ApiShape

(* Counting another outcome leaves the count of successes.                    *)
LEMMA OthersCounted ==
  ASSUME ApiInv, NEW k \in StatNames \ {"ok"}, Counts(k) \/ UNCHANGED stats
  PROVE  stats' \in [StatNames -> Nat] /\ stats'["ok"] = stats["ok"]
BY DEF ApiInv, ApiShape, StatNames, Counts

(* Counting a success adds one to that count alone.                           *)
LEMMA OkCounted ==
  ASSUME ApiInv, Counts("ok")
  PROVE  stats' \in [StatNames -> Nat] /\ stats'["ok"] = stats["ok"] + 1
BY DEF ApiInv, ApiShape, StatNames, Counts

(* The codes the handlers use are among those of their routes.                *)
LEMMA KnownCodes ==
  /\ \A c \in {200, 400, 401, 403, 500, 504} : c \in Published["turn"] \cup Unpublished["turn"]
  /\ \A c \in {200, 400, 401, 403, 501} : c \in Published["stream"] \cup Unpublished["stream"]
  /\ \A c \in {200, 400, 401, 403, 500, 501} : c \in Published["ingest"] \cup Unpublished["ingest"]
  /\ 200 \in Published["get"] \cup Unpublished["get"]
  /\ 404 \in Published["unknown"] \cup Unpublished["unknown"]
BY DEF Published, Unpublished

(* A response that is no success of a turn or a stream ends its request       *)
(* (rpc/http_api.py).                                                         *)
LEMMA RespondsKeeps ==
  ASSUME ApiInv, NEW r \in Requests, NEW code \in Nat, Responds(r, code), UNCHANGED turn,
         request[r].phase \in {"called", "waiting"},
         code \in Published[request[r].route] \cup Unpublished[request[r].route],
         request[r].route = "turn" /\ code = 200 => turn[r].state = "ended" /\ turn[r].how = "reply",
         stats' \in [StatNames -> Nat],
         stats'["ok"] = IF request[r].route \in {"turn", "ingest"} /\ code = 200 THEN stats["ok"] + 1 ELSE stats["ok"]
  PROVE  ApiInv'
<1>1. PICK told \in BOOLEAN : request' = [request EXCEPT ![r].phase = "over", ![r].code = code, ![r].told = told]
  BY DEF Responds
<1> DEFINE p == request[r]
           q == [p EXCEPT !.phase = "over", !.code = code, !.told = told]
           t == turn[r]
<1>2. /\ p \in RequestRecords /\ t \in TurnRecords /\ AnswerHolds(p, t) /\ PhaseHolds(p, t)
      /\ turn' = [turn EXCEPT ![r] = t] /\ request \in [Requests -> RequestRecords]
  BY HoldsNow
<1>3. /\ q \in RequestRecords /\ q.phase = "over" /\ q.code = code /\ q.route = p.route /\ q.token = p.token
      /\ q.body = p.body /\ q.got = p.got /\ q.ending = p.ending
  <2>1. p \in RequestRecords
    BY <1>2
  <2> HIDE DEF p
  <2>2. q \in RequestRecords
    BY <2>1 DEF RequestRecords
  <2> QED
    BY <2>1, <2>2 DEF RequestRecords
<1>4. request' = [request EXCEPT ![r] = q]
  BY <1>1, <1>2
<1> HIDE DEF q
<1>5. p.ending = "none"
  BY <1>2 DEF PhaseHolds
<1>6. AnswerHolds(q, t)
  BY <1>2, <1>3, <1>5 DEF AnswerHolds, Scoped
<1>7. PhaseHolds(q, t)
  BY <1>3 DEF PhaseHolds
<1>8. Succeeds(q) <=> p.route \in {"turn", "ingest"} /\ code = 200
  BY <1>3, <1>5 DEF Succeeds
<1> QED
  BY <1>2, <1>3, <1>4, <1>6, <1>7, <1>8, RequestChanges

(* A request without the scope, or with a body that is not right, is refused  *)
(* before its turn.                                                           *)
LEMMA RefusedKeeps ==
  ASSUME ApiInv, NEW r \in Requests, Refused(r)
  PROVE  ApiInv'
<1> DEFINE p == request[r]
<1>1. /\ p \in RequestRecords /\ p.phase = "called" /\ UNCHANGED turn /\ stats \in [StatNames -> Nat]
      /\ p.route \in Routes
  BY HoldsNow DEF Refused, RequestRecords
<1>2. "unauthorized" \in StatNames \ {"ok"} /\ "forbidden" \in StatNames \ {"ok"} /\ "bad_request" \in StatNames \ {"ok"}
  BY DEF StatNames
<1>3. CASE p.route = "get" /\ Responds(r, 200) /\ UNCHANGED stats
  BY <1>1, <1>3, KnownCodes, RespondsKeeps
<1>4. CASE p.route = "unknown" /\ Responds(r, 404) /\ UNCHANGED stats
  BY <1>1, <1>4, KnownCodes, RespondsKeeps
<1>5. ASSUME p.route \notin {"get", "unknown"}, NEW code \in {400, 401, 403}, Responds(r, code),
             NEW k \in StatNames \ {"ok"}, Counts(k)
      PROVE  ApiInv'
  <2>1. code \in Published[p.route] \cup Unpublished[p.route] /\ code \in Nat /\ code # 200
    BY <1>1, <1>5, KnownCodes DEF Routes
  <2>2. stats' \in [StatNames -> Nat] /\ stats'["ok"] = stats["ok"]
    BY <1>5, OthersCounted
  <2> QED
    BY <1>1, <1>5, <2>1, <2>2, RespondsKeeps
<1>6. CASE request' = [request EXCEPT ![r].phase = "over"] /\ UNCHANGED <<offered, stats>>
  <2> DEFINE q == [p EXCEPT !.phase = "over"]
             t == turn[r]
  <2>1. /\ t \in TurnRecords /\ AnswerHolds(p, t) /\ PhaseHolds(p, t) /\ request \in [Requests -> RequestRecords]
        /\ turn' = [turn EXCEPT ![r] = t]
    BY <1>1, HoldsNow
  <2>2. /\ q \in RequestRecords /\ q.phase = "over" /\ q.code = p.code /\ q.route = p.route /\ q.token = p.token
        /\ q.body = p.body /\ q.got = p.got /\ q.ending = p.ending /\ request' = [request EXCEPT ![r] = q]
    BY <1>1, <1>6, <2>1 DEF RequestRecords
  <2> HIDE DEF q
  <2>3. AnswerHolds(q, t) /\ PhaseHolds(q, t)
    BY <2>1, <2>2 DEF AnswerHolds, PhaseHolds, Scoped
  <2>4. ~Succeeds(q)
    BY <1>1, <2>1, <2>2 DEF Succeeds, PhaseHolds
  <2> QED
    BY <1>1, <1>6, <2>1, <2>2, <2>3, <2>4, RequestChanges
<1> QED
  BY <1>2, <1>3, <1>4, <1>5, <1>6 DEF Refused

(* An ingested item is answered at once.                                      *)
LEMMA IngestKeeps ==
  ASSUME ApiInv, NEW r \in Requests, Ingest(r)
  PROVE  ApiInv'
<1>1. /\ request[r].phase = "called" /\ request[r].route = "ingest" /\ UNCHANGED turn /\ stats \in [StatNames -> Nat]
  BY HoldsNow DEF Ingest, Accepted
<1>2. CASE \E code \in {400, 500, 501} : Responds(r, code) /\ UNCHANGED stats
  BY <1>1, <1>2, KnownCodes, RespondsKeeps
<1>3. CASE Responds(r, 200) /\ Counts("ok")
  BY <1>1, <1>3, KnownCodes, OkCounted, RespondsKeeps
<1> QED
  BY <1>2, <1>3 DEF Ingest

(* An accepted request starts its turn.                                       *)
LEMMA StartsKeeps ==
  ASSUME ApiInv, NEW r \in Requests, request[r].phase = "called", Scoped(request[r]), request[r].body = "fine",
         Starts(r), UNCHANGED stats,
         \/ request[r].route = "turn" /\ request' = [request EXCEPT ![r].phase = "waiting"]
         \/ /\ request[r].route = "stream"
            /\ request' = [request EXCEPT ![r].phase = "streaming", ![r].code = 200, ![r].told = TRUE]
  PROVE  ApiInv'
<1> DEFINE p == request[r]
           t == [turn[r] EXCEPT !.state = "running"]
<1>1. /\ p \in RequestRecords /\ turn[r] \in TurnRecords /\ AnswerHolds(p, turn[r]) /\ PhaseHolds(p, turn[r])
      /\ request \in [Requests -> RequestRecords] /\ turn \in [Requests -> TurnRecords] /\ stats \in [StatNames -> Nat]
  BY HoldsNow
<1>2. t \in TurnRecords /\ t.state = "running" /\ t.put = turn[r].put /\ turn' = [turn EXCEPT ![r] = t]
  BY <1>1 DEF TurnRecords, Starts
<1>3. p.code = 0 /\ p.ending = "none" /\ p.got = 0 /\ t.put = 0
  BY <1>1, <1>2 DEF PhaseHolds
<1> HIDE DEF t
<1>4. CASE p.route = "turn" /\ request' = [request EXCEPT ![r].phase = "waiting"]
  <2> DEFINE q == [p EXCEPT !.phase = "waiting"]
  <2>1. /\ q \in RequestRecords /\ q.phase = "waiting" /\ q.code = 0 /\ q.route = "turn" /\ q.token = p.token
        /\ q.body = "fine" /\ q.got = 0 /\ q.ending = "none" /\ request' = [request EXCEPT ![r] = q]
    BY <1>1, <1>3, <1>4 DEF RequestRecords
  <2> HIDE DEF q
  <2>2. AnswerHolds(q, t) /\ PhaseHolds(q, t) /\ ~Succeeds(q)
    BY <1>2, <1>3, <2>1 DEF AnswerHolds, PhaseHolds, Succeeds, Scoped
  <2> QED
    BY <1>1, <1>2, <2>1, <2>2, RequestChanges
<1>5. CASE /\ p.route = "stream"
           /\ request' = [request EXCEPT ![r].phase = "streaming", ![r].code = 200, ![r].told = TRUE]
  <2> DEFINE q == [p EXCEPT !.phase = "streaming", !.code = 200, !.told = TRUE]
  <2>1. /\ q \in RequestRecords /\ q.phase = "streaming" /\ q.code = 200 /\ q.route = "stream" /\ q.token = p.token
        /\ q.body = "fine" /\ q.got = 0 /\ q.ending = "none" /\ request' = [request EXCEPT ![r] = q]
    BY <1>1, <1>3, <1>5 DEF RequestRecords
  <2> HIDE DEF q
  <2>2. AnswerHolds(q, t) /\ PhaseHolds(q, t) /\ ~Succeeds(q)
    BY <1>2, <1>3, <2>1, KnownCodes DEF AnswerHolds, PhaseHolds, Succeeds, Scoped
  <2> QED
    BY <1>1, <1>2, <2>1, <2>2, RequestChanges
<1> QED
  BY <1>4, <1>5

(* A request for a turn or a stream is refused or starts one.                 *)
LEMMA AsksKeeps ==
  ASSUME ApiInv, NEW r \in Requests, AsksTurn(r) \/ AsksStream(r)
  PROVE  ApiInv'
<1>1. request[r].phase = "called" /\ Scoped(request[r]) /\ stats \in [StatNames -> Nat]
  BY HoldsNow DEF AsksTurn, AsksStream, Accepted
<1>2. "bad_request" \in StatNames \ {"ok"}
  BY DEF StatNames
<1>3. CASE AsksTurn(r)
  <2>1. request[r].route = "turn"
    BY <1>3 DEF AsksTurn, Accepted
  <2>2. CASE Responds(r, 400) /\ Counts("bad_request") /\ UNCHANGED turn
    <3>1. stats' \in [StatNames -> Nat] /\ stats'["ok"] = stats["ok"]
      BY <1>2, <2>2, OthersCounted
    <3> QED
      BY <1>1, <2>1, <2>2, <3>1, KnownCodes, RespondsKeeps
  <2>3. CASE request[r].body = "fine" /\ Starts(r) /\ request' = [request EXCEPT ![r].phase = "waiting"]
             /\ UNCHANGED <<offered, stats>>
    BY <1>1, <2>1, <2>3, StartsKeeps
  <2> QED
    BY <1>3, <2>2, <2>3 DEF AsksTurn
<1>4. CASE AsksStream(r)
  <2>1. request[r].route = "stream"
    BY <1>4 DEF AsksStream, Accepted
  <2>2. CASE Responds(r, 501) /\ UNCHANGED <<turn, stats>>
    BY <1>1, <2>1, <2>2, KnownCodes, RespondsKeeps
  <2>3. CASE Responds(r, 400) /\ Counts("bad_request") /\ UNCHANGED turn
    <3>1. stats' \in [StatNames -> Nat] /\ stats'["ok"] = stats["ok"]
      BY <1>2, <2>3, OthersCounted
    <3> QED
      BY <1>1, <2>1, <2>3, <3>1, KnownCodes, RespondsKeeps
  <2>4. CASE request[r].body = "fine" /\ Starts(r) /\ UNCHANGED <<offered, stats>>
             /\ request' = [request EXCEPT ![r].phase = "streaming", ![r].code = 200, ![r].told = TRUE]
    BY <1>1, <2>1, <2>4, StartsKeeps
  <2> QED
    BY <1>4, <2>2, <2>3, <2>4 DEF AsksStream
<1> QED
  BY <1>3, <1>4

(* The agent puts pieces and ends the turn, whether or not anyone still       *)
(* waits.                                                                     *)
LEMMA TurnGoesOn ==
  ASSUME ApiInv, NEW r \in Requests, Emits(r) \/ EndsTurn(r)
  PROVE  ApiInv'
<1> DEFINE p == request[r]
           u == turn[r]
<1>1. /\ p \in RequestRecords /\ u \in TurnRecords /\ AnswerHolds(p, u) /\ PhaseHolds(p, u) /\ u.state = "running"
      /\ turn \in [Requests -> TurnRecords] /\ UNCHANGED <<offered, request, stats>>
  BY HoldsNow DEF Emits, EndsTurn
<1>2. p.got \in Nat /\ u.put \in Nat
  BY <1>1 DEF RequestRecords, TurnRecords
<1>3. CASE Emits(r)
  <2> DEFINE t == [u EXCEPT !.put = @ + 1]
  <2>1. t \in TurnRecords /\ t.state = "running" /\ t.put = u.put + 1 /\ t.how = u.how /\ turn' = [turn EXCEPT ![r] = t]
    BY <1>1, <1>2, <1>3 DEF TurnRecords, Emits
  <2> HIDE DEF t
  <2>2. AnswerHolds(p, t) /\ PhaseHolds(p, t)
    BY <1>1, <1>2, <2>1 DEF AnswerHolds, PhaseHolds
  <2> QED
    BY <1>1, <2>1, <2>2, TurnChanges
<1>4. CASE EndsTurn(r)
  <2>1. PICK how \in {"reply", "value", "timeout", "other"} :
          turn' = [turn EXCEPT ![r].state = "ended", ![r].how = how]
    BY <1>4 DEF EndsTurn
  <2> DEFINE t == [u EXCEPT !.state = "ended", !.how = how]
  <2>2. t \in TurnRecords /\ t.state = "ended" /\ t.put = u.put /\ turn' = [turn EXCEPT ![r] = t]
    BY <1>1, <2>1 DEF TurnRecords
  <2> HIDE DEF t
  <2>3. AnswerHolds(p, t) /\ PhaseHolds(p, t)
    BY <1>1, <2>2 DEF AnswerHolds, PhaseHolds
  <2> QED
    BY <1>1, <2>2, <2>3, TurnChanges
<1> QED
  BY <1>3, <1>4

(* The waiting request is answered with what its turn made, or with the       *)
(* timeout.                                                                   *)
LEMMA AnsweredKeeps ==
  ASSUME ApiInv, NEW r \in Requests, TurnAnswered(r) \/ TurnOverdue(r)
  PROVE  ApiInv'
<1>1. request[r].phase = "waiting" /\ request[r].route = "turn" /\ UNCHANGED turn
  BY HoldsNow DEF PhaseHolds, TurnAnswered, TurnOverdue
<1>2. CASE Counts("ok") /\ Responds(r, 200) /\ turn[r].state = "ended" /\ turn[r].how = "reply"
  BY <1>1, <1>2, KnownCodes, OkCounted, RespondsKeeps
<1>3. ASSUME NEW k \in {"bad_request", "timeout", "error"}, Counts(k), NEW code \in {400, 500, 504}, Responds(r, code)
      PROVE  ApiInv'
  <2>1. stats' \in [StatNames -> Nat] /\ stats'["ok"] = stats["ok"]
    BY <1>3, OthersCounted DEF StatNames
  <2> QED
    BY <1>1, <1>3, <2>1, KnownCodes, RespondsKeeps
<1> QED
  BY <1>2, <1>3 DEF TurnAnswered, TurnOverdue

(* A step of a stream leaves the turn alone.                                  *)
LEMMA StreamKeeps ==
  ASSUME ApiInv, NEW r \in Requests, Frame(r) \/ Disconnects(r) \/ StreamEnds(r) \/ StreamOverdue(r)
  PROVE  ApiInv'
<1> DEFINE p == request[r]
           t == turn[r]
<1>1. /\ p \in RequestRecords /\ t \in TurnRecords /\ AnswerHolds(p, t) /\ PhaseHolds(p, t) /\ p.phase = "streaming"
      /\ request \in [Requests -> RequestRecords] /\ stats \in [StatNames -> Nat]
      /\ turn' = [turn EXCEPT ![r] = t]
  BY HoldsNow DEF Frame, Disconnects, StreamEnds, StreamOverdue, Closing
<1>2. p.got \in Nat /\ t.put \in Nat /\ p.route = "stream" /\ p.code = 200 /\ p.ending = "none" /\ t.state # "none"
  BY <1>1 DEF RequestRecords, TurnRecords, PhaseHolds
<1>3. CASE Frame(r)
  <2> DEFINE q == [p EXCEPT !.got = @ + 1]
  <2>1. /\ q \in RequestRecords /\ q.phase = "streaming" /\ q.code = 200 /\ q.route = "stream" /\ q.token = p.token
        /\ q.body = p.body /\ q.got = p.got + 1 /\ q.ending = "none" /\ request' = [request EXCEPT ![r] = q]
    BY <1>1, <1>2, <1>3 DEF RequestRecords, Frame
  <2>2. p.got < t.put /\ UNCHANGED stats
    BY <1>3 DEF Frame
  <2> HIDE DEF q
  <2>3. AnswerHolds(q, t) /\ PhaseHolds(q, t) /\ ~Succeeds(q)
    BY <1>1, <1>2, <2>1, <2>2 DEF AnswerHolds, PhaseHolds, Succeeds, Scoped
  <2> QED
    BY <1>1, <2>1, <2>2, <2>3, RequestChanges
<1>4. ASSUME NEW ending \in {"cut", "done", "error"}, request' = [request EXCEPT ![r].phase = "over", ![r].ending = ending],
             ending = "done" => t.state = "ended" /\ t.how = "reply" /\ p.got = t.put,
             IF ending = "cut" THEN UNCHANGED stats ELSE Counts("ok")
      PROVE  ApiInv'
  <2> DEFINE q == [p EXCEPT !.phase = "over", !.ending = ending]
  <2>1. /\ q \in RequestRecords /\ q.phase = "over" /\ q.code = 200 /\ q.route = "stream" /\ q.token = p.token
        /\ q.body = p.body /\ q.got = p.got /\ q.ending = ending
    BY <1>1, <1>2, <1>4 DEF RequestRecords
  <2>2. request' = [request EXCEPT ![r] = q]
    BY <1>1, <1>4
  <2> HIDE DEF q
  <2>3. AnswerHolds(q, t) /\ PhaseHolds(q, t) /\ (Succeeds(q) <=> ending # "cut")
    BY <1>1, <1>2, <1>4, <2>1 DEF AnswerHolds, PhaseHolds, Succeeds, Scoped
  <2>4. stats' \in [StatNames -> Nat] /\ stats'["ok"] = IF Succeeds(q) THEN stats["ok"] + 1 ELSE stats["ok"]
    BY <1>1, <1>4, <2>3, OkCounted
  <2> QED
    BY <1>1, <2>1, <2>2, <2>3, <2>4, RequestChanges
<1>5. CASE Disconnects(r)
  BY <1>4, <1>5 DEF Disconnects
<1>6. CASE StreamEnds(r)
  BY <1>4, <1>6 DEF StreamEnds, Closing
<1>7. CASE StreamOverdue(r)
  BY <1>4, <1>7 DEF StreamOverdue, Closing
<1> QED
  BY <1>3, <1>5, <1>6, <1>7

(* A request comes, of any route, token and body.                             *)
LEMMA ComesKeeps ==
  ASSUME ApiInv, NEW r \in Requests, Comes(r)
  PROVE  ApiInv'
<1> DEFINE p == request[r]
           t == turn[r]
<1>1. PICK route \in Routes, token \in Tokens, body \in {"fine", "empty", "bad", "badlength"} :
        request' = [request EXCEPT ![r].phase = "called", ![r].route = route, ![r].token = token, ![r].body = body]
  BY DEF Comes
<1>2. /\ p \in RequestRecords /\ t \in TurnRecords /\ AnswerHolds(p, t) /\ PhaseHolds(p, t) /\ p.phase = "away"
      /\ request \in [Requests -> RequestRecords] /\ stats \in [StatNames -> Nat]
      /\ turn' = [turn EXCEPT ![r] = t] /\ UNCHANGED stats
  BY HoldsNow DEF Comes
<1> DEFINE q == [p EXCEPT !.phase = "called", !.route = route, !.token = token, !.body = body]
<1>3. q \in RequestRecords /\ q.phase = "called" /\ q.code = p.code /\ q.got = p.got /\ q.ending = p.ending
  BY <1>2 DEF RequestRecords
<1>4. request' = [request EXCEPT ![r] = q]
  BY <1>1, <1>2
<1> HIDE DEF q
<1>5. AnswerHolds(q, t) /\ PhaseHolds(q, t) /\ ~Succeeds(q)
  BY <1>2, <1>3 DEF AnswerHolds, PhaseHolds, Succeeds
<1> QED
  BY <1>2, <1>3, <1>4, <1>5, RequestChanges

(* A token that expires does so for the requests that have not been looked    *)
(* at.                                                                        *)
LEMMA ExpiresKeeps ==
  ASSUME ApiInv, Expires
  PROVE  ApiInv'
<1>1. request \in [Requests -> RequestRecords] /\ UNCHANGED <<offered, turn, stats>>
  BY DEF ApiInv, ApiShape, Expires
<1>2. ASSUME NEW r \in Requests
      PROVE  /\ request'[r] \in RequestRecords /\ AnswerHolds(request'[r], turn[r]) /\ PhaseHolds(request'[r], turn[r])
             /\ Succeeds(request'[r]) <=> Succeeds(request[r])
  <2> DEFINE p == request[r]
             q == [p EXCEPT !.token = "none"]
  <2>1. /\ p \in RequestRecords /\ AnswerHolds(p, turn[r]) /\ PhaseHolds(p, turn[r])
    BY HoldsNow
  <2>2. CASE request'[r] = p
    BY <2>1, <2>2
  <2>3. CASE request'[r] = q /\ p.phase = "called"
    <3>1. q \in RequestRecords /\ q.phase = "called" /\ q.code = p.code /\ q.got = p.got /\ q.ending = p.ending
      BY <2>1, <2>3 DEF RequestRecords, Tokens
    <3> HIDE DEF q
    <3> QED
      BY <2>1, <2>3, <3>1 DEF AnswerHolds, PhaseHolds, Succeeds
  <2> QED
    BY <2>2, <2>3 DEF Expires
<1>3. request' \in [Requests -> RequestRecords]
  <2>1. request' = [r \in Requests |-> request'[r]]
    BY DEF Expires
  <2> QED
    BY <1>2, <2>1
<1>4. Successes' = Successes
  <2>1. Successes = {r \in Requests : Succeeds(request[r])} /\ Successes' = {r \in Requests : Succeeds(request'[r])}
    BY SuccessesAre DEF Successes, Succeeds
  <2> QED
    BY <1>2, <2>1
<1>5. (\A r \in Requests : AnswerHolds(request[r], turn[r]) /\ PhaseHolds(request[r], turn[r]))'
  <2>1. \A r \in Requests : AnswerHolds(request'[r], turn'[r]) /\ PhaseHolds(request'[r], turn'[r])
    BY <1>1, <1>2
  <2> QED
    BY <2>1
<1> QED
  BY <1>1, <1>3, <1>4, <1>5 DEF ApiInv, ApiShape

(* A reply or a done event tells of a turn that ended well, with all its      *)
(* pieces sent before; only an accepted token and a body with text start a    *)
(* turn; the codes are those of the routes; and the count of successes is     *)
(* exact (rpc/http_api.py).                                                   *)
THEOREM ApiTellsTheTruth == ApiSpec => []ApiAnswersAreTrue
<1>1. ApiInit => ApiInv
  <2> SUFFICES ASSUME ApiInit PROVE ApiInv
    OBVIOUS
  <2>1. NotCalled \in RequestRecords /\ NoTurn \in TurnRecords
    BY DEF NotCalled, NoTurn, RequestRecords, TurnRecords, Routes, Tokens
  <2>2. AnswerHolds(NotCalled, NoTurn) /\ PhaseHolds(NotCalled, NoTurn) /\ ~Succeeds(NotCalled)
    BY DEF AnswerHolds, PhaseHolds, Succeeds, NotCalled, NoTurn
  <2>3. Successes = {}
    BY <2>2, SuccessesAre DEF ApiInit
  <2>4. IsFiniteSet(Successes) /\ Cardinality(Successes) = 0
    BY <2>3, FS_EmptySet
  <2>5. ApiShape /\ stats["ok"] = 0
    BY <2>1 DEF ApiInit, ApiShape, StatNames
  <2>6. \A r \in Requests : AnswerHolds(request[r], turn[r]) /\ PhaseHolds(request[r], turn[r])
    BY <2>2 DEF ApiInit
  <2> QED
    BY <2>4, <2>5, <2>6 DEF ApiInv
<1>2. ApiInv /\ [ApiNext]_apiVars => ApiInv'
  <2> SUFFICES ASSUME ApiInv, [ApiNext]_apiVars PROVE ApiInv'
    OBVIOUS
  <2>1. CASE UNCHANGED apiVars
    BY <2>1 DEF apiVars, ApiInv, ApiShape, Successes
  <2> QED
    BY <2>1, ExpiresKeeps, ComesKeeps, RefusedKeeps, IngestKeeps, AsksKeeps, TurnGoesOn, AnsweredKeeps, StreamKeeps
       DEF ApiNext
<1>3. ApiInv => ApiAnswersAreTrue
  BY DEF ApiInv, AnswerHolds, ApiAnswersAreTrue
<1> QED
  BY <1>1, <1>2, <1>3, PTL DEF ApiSpec
-----------------------------------------------------------------------------
(* The session of an event is the number of the event that began it, of the   *)
(* same sender. A row is of the last event of its sender, unless enough time  *)
(* has passed to remove it.                                                   *)
Ttl == StoreOf[platform].ttl
EventShape(e) ==
  /\ e \in [user : Senders, surface : SurfacesOf[platform], handle : BOOLEAN, session : Nat, at : Nat,
            lost : BOOLEAN, state : {"running", "over"}, answer : {e.answer}]
SurfaceShape ==
  /\ platform \in DOMAIN StoreOf /\ hours \in Nat
  /\ mapping \in [Senders -> MappingRows \cup {Nobody}]
  /\ \E S : handled \in Seq(S)
  /\ \A k \in DOMAIN handled : EventShape(handled[k]) /\ handled[k].at <= hours
SessionsAreOfOne ==
  \A k \in DOMAIN handled :
    handled[k].session \in 1..k /\ handled[handled[k].session].user = handled[k].user
RowsAreOfUsers ==
  \A u \in Senders : mapping[u] # Nobody =>
    mapping[u].session \in DOMAIN handled /\ handled[mapping[u].session].user = u /\ mapping[u].seen <= hours
IsLast(u, b) ==
  b \in DOMAIN handled /\ handled[b].user = u /\ \A j \in DOMAIN handled : handled[j].user = u => j <= b
RowsAreOfLast ==
  \A u \in Senders, b \in DOMAIN handled : IsLast(u, b) =>
    IF mapping[u] = Nobody THEN hours > handled[b].at + Ttl
    ELSE mapping[u].session = handled[b].session /\ mapping[u].seen = handled[b].at
IsBefore(j, k) ==
  /\ j < k /\ handled[j].user = handled[k].user
  /\ \A i \in 1..k - 1 : handled[i].user = handled[k].user => i <= j
EventsGoOn ==
  \A j, k \in DOMAIN handled : IsBefore(j, k) =>
    ((handled[k].session = handled[j].session) <=> (handled[k].at - handled[j].at <= Ttl /\ ~handled[k].lost))
AnswerIsBack(e, k) ==
  e.answer # Nobody =>
    /\ e.answer.to = Place(e) /\ e.answer.re \in {0, k}
    /\ e.surface \in {"thread", "channel", "button"} /\ e.handle => e.answer.re = k
SurfaceInv ==
  /\ SurfaceShape /\ SessionsAreOfOne /\ RowsAreOfUsers /\ RowsAreOfLast /\ EventsGoOn
  /\ \A k \in DOMAIN handled : AnswerIsBack(handled[k], k)

(* The platforms have their times to live from the configuration.             *)
LEMMA StoreIs == platform \in DOMAIN StoreOf => Ttl \in Nat
BY SurfaceAssumption
   DEF StoreOf, Ttl, Store, TelegramStore, DiscordStore, SlackStore, WhatsAppStore, TwilioStore, iMessageStore,
       EmailStore

(* An answer goes to the place its event came from, and where it is marked it *)
(* is for that event (gateway/platforms).                                     *)
LEMMA ReplyGoesBack ==
  ASSUME NEW k \in DOMAIN handled, platform \in DOMAIN StoreOf, EventShape(handled[k])
  PROVE  /\ ReplyTo(k).to = Place(handled[k]) /\ ReplyTo(k).re \in {0, k}
         /\ handled[k].surface \in {"thread", "channel", "button"} /\ handled[k].handle => ReplyTo(k).re = k
<1>1. \A via, marked : /\ To(k, via, marked).to = Place(handled[k]) /\ To(k, via, marked).re \in {0, k}
                       /\ marked /\ handled[k].handle => To(k, via, marked).re = k
  BY DEF To
<1>2. handled[k].surface \in SurfacesOf[platform]
  BY DEF EventShape
<1>3. platform \in {"telegram", "discord", "slack", "whatsapp", "twilio", "imessage", "email"}
  BY DEF StoreOf
<1> USE DEF ReplyTo
<1>4. CASE platform = "telegram"
  BY <1>1, <1>4 DEF TelegramReply
<1>5. CASE platform = "discord"
  <2>1. handled[k].surface \in {"slash", "dm", "thread", "channel"}
    BY <1>2, <1>5 DEF SurfacesOf, DiscordSurfaces
  <2>2. ReplyTo(k) = DiscordReply(k)
    BY <1>5
  <2>3. CASE handled[k].surface = "slash" /\ handled[k].handle
    BY <1>1, <2>2, <2>3 DEF DiscordReply
  <2>4. CASE ~(handled[k].surface = "slash" /\ handled[k].handle)
    <3>1. ReplyTo(k) = To(k, "channel", handled[k].surface \in {"thread", "channel"})
      BY <2>2, <2>4 DEF DiscordReply
    <3> QED
      BY <1>1, <2>1, <3>1
  <2> QED
    BY <2>3, <2>4
<1>6. CASE platform = "slack"
  <2>1. handled[k].surface \in {"slash", "button", "dm", "channel"}
    BY <1>2, <1>6 DEF SurfacesOf, SlackSurfaces
  <2>2. ReplyTo(k) = SlackReply(k)
    BY <1>6
  <2>3. CASE handled[k].surface = "button" /\ handled[k].handle
    BY <1>1, <2>2, <2>3 DEF SlackReply
  <2>4. CASE ~(handled[k].surface = "button" /\ handled[k].handle)
    <3>1. ReplyTo(k) = To(k, "postMessage", handled[k].surface \in {"channel", "dm"})
      BY <2>2, <2>4 DEF SlackReply
    <3> QED
      BY <1>1, <2>1, <2>4, <3>1
  <2> QED
    BY <2>3, <2>4
<1>7. CASE platform = "whatsapp"
  <2>1. handled[k].surface \in {"dm", "group"}
    BY <1>2, <1>7 DEF SurfacesOf, WhatsAppSurfaces
  <2>2. ReplyTo(k) = To(k, "bridge", FALSE)
    BY <1>7 DEF WhatsAppReply
  <2> QED
    BY <1>1, <2>1, <2>2
<1>8. CASE platform = "twilio"
  <2>1. handled[k].surface = "sms"
    BY <1>2, <1>8 DEF SurfacesOf
  <2>2. ReplyTo(k) = To(k, "Messages.json", FALSE)
    BY <1>8 DEF TwilioReply
  <2> QED
    BY <1>1, <2>1, <2>2
<1>9. CASE platform = "imessage"
  <2>1. handled[k].surface = "imessage"
    BY <1>2, <1>9 DEF SurfacesOf
  <2>2. ReplyTo(k) = To(k, "osascript", FALSE)
    BY <1>9 DEF iMessageReply
  <2> QED
    BY <1>1, <2>1, <2>2
<1>10. CASE platform = "email"
  <2>2. ReplyTo(k) = To(k, "smtp", TRUE)
    BY <1>10 DEF EmailReply
  <2> QED
    BY <1>1, <2>2
<1> QED
  BY <1>3, <1>4, <1>5, <1>6, <1>7, <1>8, <1>9, <1>10

(* An event joins the session of its sender's last event when the row is      *)
(* there and fresh, and begins one of its own otherwise.                      *)
LEMMA ResolveKeeps ==
  ASSUME SurfaceInv, NEW u \in Senders, NEW surface \in SurfacesOf[platform], NEW handle \in BOOLEAN,
         ResolveEvent(u, surface, handle)
  PROVE  SurfaceInv'
<1> DEFINE row == mapping[u]
           n == Len(handled)
           k == n + 1
           known == Continues(row)
           s == IF known THEN row.session ELSE k
           m == [session |-> s, seen |-> hours, surface |-> IF StoreOf[platform].keeps THEN surface ELSE "any"]
           lost == row # Nobody /\ row.session \notin sessions
           e == [user |-> u, surface |-> surface, handle |-> handle, session |-> s, at |-> hours,
                 lost |-> lost, state |-> "running", answer |-> Nobody]
<1>1. /\ platform \in DOMAIN StoreOf /\ hours \in Nat /\ mapping \in [Senders -> MappingRows \cup {Nobody}]
      /\ Ttl \in Nat /\ UNCHANGED <<platform, hours>>
  BY StoreIs DEF SurfaceInv, SurfaceShape, ResolveEvent
<1>2. PICK S : handled \in Seq(S)
  BY DEF SurfaceInv, SurfaceShape
<1>3. n \in Nat /\ DOMAIN handled = 1..n /\ k \in Nat /\ k # 0
  BY <1>2
<1>4. mapping' = [mapping EXCEPT ![u] = m] /\ handled' = Append(handled, e)
  BY DEF ResolveEvent
<1>5. /\ known => row # Nobody /\ row.session \in DOMAIN handled /\ handled[row.session].user = u
      /\ s \in 1..k
  <2>1. row # Nobody => row.session \in DOMAIN handled /\ handled[row.session].user = u
    BY DEF SurfaceInv, RowsAreOfUsers
  <2> QED
    BY <1>3, <2>1 DEF Continues
<1>6. m \in MappingRows /\ m # Nobody
  <2>1. surface \in UNION {SurfacesOf[p] : p \in DOMAIN StoreOf}
    BY <1>1
  <2>2. s \in Nat
    BY <1>3, <1>5
  <2>3. m \in MappingRows
    <3> DEFINE on == IF StoreOf[platform].keeps THEN surface ELSE "any"
               U == UNION {SurfacesOf[p] : p \in DOMAIN StoreOf}
               W == {"any"} \cup U
    <3>1. on \in W
      <4>1. surface \in U
        BY <2>1
      <4> HIDE DEF U
      <4> QED
        BY <4>1
    <3>2. MappingRows = [session : Nat, seen : Nat, surface : W]
      BY DEF MappingRows
    <3>3. m = [session |-> s, seen |-> hours, surface |-> on]
      OBVIOUS
    <3> HIDE DEF on, W, s, m
    <3> QED
      BY <1>1, <2>2, <3>1, <3>2, <3>3
  <2> QED
    BY <2>3, NobodyAssumption
<1>7. /\ e.user = u /\ e.surface = surface /\ e.handle = handle /\ e.session = s /\ e.at = hours
      /\ e.lost = lost /\ e.answer = Nobody /\ EventShape(e)
  BY <1>1, <1>3, <1>5 DEF EventShape
<1>8. m.session = s /\ m.seen = hours
  OBVIOUS
<1>9. /\ DOMAIN handled' = 1..k /\ Len(handled') = k /\ handled'[k] = e /\ \A i \in 1..n : handled'[i] = handled[i]
      /\ handled' \in Seq(S \cup {e})
  BY <1>2, <1>3, <1>4
<1>10. /\ mapping' \in [Senders -> MappingRows \cup {Nobody}] /\ mapping'[u] = m
       /\ \A v \in Senders \ {u} : mapping'[v] = mapping[v]
  BY <1>1, <1>4, <1>6
<1>11. /\ lost <=> row # Nobody /\ row.session \notin sessions
       /\ known <=> row # Nobody /\ hours - row.seen <= Ttl /\ row.session \in sessions
       /\ s = IF known THEN row.session ELSE k
  BY DEF Continues, Current, Ttl
<1> HIDE DEF m, e, lost, known, s, k, n
<1>12. \A i \in 1..k : i \in 1..n \/ i = k
  BY <1>3 DEF k
<1>13. 1..n \subseteq 1..k /\ k \in 1..k /\ k \notin 1..n /\ k > n
  BY <1>3 DEF k
<1>14. SurfaceShape'
  <2>1. \A i \in 1..n : EventShape(handled[i]) /\ handled[i].at <= hours
    BY <1>3 DEF SurfaceInv, SurfaceShape
  <2>2. \A x : EventShape(x)' <=> EventShape(x)
    BY <1>1 DEF EventShape
  <2>3. \A i \in 1..k : EventShape(handled'[i]) /\ handled'[i].at <= hours
    BY <1>1, <1>7, <1>9, <1>12, <2>1
  <2>4. (\A i \in DOMAIN handled : EventShape(handled[i]) /\ handled[i].at <= hours)'
    BY <1>1, <1>9, <2>3 DEF EventShape
  <2> QED
    BY <1>1, <1>9, <1>10, <2>4 DEF SurfaceShape
<1>15. SessionsAreOfOne'
  <2>1. ASSUME NEW i \in 1..n
        PROVE  handled'[i].session \in 1..i /\ handled'[handled'[i].session].user = handled'[i].user
    <3>1. handled[i].session \in 1..i /\ handled[handled[i].session].user = handled[i].user
      BY <1>3 DEF SurfaceInv, SessionsAreOfOne
    <3>2. handled[i].session \in 1..n
      BY <1>3, <3>1
    <3> QED
      BY <1>9, <3>1, <3>2
  <2>2. handled'[k].session \in 1..k /\ handled'[handled'[k].session].user = handled'[k].user
    <3>1. handled'[k].session = s /\ handled'[k].user = u
      BY <1>7, <1>9
    <3>2. handled'[s].user = u
      BY <1>3, <1>5, <1>7, <1>9, <1>11
    <3> QED
      BY <1>5, <3>1, <3>2
  <2> QED
    BY <1>9, <1>12, <2>1, <2>2 DEF SessionsAreOfOne
<1>16. RowsAreOfUsers'
  <2>1. ASSUME NEW v \in Senders, mapping'[v] # Nobody
        PROVE  /\ mapping'[v].session \in DOMAIN handled' /\ handled'[mapping'[v].session].user = v
               /\ mapping'[v].seen <= hours'
    <3>1. CASE v = u
      <4>1. handled'[s].user = u
        BY <1>3, <1>5, <1>7, <1>9, <1>11
      <4> QED
        BY <1>1, <1>5, <1>8, <1>9, <1>10, <3>1, <4>1
    <3>2. CASE v # u
      <4>1. mapping[v].session \in 1..n /\ handled[mapping[v].session].user = v /\ mapping[v].seen <= hours
        BY <1>3, <1>10, <2>1, <3>2 DEF SurfaceInv, RowsAreOfUsers
      <4> QED
        BY <1>1, <1>9, <1>10, <1>13, <3>2, <4>1
    <3> QED
      BY <3>1, <3>2
  <2> QED
    BY <2>1 DEF RowsAreOfUsers
<1>17. Ttl' = Ttl
  BY <1>1 DEF Ttl
<1>18. RowsAreOfLast'
  <2>1. ASSUME NEW v \in Senders, NEW b \in 1..k, handled'[b].user = v,
               \A j \in 1..k : handled'[j].user = v => j <= b
        PROVE  IF mapping'[v] = Nobody THEN hours > handled'[b].at + Ttl
               ELSE mapping'[v].session = handled'[b].session /\ mapping'[v].seen = handled'[b].at
    <3>1. CASE v = u
      <4>1. b = k
        BY <1>3, <1>7, <1>9, <1>12, <1>13, <2>1, <3>1
      <4> QED
        BY <1>6, <1>7, <1>8, <1>9, <1>10, <3>1, <4>1
    <3>2. CASE v # u
      <4>1. b \in 1..n
        BY <1>7, <1>9, <1>12, <2>1, <3>2
      <4>2. IsLast(v, b)
        BY <1>3, <1>9, <1>13, <2>1, <4>1 DEF IsLast
      <4>3. IF mapping[v] = Nobody THEN hours > handled[b].at + Ttl
            ELSE mapping[v].session = handled[b].session /\ mapping[v].seen = handled[b].at
        BY <1>3, <4>1, <4>2 DEF SurfaceInv, RowsAreOfLast
      <4> QED
        BY <1>9, <1>10, <3>2, <4>1, <4>3
    <3> QED
      BY <3>1, <3>2
  <2> QED
    BY <1>1, <1>9, <1>17, <2>1 DEF RowsAreOfLast, IsLast
<1>19. EventsGoOn'
  <2>1. ASSUME NEW j \in 1..k, NEW i \in 1..k, j < i, handled'[j].user = handled'[i].user,
               \A h \in 1..i - 1 : handled'[h].user = handled'[i].user => h <= j
        PROVE  (handled'[i].session = handled'[j].session) <=> (handled'[i].at - handled'[j].at <= Ttl /\ ~handled'[i].lost)
    <3>1. CASE i = k
      <4>1. j \in 1..n /\ 1..i - 1 = 1..n /\ handled'[i] = e /\ handled'[j] = handled[j]
        BY <1>3, <1>9, <1>12, <2>1, <3>1 DEF k
      <4>2. IsLast(u, j)
        BY <1>3, <1>7, <1>9, <2>1, <4>1 DEF IsLast
      <4>3. /\ row = Nobody => hours > handled[j].at + Ttl
            /\ row # Nobody => row.session = handled[j].session /\ row.seen = handled[j].at
        BY <1>3, <4>1, <4>2 DEF SurfaceInv, RowsAreOfLast
      <4>4. handled[j].session \in 1..j /\ handled[j].at \in Nat
        <5>1. EventShape(handled[j])
          BY <1>3, <4>1 DEF SurfaceInv, SurfaceShape
        <5> QED
          BY <1>3, <4>1, <5>1 DEF SurfaceInv, SessionsAreOfOne, EventShape
      <4>5. handled[j].session # k
        BY <1>3, <1>13, <4>1, <4>4
      <4>6. (s = handled[j].session) <=> known
        BY <1>11, <4>3, <4>5
      <4>7. known <=> (hours - handled[j].at <= Ttl /\ ~lost)
        <5>1. CASE row = Nobody
          BY <1>1, <1>11, <4>3, <4>4, <5>1
        <5>2. CASE row # Nobody
          BY <1>11, <4>3, <5>2
        <5> QED
          BY <5>1, <5>2
      <4> QED
        BY <1>7, <4>1, <4>6, <4>7
    <3>2. CASE i # k
      <4>1. i \in 1..n /\ j \in 1..n /\ \A h \in 1..i - 1 : h \in 1..n
        BY <1>3, <1>12, <2>1, <3>2
      <4>2. IsBefore(j, i)
        BY <1>9, <2>1, <4>1 DEF IsBefore
      <4> QED
        BY <1>3, <1>9, <4>1, <4>2 DEF SurfaceInv, EventsGoOn
    <3> QED
      BY <3>1, <3>2
  <2> QED
    BY <1>9, <1>17, <2>1 DEF EventsGoOn, IsBefore
<1>20. (\A i \in DOMAIN handled : AnswerIsBack(handled[i], i))'
  <2>1. \A i \in 1..n : AnswerIsBack(handled[i], i)
    BY <1>3 DEF SurfaceInv
  <2>2. AnswerIsBack(e, k)
    BY <1>7 DEF AnswerIsBack
  <2>3. \A i \in 1..k : AnswerIsBack(handled'[i], i)
    BY <1>9, <1>12, <2>1, <2>2
  <2> QED
    BY <1>9, <2>3
<1> QED
  BY <1>14, <1>15, <1>16, <1>18, <1>19, <1>20 DEF SurfaceInv

(* Sending the answer changes the event it is for and nothing that sessions   *)
(* depend on.                                                                 *)
LEMMA AnswerKeeps ==
  ASSUME SurfaceInv, NEW k \in DOMAIN handled, SendAnswer(k)
  PROVE  SurfaceInv'
<1>1. PICK answer \in {Nobody, ReplyTo(k)} :
        handled' = [handled EXCEPT ![k].state = "over", ![k].answer = answer]
  BY DEF SendAnswer
<1> DEFINE p == handled[k]
           e == [p EXCEPT !.state = "over", !.answer = answer]
<1>2. UNCHANGED <<platform, hours, mapping, sessions>> /\ platform \in DOMAIN StoreOf /\ EventShape(p)
  BY DEF SendAnswer, SurfaceInv, SurfaceShape
<1>3. PICK S : handled \in Seq(S)
  BY DEF SurfaceInv, SurfaceShape
<1>4. handled' = [handled EXCEPT ![k] = e]
  BY <1>1, <1>3
<1>5. /\ e.user = p.user /\ e.surface = p.surface /\ e.handle = p.handle /\ e.session = p.session /\ e.at = p.at
      /\ e.lost = p.lost /\ e.answer = answer
  BY <1>2 DEF EventShape
<1>6. EventShape(e)
  BY <1>2, <1>5 DEF EventShape
<1> HIDE DEF e
<1>7. /\ handled' \in Seq(S \cup {e}) /\ DOMAIN handled' = DOMAIN handled /\ handled'[k] = e
      /\ \A i \in DOMAIN handled \ {k} : handled'[i] = handled[i]
  BY <1>3, <1>4
<1>8. \A i \in DOMAIN handled :
        /\ handled'[i].user = handled[i].user /\ handled'[i].session = handled[i].session
        /\ handled'[i].at = handled[i].at /\ handled'[i].lost = handled[i].lost
  BY <1>5, <1>7
<1>9. SurfaceShape'
  <2>1. \A i \in DOMAIN handled : EventShape(handled[i]) /\ handled[i].at <= hours
    BY DEF SurfaceInv, SurfaceShape
  <2>2. \A i \in DOMAIN handled : EventShape(handled'[i]) /\ handled'[i].at <= hours
    BY <1>5, <1>6, <1>7, <2>1
  <2>3. (\A i \in DOMAIN handled : EventShape(handled[i]) /\ handled[i].at <= hours)'
    BY <1>2, <1>7, <2>2 DEF EventShape
  <2> QED
    BY <1>2, <1>7, <2>3 DEF SurfaceInv, SurfaceShape
<1>10. Ttl' = Ttl
  BY <1>2 DEF Ttl
<1>11. SessionsAreOfOne'
  <2>1. \A i \in DOMAIN handled : handled[i].session \in 1..i /\ handled[i].session \in DOMAIN handled
    BY <1>3 DEF SurfaceInv, SessionsAreOfOne
  <2>2. ASSUME NEW i \in DOMAIN handled
        PROVE  handled'[i].session \in 1..i /\ handled'[handled'[i].session].user = handled'[i].user
    <3>1. handled[handled[i].session].user = handled[i].user
      BY DEF SurfaceInv, SessionsAreOfOne
    <3> QED
      BY <1>8, <2>1, <3>1
  <2> QED
    BY <1>7, <2>2 DEF SessionsAreOfOne
<1>12. RowsAreOfUsers'
  BY <1>2, <1>7, <1>8 DEF SurfaceInv, RowsAreOfUsers
<1>13. RowsAreOfLast'
  BY <1>2, <1>7, <1>8, <1>10 DEF SurfaceInv, RowsAreOfLast, IsLast
<1>14. EventsGoOn'
  <2>1. \A i \in DOMAIN handled : 1..i - 1 \subseteq DOMAIN handled
    BY <1>3
  <2>2. \A i, j \in DOMAIN handled : IsBefore(j, i)' => IsBefore(j, i)
    BY <1>8, <2>1 DEF IsBefore
  <2> QED
    BY <1>7, <1>8, <1>10, <2>2 DEF SurfaceInv, EventsGoOn
<1>15. (\A i \in DOMAIN handled : AnswerIsBack(handled[i], i))'
  <2>1. Place(e) = Place(p)
    BY <1>5 DEF Place
  <2>2. AnswerIsBack(e, k)
    BY <1>2, <1>5, <2>1, ReplyGoesBack DEF AnswerIsBack
  <2>3. \A i \in DOMAIN handled : AnswerIsBack(handled'[i], i)
    BY <1>7, <2>2 DEF SurfaceInv
  <2> QED
    BY <1>7, <2>3
<1> QED
  BY <1>9, <1>11, <1>12, <1>13, <1>14, <1>15 DEF SurfaceInv

(* Rows go, the clock goes on, a session is removed.                          *)
LEMMA RowsGo ==
  ASSUME SurfaceInv, mapping' \in [Senders -> MappingRows \cup {Nobody}], UNCHANGED <<platform, handled>>,
         hours' \in Nat, hours <= hours',
         \A u \in Senders : mapping'[u] = mapping[u] \/ (mapping'[u] = Nobody /\ mapping[u].seen + Ttl < hours)
  PROVE  SurfaceInv'
<1>1. Ttl' = Ttl /\ Ttl \in Nat /\ hours \in Nat
  BY StoreIs DEF Ttl, SurfaceInv, SurfaceShape
<1>2. \A k \in DOMAIN handled : EventShape(handled[k]) /\ handled[k].at <= hours /\ handled[k].at \in Nat
  BY DEF SurfaceInv, SurfaceShape, EventShape
<1>3. SurfaceShape'
  <2>1. \A k \in DOMAIN handled : EventShape(handled[k]) /\ handled[k].at <= hours'
    BY <1>1, <1>2
  <2>2. (\A k \in DOMAIN handled : EventShape(handled[k]) /\ handled[k].at <= hours)'
    BY <2>1 DEF EventShape
  <2> QED
    BY <2>2 DEF SurfaceInv, SurfaceShape
<1>4. \A u \in Senders : mapping[u] # Nobody => mapping[u].seen \in Nat
  <2>1. \A u \in Senders : mapping[u] # Nobody => mapping[u] \in MappingRows
    BY DEF SurfaceInv, SurfaceShape
  <2> QED
    BY <2>1 DEF MappingRows
<1>5. RowsAreOfUsers'
  BY <1>1, <1>4 DEF SurfaceInv, RowsAreOfUsers
<1>6. RowsAreOfLast'
  <2>1. ASSUME NEW u \in Senders, NEW b \in DOMAIN handled, IsLast(u, b)
        PROVE  IF mapping'[u] = Nobody THEN hours' > handled[b].at + Ttl
               ELSE mapping'[u].session = handled[b].session /\ mapping'[u].seen = handled[b].at
    <3>1. IF mapping[u] = Nobody THEN hours > handled[b].at + Ttl
          ELSE mapping[u].session = handled[b].session /\ mapping[u].seen = handled[b].at
      BY <2>1 DEF SurfaceInv, RowsAreOfLast
    <3>2. handled[b].at \in Nat
      BY <1>2
    <3> QED
      BY <1>1, <3>1, <3>2
  <2> QED
    BY <1>1, <2>1 DEF RowsAreOfLast, IsLast
<1>7. SessionsAreOfOne' /\ EventsGoOn'
  BY <1>1 DEF SurfaceInv, SessionsAreOfOne, EventsGoOn, IsBefore
<1> QED
  BY <1>3, <1>5, <1>6, <1>7 DEF SurfaceInv

(* The event before one is the last earlier event of its sender.              *)
LEMMA BeforeIs ==
  ASSUME SurfaceInv, NEW k \in DOMAIN handled, Before(k) # 0
  PROVE  Before(k) \in DOMAIN handled /\ IsBefore(Before(k), k)
<1> DEFINE js == {j \in 1..k - 1 : handled[j].user = handled[k].user}
           D == {d \in Nat : k - d \in js}
<1>1. PICK S : handled \in Seq(S)
  BY DEF SurfaceInv, SurfaceShape
<1>2. k \in Nat /\ 1..k - 1 \subseteq DOMAIN handled
  BY <1>1
<1>3. PICK j \in js : TRUE
  BY DEF Before
<1>4. k - j \in D
  <2>1. k - j \in Nat /\ k - (k - j) = j
    BY <1>2, <1>3
  <2> QED
    BY <1>3, <2>1
<1>5. PICK d \in D : \A c \in D : ~(<<c, d>> \in OpToRel(<, Nat))
  <2>1. D \in SUBSET Nat /\ D # {}
    BY <1>4
  <2> QED
    BY <2>1, NatLessThanWellFounded, WFMin
<1>6. d \in Nat /\ k - d \in js
  <2>1. d \in D
    OBVIOUS
  <2> QED
    BY <2>1
<1>7. ASSUME NEW i \in js PROVE i <= k - d
  <2>1. k - i \in Nat /\ k - (k - i) = i
    BY <1>2
  <2>2. k - i \in D
    BY <2>1
  <2>3. ~(k - i < d)
    BY <1>5, <1>6, <2>1, <2>2 DEF OpToRel
  <2> QED
    BY <1>2, <1>6, <2>3
<1>8. Before(k) \in js /\ \A i \in js : i <= Before(k)
  <2>1. \E b \in js : \A i \in js : i <= b
    BY <1>6, <1>7
  <2>2. Before(k) = CHOOSE b \in js : \A i \in js : i <= b
    BY <1>3 DEF Before
  <2> HIDE DEF js
  <2> QED
    BY <2>1, <2>2
<1> QED
  BY <1>2, <1>8 DEF IsBefore

(* However the messages of many senders interleave with pauses, restarts and  *)
(* lost rows, an event goes on in the session of its sender's last event      *)
(* exactly when it comes within the time to live and no row was lost; and an  *)
(* answer goes to the place, and the message, that asked (gateway/platforms). *)
THEOREM ConversationsStayApart == SurfaceSpec => []EachInItsConversation
<1>1. SurfaceInit => SurfaceInv
  <2> SUFFICES ASSUME SurfaceInit PROVE SurfaceInv
    OBVIOUS
  <2>1. handled = <<>> /\ DOMAIN handled = {} /\ handled \in Seq({})
    BY DEF SurfaceInit
  <2>2. \A u \in Senders : mapping[u] = Nobody
    BY DEF SurfaceInit
  <2>3. SurfaceShape
    BY <2>1 DEF SurfaceInit, SurfaceShape
  <2> QED
    BY <2>1, <2>2, <2>3 DEF SurfaceInv, SessionsAreOfOne, RowsAreOfUsers, RowsAreOfLast, EventsGoOn
<1>2. SurfaceInv /\ [SurfaceNext]_surfaceVars => SurfaceInv'
  <2> SUFFICES ASSUME SurfaceInv, [SurfaceNext]_surfaceVars PROVE SurfaceInv'
    OBVIOUS
  <2>1. mapping \in [Senders -> MappingRows \cup {Nobody}] /\ hours \in Nat /\ hours <= hours
    BY DEF SurfaceInv, SurfaceShape
  <2>2. CASE UNCHANGED surfaceVars
    BY <2>1, <2>2, RowsGo DEF surfaceVars
  <2>3. CASE TimePasses
    BY <2>1, <2>3, RowsGo DEF TimePasses
  <2>4. ASSUME NEW s \in sessions, SessionGone(s) PROVE SurfaceInv'
    BY <2>1, <2>4, RowsGo DEF SessionGone
  <2>5. CASE EvictExpired
    <3>1. /\ \A u \in Senders : mapping'[u] = mapping[u] \/ (mapping'[u] = Nobody /\ mapping[u].seen + Ttl < hours)
          /\ mapping' \in [Senders -> MappingRows \cup {Nobody}] /\ UNCHANGED <<platform, hours, sessions, handled>>
      BY <2>1, <2>5 DEF EvictExpired, Ttl
    <3> QED
      BY <2>1, <3>1, RowsGo
  <2> QED
    BY <2>2, <2>3, <2>4, <2>5, ResolveKeeps, AnswerKeeps DEF SurfaceNext
<1>3. SurfaceInv => EachInItsConversation
  <2> SUFFICES ASSUME SurfaceInv PROVE EachInItsConversation
    OBVIOUS
  <2>1. \A k \in DOMAIN handled : Before(k) # 0 =>
          LET b == handled[Before(k)] IN
          (handled[k].session = b.session) = (handled[k].at - b.at <= StoreOf[platform].ttl /\ ~handled[k].lost)
    <3>1. ASSUME NEW k \in DOMAIN handled, Before(k) # 0
          PROVE  (handled[k].session = handled[Before(k)].session)
                   <=> (handled[k].at - handled[Before(k)].at <= Ttl /\ ~handled[k].lost)
      BY <3>1, BeforeIs DEF SurfaceInv, EventsGoOn
    <3> QED
      BY <3>1 DEF Ttl
  <2>2. \A j, k \in DOMAIN handled : handled[j].session = handled[k].session => handled[j].user = handled[k].user
    BY DEF SurfaceInv, SessionsAreOfOne
  <2>3. \A u \in Senders : SessionIdFor(u) # 0 => handled[SessionIdFor(u)].user = u
    BY DEF SurfaceInv, RowsAreOfUsers, SessionIdFor
  <2>4. ActiveCount = Cardinality({u \in Senders : SessionIdFor(u) # 0})
    <3>1. ASSUME NEW u \in Senders
          PROVE  mapping[u] # Nobody /\ mapping[u].seen + Ttl >= hours <=> SessionIdFor(u) # 0
      <4>1. Ttl \in Nat /\ hours \in Nat
        BY StoreIs DEF SurfaceInv, SurfaceShape
      <4>2. CASE mapping[u] = Nobody
        BY <4>2 DEF SessionIdFor
      <4>3. CASE mapping[u] # Nobody
        <5>1. mapping[u] \in MappingRows
          BY <4>3 DEF SurfaceInv, SurfaceShape
        <5>2. mapping[u].seen \in Nat
          BY <5>1 DEF MappingRows
        <5>3. mapping[u].session # 0
          <6>1. mapping[u].session \in DOMAIN handled
            BY <4>3 DEF SurfaceInv, RowsAreOfUsers
          <6>2. PICK S : handled \in Seq(S)
            BY DEF SurfaceInv, SurfaceShape
          <6> QED
            BY <6>1, <6>2
        <5> QED
          BY <4>1, <4>3, <5>2, <5>3 DEF SessionIdFor, Current, Ttl
      <4> QED
        BY <4>2, <4>3
    <3>2. {u \in Senders : mapping[u] # Nobody /\ mapping[u].seen + Ttl >= hours}
            = {u \in Senders : SessionIdFor(u) # 0}
      BY <3>1
    <3> QED
      BY <3>2 DEF ActiveCount, Ttl
  <2>5. AnswersGoBack
    BY DEF SurfaceInv, AnswerIsBack, AnswersGoBack
  <2> QED
    BY <2>1, <2>2, <2>3, <2>4, <2>5 DEF EachInItsConversation, ConversationsContinue
<1> QED
  BY <1>1, <1>2, <1>3, PTL DEF SurfaceSpec
-----------------------------------------------------------------------------
(* What a poll has to fetch or to hand on has become an event for nobody; a   *)
(* mail that became one is seen. References name earlier mails only, so the   *)
(* one that is answered is not among them yet.                                *)
MessageIds == {"mail", "reply"} \X Nat
MailRecords ==
  [good : BOOLEAN, seen : BOOLEAN, given : Nat, refs : Seq(MessageIds), thread : Seq(MessageIds), kept : BOOLEAN]
ReplyRecords ==
  [to : Nat, inReplyTo : MessageIds, refs : Seq(MessageIds), thread : Seq(MessageIds), kept : BOOLEAN]
MailShape ==
  /\ mailbox \in Seq(MailRecords) /\ replies \in Seq(ReplyRecords) /\ troubles \in Nat
  /\ mailPoll \in [state : {"none", "fetch"}, todo : SUBSET Mails, events : SUBSET Mails]
NamesBelow(refs, n) == \A j \in DOMAIN refs : refs[j][1] = "mail" => refs[j][2] < n
MailHolds(k, m) ==
  /\ m.given <= 1 /\ (m.given = 1 => m.seen)
  /\ NamesBelow(m.refs, k) /\ (m.kept => m.refs = m.thread)
PollHolds ==
  /\ \A k \in mailPoll.todo : mailbox[k].given = 0
  /\ \A k \in mailPoll.events : mailbox[k].given = 0 /\ mailbox[k].seen
ReplyHolds(r, ms) ==
  /\ r.to \in ms /\ NamesBelow(r.refs, r.to + 1) /\ (r.kept => r.refs = r.thread)
  /\ r.refs # <<>> /\ r.inReplyTo = r.refs[Len(r.refs)]
NoneIsPassedOver ==
  troubles = 0 =>
    \A k \in Mails : mailbox[k].good /\ mailbox[k].seen => mailbox[k].given = 1 \/ k \in mailPoll.events
MailInv ==
  /\ MailShape /\ PollHolds /\ NoneIsPassedOver
  /\ \A k \in Mails : MailHolds(k, mailbox[k])
  /\ \A i \in DOMAIN replies : ReplyHolds(replies[i], Mails)

(* A poll that has numbers left takes one of them: there is a least one.      *)
LEMMA NumberIs ==
  ASSUME MailInv, mailPoll.todo # {}
  PROVE  NextNumber \in mailPoll.todo /\ NextNumber \in Mails
<1>1. mailPoll.todo \in SUBSET Nat /\ mailPoll.todo \subseteq Mails
  BY DEF MailInv, MailShape, Mails
<1>2. PICK d \in mailPoll.todo : \A c \in mailPoll.todo : ~(<<c, d>> \in OpToRel(<, Nat))
  BY <1>1, NatLessThanWellFounded, WFMin
<1>3. d \in mailPoll.todo
  OBVIOUS
<1>4. \A c \in mailPoll.todo : ~(c < d)
  BY <1>1, <1>2, <1>3 DEF OpToRel
<1>5. \A c \in mailPoll.todo : d <= c
  BY <1>1, <1>3, <1>4
<1> QED
  BY <1>1, <1>3, <1>5 DEF NextNumber

(* References go on naming mails below a number that grows, and one more mail *)
(* below it may follow them.                                                  *)
LEMMA NamesGoOn ==
  ASSUME NEW refs \in Seq(MessageIds), NEW n \in Nat, NEW o \in Nat, o <= n, NamesBelow(refs, o),
         NEW id \in MessageIds, id[1] = "mail" => id[2] < n
  PROVE  NamesBelow(refs, n) /\ NamesBelow(Append(refs, id), n)
<1>1. ASSUME NEW j \in DOMAIN refs, refs[j][1] = "mail" PROVE refs[j][2] < n
  <2>1. PICK x \in MessageIds : x = refs[j]
    OBVIOUS
  <2>2. x[2] \in Nat /\ x[2] < o
    BY <1>1, <2>1 DEF MessageIds, NamesBelow
  <2> QED
    BY <2>1, <2>2
<1>2. NamesBelow(refs, n)
  BY <1>1 DEF NamesBelow
<1>3. ASSUME NEW j \in DOMAIN Append(refs, id)
      PROVE  Append(refs, id)[j] = id \/ (j \in DOMAIN refs /\ Append(refs, id)[j] = refs[j])
  OBVIOUS
<1>4. NamesBelow(Append(refs, id), n)
  BY <1>1, <1>3 DEF NamesBelow
<1> QED
  BY <1>2, <1>4

(* What a mail of the box is marked with leaves its headers.                  *)
LEMMA MarkKeeps ==
  ASSUME MailInv, NEW k \in Mails, NEW seen \in BOOLEAN, mailbox[k].seen => seen,
         mailbox' = [mailbox EXCEPT ![k].seen = seen], UNCHANGED replies
  PROVE  /\ mailbox' \in Seq(MailRecords) /\ Mails' = Mails
         /\ \A j \in Mails : /\ MailHolds(j, mailbox'[j]) /\ mailbox'[j].given = mailbox[j].given
                             /\ mailbox'[j].good = mailbox[j].good
                             /\ mailbox'[j].seen = (IF j = k THEN seen ELSE mailbox[j].seen)
         /\ \A i \in DOMAIN replies' : ReplyHolds(replies'[i], Mails')
<1>1. PICK m : m = [mailbox[k] EXCEPT !.seen = seen]
  OBVIOUS
<1>2. mailbox \in Seq(MailRecords) /\ mailbox[k] \in MailRecords
  BY DEF MailInv, MailShape, Mails
<1>3. /\ m \in MailRecords /\ m.seen = seen /\ m.given = mailbox[k].given /\ m.good = mailbox[k].good
      /\ m.refs = mailbox[k].refs /\ m.thread = mailbox[k].thread /\ m.kept = mailbox[k].kept
  BY <1>1, <1>2 DEF MailRecords
<1>4. mailbox' = [mailbox EXCEPT ![k] = m]
  BY <1>1, <1>2
<1>5. /\ mailbox' \in Seq(MailRecords) /\ Mails' = Mails
      /\ \A j \in Mails : mailbox'[j] = IF j = k THEN m ELSE mailbox[j]
  BY <1>2, <1>3, <1>4 DEF Mails
<1>6. \A j \in Mails : MailHolds(j, mailbox[j])
  BY DEF MailInv
<1>7. MailHolds(k, m)
  BY <1>3, <1>6 DEF MailHolds
<1>8. \A i \in DOMAIN replies : ReplyHolds(replies[i], Mails)
  BY DEF MailInv
<1>9. \A i \in DOMAIN replies' : ReplyHolds(replies'[i], Mails')
  BY <1>5, <1>8 DEF ReplyHolds
<1> QED
  BY <1>3, <1>5, <1>6, <1>7, <1>9

(* A mail that arrives is unseen, and its references are those of the reply   *)
(* it answers, if any, and that reply.                                        *)
LEMMA ArriveKeeps ==
  ASSUME MailInv, MailArrives
  PROVE  MailInv'
<1> PICK good \in BOOLEAN, parent \in 0..Len(replies), keeps \in BOOLEAN :
      mailbox' = Append(mailbox,
        [good |-> good, seen |-> FALSE, given |-> 0,
         refs |-> IF parent = 0 \/ ~keeps THEN <<>> ELSE Append(replies[parent].refs, Reply(parent)),
         thread |-> IF parent = 0 THEN <<>> ELSE Append(replies[parent].thread, Reply(parent)),
         kept |-> parent = 0 \/ (keeps /\ replies[parent].kept)])
  BY DEF MailArrives
<1>1. PICK m :
        /\ m = [good |-> good, seen |-> FALSE, given |-> 0,
                refs |-> IF parent = 0 \/ ~keeps THEN <<>> ELSE Append(replies[parent].refs, Reply(parent)),
                thread |-> IF parent = 0 THEN <<>> ELSE Append(replies[parent].thread, Reply(parent)),
                kept |-> parent = 0 \/ (keeps /\ replies[parent].kept)]
        /\ mailbox' = Append(mailbox, m)
  OBVIOUS
<1>2. /\ mailbox \in Seq(MailRecords) /\ replies \in Seq(ReplyRecords) /\ Len(mailbox) \in Nat
      /\ Mails = 1..Len(mailbox) /\ DOMAIN replies = 1..Len(replies) /\ Len(replies) \in Nat
  BY DEF MailInv, MailShape, Mails
<1>3. UNCHANGED <<mailPoll, replies, troubles>>
  BY DEF MailArrives
<1> DEFINE n == Len(mailbox) + 1
<1>4. /\ m.refs \in Seq(MessageIds) /\ m.thread \in Seq(MessageIds) /\ (m.kept => m.refs = m.thread)
      /\ NamesBelow(m.refs, n)
  <2>1. CASE parent = 0
    BY <1>1, <2>1 DEF NamesBelow
  <2>2. CASE parent # 0 /\ ~keeps
    <3>1. replies[parent] \in ReplyRecords
      BY <1>2, <2>2
    <3>2. replies[parent].thread \in Seq(MessageIds)
      BY <3>1 DEF ReplyRecords
    <3>3. Reply(parent) \in MessageIds
      BY <1>2 DEF MessageIds, Reply
    <3>4. m.refs = <<>> /\ m.thread = Append(replies[parent].thread, Reply(parent)) /\ ~m.kept
      BY <1>1, <2>2
    <3> QED
      BY <3>2, <3>3, <3>4 DEF NamesBelow
  <2>3. CASE parent # 0 /\ keeps
    <3> PICK r : r = replies[parent]
      OBVIOUS
    <3>1. r \in ReplyRecords /\ ReplyHolds(r, Mails) /\ parent \in DOMAIN replies
      BY <1>2, <2>3 DEF MailInv
    <3>2. /\ r.refs \in Seq(MessageIds) /\ r.thread \in Seq(MessageIds) /\ Reply(parent) \in MessageIds
          /\ Reply(parent)[1] = "reply" /\ r.to \in Nat
      BY <3>1, <1>2 DEF ReplyRecords, MessageIds, Reply
    <3>3. r.to < n /\ NamesBelow(r.refs, r.to + 1)
      BY <3>1, <3>2, <1>2 DEF ReplyHolds
    <3>4. n \in Nat /\ r.to + 1 \in Nat /\ r.to + 1 <= n
      BY <3>2, <3>3, <1>2
    <3>6. m.refs = Append(r.refs, Reply(parent)) /\ m.thread = Append(r.thread, Reply(parent)) /\ (m.kept => r.kept)
      BY <1>1, <2>3
    <3>7. NamesBelow(m.refs, n)
      <4>1. NamesBelow(Append(r.refs, Reply(parent)), n)
        BY <3>2, <3>3, <3>4, NamesGoOn
      <4> QED
        BY <3>6, <4>1
    <3> QED
      BY <3>1, <3>2, <3>6, <3>7 DEF ReplyHolds
  <2> QED
    BY <2>1, <2>2, <2>3
<1>5. m \in MailRecords /\ m.given = 0 /\ m.seen = FALSE
  BY <1>1, <1>2, <1>4 DEF MailRecords, ReplyRecords, MailInv, MailShape
<1>6. MailHolds(n, m)
  BY <1>4, <1>5 DEF MailHolds
<1> HIDE DEF n
<1>7. /\ mailbox' \in Seq(MailRecords) /\ Mails' = Mails \cup {n} /\ Mails \subseteq Mails' /\ n \notin Mails
      /\ mailbox'[n] = m /\ \A j \in Mails : mailbox'[j] = mailbox[j]
  BY <1>1, <1>2, <1>5 DEF Mails, n
<1>13. /\ mailPoll \in [state : {"none", "fetch"}, todo : SUBSET Mails, events : SUBSET Mails] /\ troubles \in Nat
       /\ mailPoll.todo \subseteq Mails /\ mailPoll.events \subseteq Mails
  BY DEF MailInv, MailShape
<1>8. MailShape'
  <2>1. mailPoll' \in [state : {"none", "fetch"}, todo : SUBSET Mails', events : SUBSET Mails']
    BY <1>3, <1>7, <1>13
  <2> QED
    BY <1>2, <1>3, <1>7, <1>13, <2>1 DEF MailShape
<1>9. PollHolds'
  <2>1. \A k \in mailPoll.todo : mailbox'[k].given = 0
    BY <1>7, <1>13 DEF MailInv, PollHolds
  <2>2. \A k \in mailPoll.events : mailbox'[k].given = 0 /\ mailbox'[k].seen
    <3>1. \A k \in mailPoll.events : mailbox[k].given = 0 /\ mailbox[k].seen
      BY DEF MailInv, PollHolds
    <3>2. \A k \in mailPoll.events : mailbox'[k] = mailbox[k]
      BY <1>7, <1>13
    <3> QED
      BY <3>1, <3>2
  <2> QED
    BY <1>3, <2>1, <2>2 DEF PollHolds
<1>10. NoneIsPassedOver'
  <2>1. NoneIsPassedOver
    BY DEF MailInv
  <2>2. ASSUME troubles = 0, NEW k \in Mails', mailbox'[k].good, mailbox'[k].seen
        PROVE  mailbox'[k].given = 1 \/ k \in mailPoll.events
    <3>1. k \in Mails /\ mailbox'[k] = mailbox[k]
      BY <1>5, <1>7, <2>2
    <3> QED
      BY <2>1, <2>2, <3>1 DEF NoneIsPassedOver
  <2> QED
    BY <1>3, <2>2 DEF NoneIsPassedOver
<1>11. \A k \in Mails' : MailHolds(k, mailbox'[k])
  BY <1>6, <1>7 DEF MailInv
<1>12. \A i \in DOMAIN replies' : ReplyHolds(replies'[i], Mails')
  BY <1>3, <1>7 DEF MailInv, ReplyHolds
<1> QED
  BY <1>8, <1>9, <1>10, <1>11, <1>12 DEF MailInv, MailHolds

(* A reply names what its mail named and that mail behind it, which earlier   *)
(* references cannot hold.                                                    *)
LEMMA ReplyKeeps ==
  ASSUME MailInv, NEW k \in Mails, SendReply(k)
  PROVE  MailInv'
<1>1. PICK r : /\ r = [to |-> k, inReplyTo |-> Mail(k), refs |-> BuildReferences(mailbox[k].refs, Mail(k)),
                       thread |-> Append(mailbox[k].thread, Mail(k)), kept |-> mailbox[k].kept]
               /\ replies' = Append(replies, r)
  BY DEF SendReply
<1>2. UNCHANGED <<mailbox, mailPoll, troubles>>
  BY DEF SendReply
<1>3. mailbox[k] \in MailRecords /\ k \in Nat /\ MailHolds(k, mailbox[k]) /\ replies \in Seq(ReplyRecords)
  BY DEF MailInv, MailShape, Mails
<1> PICK refs, thread, whole : refs = mailbox[k].refs /\ thread = mailbox[k].thread /\ whole = mailbox[k].kept
  OBVIOUS
<1>4. /\ refs \in Seq(MessageIds) /\ thread \in Seq(MessageIds) /\ Mail(k) \in MessageIds
      /\ Mail(k)[1] = "mail" /\ Mail(k)[2] = k /\ whole \in BOOLEAN
  BY <1>3 DEF MailRecords, MessageIds, Mail
<1>5. NamesBelow(refs, k) /\ (whole => refs = thread)
  BY <1>3 DEF MailHolds
<1>6. ~\E j \in DOMAIN refs : refs[j] = Mail(k)
  BY <1>3, <1>4, <1>5 DEF NamesBelow
<1>7. BuildReferences(refs, Mail(k)) = Append(refs, Mail(k))
  BY <1>6 DEF BuildReferences
<1>8. /\ r.to = k /\ r.inReplyTo = Mail(k) /\ r.refs = Append(refs, Mail(k)) /\ r.thread = Append(thread, Mail(k))
      /\ r.kept = whole
  BY <1>1, <1>7
<1>9. r \in ReplyRecords
  BY <1>1, <1>3, <1>4, <1>7 DEF ReplyRecords
<1>10. NamesBelow(r.refs, k + 1)
  <2>1. k + 1 \in Nat /\ k <= k + 1 /\ Mail(k)[2] < k + 1
    BY <1>3, <1>4
  <2>2. NamesBelow(Append(refs, Mail(k)), k + 1)
    BY <1>3, <1>4, <1>5, <2>1, NamesGoOn
  <2> QED
    BY <1>8, <2>2
<1>11. ReplyHolds(r, Mails)
  <2>1. Len(r.refs) = Len(refs) + 1 /\ r.refs[Len(refs) + 1] = Mail(k) /\ Len(refs) \in Nat
    <3>1. PICK x \in MessageIds : x = Mail(k) /\ r.refs = Append(refs, x)
      BY <1>4, <1>8
    <3> QED
      BY <1>4, <3>1
  <2>2. r.refs # <<>>
    BY <2>1
  <2>3. r.refs # <<>> /\ r.inReplyTo = r.refs[Len(r.refs)]
    BY <1>8, <2>1, <2>2
  <2>4. NamesBelow(r.refs, r.to + 1) /\ (r.kept => r.refs = r.thread)
    BY <1>5, <1>8, <1>10
  <2> QED
    BY <1>3, <1>5, <1>8, <1>10, <2>3, <2>4 DEF ReplyHolds
<1>12. /\ replies' \in Seq(ReplyRecords)
       /\ \A i \in DOMAIN replies' : replies'[i] = r \/ (i \in DOMAIN replies /\ replies'[i] = replies[i])
  BY <1>1, <1>3, <1>9
<1>13. \A i \in DOMAIN replies' : ReplyHolds(replies'[i], Mails)
  BY <1>11, <1>12 DEF MailInv
<1>14. MailShape' /\ PollHolds' /\ NoneIsPassedOver'
  BY <1>2, <1>12 DEF MailInv, MailShape, PollHolds, NoneIsPassedOver, Mails
<1>15. \A j \in Mails' : MailHolds(j, mailbox'[j])
  BY <1>2 DEF MailInv, Mails
<1>16. \A i \in DOMAIN replies' : ReplyHolds(replies'[i], Mails')
  BY <1>2, <1>13 DEF ReplyHolds, Mails
<1> QED
  BY <1>14, <1>15, <1>16 DEF MailInv, MailHolds

(* A poll that fetches a mail marks it and has its event, if it gives one;    *)
(* one that is refused leaves it.                                             *)
LEMMA FetchKeeps ==
  ASSUME MailInv, FetchMail \/ FetchRefused \/ PollRaises
  PROVE  MailInv'
<1> PICK k : k = NextNumber
  OBVIOUS
<1>1. k \in mailPoll.todo /\ k \in Mails /\ mailbox[k].given = 0
  BY NumberIs DEF FetchMail, FetchRefused, PollRaises, MailInv, PollHolds
<1>2. /\ mailPoll \in [state : {"none", "fetch"}, todo : SUBSET Mails, events : SUBSET Mails] /\ troubles \in Nat
      /\ mailbox \in Seq(MailRecords) /\ replies \in Seq(ReplyRecords) /\ mailbox[k] \in MailRecords
  BY <1>1 DEF MailInv, MailShape, Mails
<1>3. /\ \A j \in mailPoll.todo : mailbox[j].given = 0
      /\ \A j \in mailPoll.events : mailbox[j].given = 0 /\ mailbox[j].seen
  BY DEF MailInv, PollHolds
<1>4. CASE FetchMail
  <2>1. mailbox' = [mailbox EXCEPT ![k].seen = TRUE] /\ UNCHANGED <<replies, troubles>>
    BY <1>4 DEF FetchMail
  <2>2. /\ mailPoll'.todo = mailPoll.todo \ {k} /\ mailPoll'.state = mailPoll.state
        /\ mailPoll'.events = IF mailbox[k].good THEN mailPoll.events \cup {k} ELSE mailPoll.events
        /\ mailPoll' \in [state : {"none", "fetch"}, todo : SUBSET Mails, events : SUBSET Mails]
    BY <1>1, <1>2, <1>4 DEF FetchMail, ParseEmail
  <2>3. /\ mailbox' \in Seq(MailRecords) /\ Mails' = Mails
        /\ \A j \in Mails : /\ MailHolds(j, mailbox'[j]) /\ mailbox'[j].given = mailbox[j].given
                            /\ mailbox'[j].good = mailbox[j].good
                            /\ mailbox'[j].seen = (IF j = k THEN TRUE ELSE mailbox[j].seen)
        /\ \A i \in DOMAIN replies' : ReplyHolds(replies'[i], Mails')
    BY <1>1, <2>1, MarkKeeps
  <2>4. MailShape'
    BY <1>2, <2>1, <2>2, <2>3 DEF MailShape
  <2>5. PollHolds'
    <3>1. mailPoll'.todo \subseteq mailPoll.todo /\ mailPoll'.events \subseteq mailPoll.events \cup {k}
      BY <2>2
    <3>2. mailPoll.todo \subseteq Mails /\ mailPoll.events \subseteq Mails
      BY <1>2
    <3>3. \A j \in mailPoll'.todo : mailbox'[j].given = 0
      BY <1>3, <2>3, <3>1, <3>2
    <3>4. \A j \in mailPoll'.events : mailbox'[j].given = 0 /\ mailbox'[j].seen
      BY <1>1, <1>3, <2>3, <3>1, <3>2
    <3> QED
      BY <3>3, <3>4 DEF PollHolds
  <2>6. NoneIsPassedOver'
    BY <1>1, <2>1, <2>2, <2>3 DEF MailInv, NoneIsPassedOver
  <2> QED
    BY <2>3, <2>4, <2>5, <2>6 DEF MailInv, MailHolds
<1>5. CASE FetchRefused
  <2>1. UNCHANGED <<mailbox, replies>> /\ troubles' = troubles + 1
    BY <1>5 DEF FetchRefused, Trouble
  <2>2. /\ mailPoll'.todo \subseteq mailPoll.todo /\ mailPoll'.events = mailPoll.events
        /\ mailPoll' \in [state : {"none", "fetch"}, todo : SUBSET Mails, events : SUBSET Mails]
    BY <1>2, <1>5 DEF FetchRefused
  <2>3. MailShape'
    BY <1>2, <2>1, <2>2 DEF MailShape, Mails
  <2>4. PollHolds' /\ NoneIsPassedOver'
    BY <1>2, <1>3, <2>1, <2>2 DEF PollHolds, NoneIsPassedOver
  <2>5. \A j \in Mails' : MailHolds(j, mailbox'[j])
    BY <2>1 DEF MailInv, Mails
  <2>6. \A i \in DOMAIN replies' : ReplyHolds(replies'[i], Mails')
    BY <2>1 DEF MailInv, ReplyHolds, Mails
  <2> QED
    BY <2>3, <2>4, <2>5, <2>6 DEF MailInv, MailHolds
<1>6. CASE PollRaises
  <2>1. PICK marks \in BOOLEAN : mailbox' = [mailbox EXCEPT ![k].seen = @ \/ marks]
    BY <1>6 DEF PollRaises
  <2>2. /\ UNCHANGED replies /\ troubles' = troubles + 1 /\ mailPoll' = NoPoll
    BY <1>6 DEF PollRaises, Trouble
  <2>3. PICK seen \in BOOLEAN : seen = (mailbox[k].seen \/ marks)
    BY <1>2 DEF MailRecords
  <2>4. mailbox' = [mailbox EXCEPT ![k].seen = seen] /\ (mailbox[k].seen => seen)
    BY <1>1, <1>2, <2>1, <2>3
  <2>5. /\ mailbox' \in Seq(MailRecords) /\ Mails' = Mails
        /\ \A j \in Mails : MailHolds(j, mailbox'[j])
        /\ \A i \in DOMAIN replies' : ReplyHolds(replies'[i], Mails')
    BY <1>1, <2>2, <2>4, MarkKeeps
  <2>6. MailShape' /\ PollHolds' /\ NoneIsPassedOver'
    BY <1>2, <2>2, <2>5 DEF MailShape, PollHolds, NoneIsPassedOver, NoPoll
  <2> QED
    BY <2>5, <2>6 DEF MailInv, MailHolds
<1> QED
  BY <1>4, <1>5, <1>6

(* A poll that returns makes one event of each of its mails.                  *)
LEMMA ReturnKeeps ==
  ASSUME MailInv, PollReturns
  PROVE  MailInv'
<1>1. /\ mailbox' = [k \in Mails |-> IF k \in mailPoll.events
                                     THEN [mailbox[k] EXCEPT !.given = @ + 1] ELSE mailbox[k]]
      /\ mailPoll' = NoPoll /\ UNCHANGED <<replies, troubles>>
  BY DEF PollReturns
<1>2. /\ mailbox \in Seq(MailRecords) /\ Mails = 1..Len(mailbox) /\ Len(mailbox) \in Nat
      /\ \A k \in Mails : mailbox[k] \in MailRecords /\ MailHolds(k, mailbox[k])
      /\ \A k \in mailPoll.events : mailbox[k].given = 0 /\ mailbox[k].seen
  BY DEF MailInv, MailShape, Mails, PollHolds
<1>3. ASSUME NEW k \in Mails
      PROVE  /\ mailbox'[k] \in MailRecords /\ MailHolds(k, mailbox'[k])
             /\ mailbox'[k].good = mailbox[k].good /\ mailbox'[k].seen = mailbox[k].seen
             /\ k \in mailPoll.events => mailbox'[k].given = 1
             /\ mailbox[k].given = 1 => mailbox'[k].given = 1
  <2>1. CASE k \in mailPoll.events
    <3>1. mailbox'[k] = [mailbox[k] EXCEPT !.given = mailbox[k].given + 1]
      BY <1>1, <2>1, Zenon
    <3>2. mailbox[k] \in MailRecords /\ mailbox[k].given = 0 /\ mailbox[k].seen /\ MailHolds(k, mailbox[k])
      BY <1>2, <2>1
    <3>3. PICK q \in MailRecords : q = mailbox[k]
      BY <3>2
    <3>4. PICK m : m = [q EXCEPT !.given = 1]
      OBVIOUS
    <3>5. mailbox'[k] = m
      BY <3>1, <3>2, <3>3, <3>4
    <3>6. /\ m \in MailRecords /\ m.given = 1 /\ m.seen = q.seen /\ m.good = q.good
          /\ m.refs = q.refs /\ m.thread = q.thread /\ m.kept = q.kept
      BY <3>3, <3>4 DEF MailRecords
    <3>7. MailHolds(k, m)
      BY <3>2, <3>3, <3>6 DEF MailHolds
    <3> QED
      BY <3>2, <3>3, <3>5, <3>6, <3>7
  <2>2. CASE k \notin mailPoll.events
    BY <1>1, <1>2, <2>2
  <2> QED
    BY <2>1, <2>2
<1>4. mailbox' \in Seq(MailRecords) /\ Mails' = Mails
  <2>1. mailbox' \in [1..Len(mailbox) -> MailRecords]
    BY <1>1, <1>2, <1>3
  <2> QED
    BY <1>2, <2>1 DEF Mails
<1>5. MailShape' /\ PollHolds'
  BY <1>1, <1>4 DEF MailInv, MailShape, PollHolds, NoPoll
<1>6. NoneIsPassedOver'
  BY <1>1, <1>3, <1>4 DEF MailInv, NoneIsPassedOver
<1>7. \A i \in DOMAIN replies' : ReplyHolds(replies'[i], Mails')
  BY <1>1, <1>4 DEF MailInv, ReplyHolds
<1> QED
  BY <1>3, <1>4, <1>5, <1>6, <1>7 DEF MailInv, MailHolds

(* However polls fail and mails are read elsewhere, no mail becomes an event  *)
(* twice and, where nothing fails, none that can be answered is passed over;  *)
(* and a reply carries its thread, as far as clients sent it, and the mail it *)
(* answers at its end (gateway/platforms/email.py).                           *)
THEOREM MailsStayInTheirThread == MailSpec => []MailsAreAnsweredInTheirThread
<1>1. MailInit => MailInv
  BY DEF MailInit, MailInv, MailShape, PollHolds, NoneIsPassedOver, NoPoll, Mails, MailRecords, ReplyRecords
<1>2. MailInv /\ [MailNext]_mailVars => MailInv'
  <2> SUFFICES ASSUME MailInv, [MailNext]_mailVars PROVE MailInv'
    OBVIOUS
  <2>1. CASE MailArrives
    BY <2>1, ArriveKeeps
  <2>2. CASE Search
    <3>1. /\ UNCHANGED <<mailbox, replies, troubles>> /\ mailPoll = NoPoll
          /\ mailPoll' = [NoPoll EXCEPT !.state = "fetch", !.todo = {k \in Mails : ~mailbox[k].seen}]
      BY <2>2 DEF Search
    <3>2. /\ mailPoll'.todo = {k \in Mails : ~mailbox[k].seen} /\ mailPoll'.events = {}
          /\ mailPoll' \in [state : {"none", "fetch"}, todo : SUBSET Mails, events : SUBSET Mails]
      BY <3>1 DEF NoPoll
    <3>3. \A k \in Mails : MailHolds(k, mailbox[k]) /\ mailbox[k] \in MailRecords
      BY DEF MailInv, MailShape, Mails
    <3>4. \A k \in Mails : ~mailbox[k].seen => mailbox[k].given = 0
      BY <3>3 DEF MailHolds, MailRecords
    <3>5. MailShape'
      BY <3>1, <3>2 DEF MailInv, MailShape, Mails
    <3>6. PollHolds'
      BY <3>1, <3>2, <3>4 DEF PollHolds
    <3>7. NoneIsPassedOver'
      BY <3>1, <3>2 DEF MailInv, NoneIsPassedOver, NoPoll, Mails
    <3>8. (\A k \in Mails' : MailHolds(k, mailbox'[k])) /\ Mails' = Mails
      BY <3>1, <3>3 DEF Mails
    <3>9. \A i \in DOMAIN replies' : ReplyHolds(replies'[i], Mails')
      BY <3>1 DEF MailInv, ReplyHolds, Mails
    <3> QED
      BY <3>5, <3>6, <3>7, <3>8, <3>9 DEF MailInv, MailHolds
  <2>3. CASE FetchMail \/ FetchRefused \/ PollRaises
    BY <2>3, FetchKeeps
  <2>4. CASE PollReturns
    BY <2>4, ReturnKeeps
  <2>5. ASSUME NEW k \in Mails, ReadElsewhere(k) PROVE MailInv'
    <3>1. /\ mailbox' = [mailbox EXCEPT ![k].seen = TRUE] /\ UNCHANGED <<mailPoll, replies>>
          /\ troubles' = troubles + 1
      BY <2>5 DEF ReadElsewhere, Trouble
    <3>2. /\ mailbox' \in Seq(MailRecords) /\ Mails' = Mails
          /\ \A j \in Mails : /\ MailHolds(j, mailbox'[j]) /\ mailbox'[j].given = mailbox[j].given
                              /\ mailbox'[j].seen = (IF j = k THEN TRUE ELSE mailbox[j].seen)
          /\ \A i \in DOMAIN replies' : ReplyHolds(replies'[i], Mails')
      BY <3>1, MarkKeeps
    <3>3. MailShape' /\ PollHolds' /\ NoneIsPassedOver'
      BY <3>1, <3>2 DEF MailInv, MailShape, PollHolds, NoneIsPassedOver
    <3> QED
      BY <3>2, <3>3 DEF MailInv, MailHolds
  <2>6. ASSUME NEW k \in Mails, SendReply(k) PROVE MailInv'
    BY <2>6, ReplyKeeps
  <2>7. CASE UNCHANGED mailVars
    <3>1. UNCHANGED <<mailbox, mailPoll, replies, troubles>>
      BY <2>7 DEF mailVars
    <3> QED
      BY <3>1 DEF MailInv, MailShape, PollHolds, NoneIsPassedOver, MailHolds, ReplyHolds, Mails
  <2> QED
    BY <2>1, <2>2, <2>3, <2>4, <2>5, <2>6, <2>7 DEF MailNext
<1>3. MailInv => MailsAreAnsweredInTheirThread
  BY DEF MailInv, MailHolds, ReplyHolds, NoneIsPassedOver, MailsAreAnsweredInTheirThread
<1> QED
  BY <1>1, <1>2, <1>3, PTL DEF MailSpec
-----------------------------------------------------------------------------
(* The list of a process is what it has loaded and its own rows behind it;    *)
(* the rows of a process that are stored are those it has committed, which    *)
(* are all but the one under way and those refused.                           *)
SessionLines == Writers \X Nat
WriterRecords ==
  [phase : {"away", "migrating", "open", "appending", "holding", "gone"}, missing : SUBSET Columns,
   loaded : Nat, read : Nat, list : Seq(SessionLines), own : Nat,
   unsaved : SUBSET Nat]
InSession == {"open", "appending", "holding"}
RowsShape ==
  /\ columns \subseteq Columns /\ writer \in [Writers -> WriterRecords]
  /\ stored \in Seq(SessionLines) /\ usage \in Nat
Attempted(p) == 1..(IF p.phase = "open" THEN p.own ELSE p.own - 1)
Committed(p) == Attempted(p) \ p.unsaved
ListHolds(w, p, lines) ==
  /\ p.loaded <= Len(lines) /\ Len(p.list) = p.loaded + p.own
  /\ \A i \in 1..p.loaded : p.list[i] = lines[i]
  /\ \A n \in 1..p.own : p.list[p.loaded + n] = <<w, n>>
LinesHold(w, p, lines) ==
  /\ p.unsaved \subseteq Attempted(p)
  /\ \A i \in DOMAIN lines : lines[i][1] = w => lines[i][2] \in Committed(p)
  /\ \A n \in Committed(p) : \E i \in DOMAIN lines : lines[i] = <<w, n>>
  /\ \A i, j \in DOMAIN lines : i < j /\ lines[i][1] = w /\ lines[j][1] = w => lines[i][2] < lines[j][2]
WriterHolds(w, p, cols, held, lines) ==
  /\ p.phase = "migrating" => Columns \ p.missing \subseteq cols
  /\ p.phase \in {"away", "migrating"} => p.own = 0 /\ p.unsaved = {} /\ \A i \in DOMAIN lines : lines[i][1] # w
  /\ p.phase \in InSession => cols = Columns /\ ListHolds(w, p, lines) /\ LinesHold(w, p, lines)
  /\ p.phase \in {"appending", "holding"} => p.own > 0
  /\ p.phase = "holding" => held = {w}
IndexHolds ==
  /\ indexed = {stored[i] : i \in DOMAIN stored}
  /\ IsFiniteSet(indexed) /\ Len(stored) = Cardinality(indexed)
RowsInv ==
  /\ RowsShape /\ IndexHolds /\ usage = added
  /\ \A w \in Writers : WriterHolds(w, writer[w], columns, heldBy, stored)

(* What a process has of the stored rows stays so when more are stored.       *)
LEMMA ListGoesOn ==
  ASSUME NEW w, NEW p, NEW lines \in Seq(SessionLines), NEW more \in Seq(SessionLines),
         Len(lines) <= Len(more), \A i \in DOMAIN lines : more[i] = lines[i], p.loaded \in Nat,
         ListHolds(w, p, lines)
  PROVE  ListHolds(w, p, more)
<1>1. p.loaded <= Len(lines) /\ \A i \in 1..p.loaded : p.list[i] = lines[i]
  BY DEF ListHolds
<1>2. p.loaded <= Len(more) /\ \A i \in 1..p.loaded : i \in DOMAIN lines
  BY <1>1
<1>3. \A i \in 1..p.loaded : p.list[i] = more[i]
  BY <1>1, <1>2
<1> QED
  BY <1>2, <1>3 DEF ListHolds

(* One process moves on while nothing is stored: the others do not notice,    *)
(* but for columns that were added and the lock.                              *)
LEMMA WriterMoves ==
  ASSUME RowsInv, NEW w \in Writers, NEW p \in WriterRecords, writer' = [writer EXCEPT ![w] = p],
         UNCHANGED <<stored, indexed, usage, added>>,
         columns \subseteq columns', columns' \subseteq Columns,
         \A v \in Writers \ {w} : heldBy = {v} => heldBy' = {v},
         WriterHolds(w, p, columns', heldBy', stored)
  PROVE  RowsInv'
<1>1. /\ writer' \in [Writers -> WriterRecords] /\ writer'[w] = p
      /\ \A v \in Writers \ {w} : writer'[v] = writer[v]
  BY DEF RowsInv, RowsShape
<1>2. RowsShape' /\ IndexHolds' /\ usage' = added'
  BY <1>1 DEF RowsInv, RowsShape, IndexHolds
<1>3. ASSUME NEW v \in Writers \ {w} PROVE WriterHolds(v, writer'[v], columns', heldBy', stored')
  <2>1. WriterHolds(v, writer[v], columns, heldBy, stored) /\ columns \subseteq Columns
    BY DEF RowsInv, RowsShape
  <2>2. columns = Columns => columns' = Columns
    OBVIOUS
  <2> QED
    BY <1>1, <2>1, <2>2 DEF WriterHolds
<1>4. WriterHolds(w, writer'[w], columns', heldBy', stored')
  BY <1>1
<1> QED
  BY <1>2, <1>3, <1>4 DEF RowsInv

(* A process brings the columns up to date, and loads the session when none   *)
(* is missing (_migrate_columns, Session.load).                               *)
LEMMA ConnectionKeeps ==
  ASSUME RowsInv, NEW w \in Writers, Connects(w) \/ AddsColumn(w) \/ Loads(w)
  PROVE  RowsInv'
<1>1. PICK q \in WriterRecords : q = writer[w] /\ WriterHolds(w, q, columns, heldBy, stored)
  BY DEF RowsInv, RowsShape
<1>2. /\ writer \in [Writers -> WriterRecords] /\ columns \subseteq Columns /\ stored \in Seq(SessionLines)
      /\ usage \in Nat /\ Len(stored) \in Nat
  BY DEF RowsInv, RowsShape
<1>3. /\ Away \in WriterRecords /\ Away.phase = "away" /\ Away.own = 0 /\ Away.unsaved = {}
      /\ Away.phase \notin InSession /\ Away.phase \notin {"appending", "holding"} /\ Away.phase # "migrating"
  BY DEF Away, WriterRecords, InSession
<1>4. CASE Connects(w)
  <2>1. PICK p : p = [q EXCEPT !.phase = "migrating", !.missing = Columns \ columns]
    OBVIOUS
  <2>2. /\ p \in WriterRecords /\ p.phase = "migrating" /\ p.missing = Columns \ columns /\ p.own = q.own
        /\ p.unsaved = q.unsaved
    BY <1>1, <1>2, <2>1 DEF WriterRecords
  <2>3. q.phase = "away" /\ writer' = [writer EXCEPT ![w] = p]
    BY <1>1, <1>2, <1>4, <2>1 DEF Connects
  <2>4. WriterHolds(w, p, columns, heldBy, stored)
    BY <1>1, <1>2, <2>2, <2>3 DEF WriterHolds, InSession
  <2> QED
    BY <1>2, <1>4, <2>2, <2>3, <2>4, WriterMoves DEF Connects
<1>5. CASE AddsColumn(w)
  <2>1. PICK c \in q.missing : IF c \in columns
                               THEN UNCHANGED columns /\ writer' = [writer EXCEPT ![w] = Away]
                               ELSE /\ columns' = columns \cup {c}
                                    /\ writer' = [writer EXCEPT ![w].missing = @ \ {c}]
    BY <1>1, <1>5 DEF AddsColumn
  <2>2. q.phase = "migrating" /\ UNCHANGED <<heldBy, stored, indexed, usage, added>>
    BY <1>1, <1>5 DEF AddsColumn
  <2>3. q.own = 0 /\ q.unsaved = {} /\ (\A i \in DOMAIN stored : stored[i][1] # w) /\ Columns \ q.missing \subseteq columns
    BY <1>1, <2>2 DEF WriterHolds
  <2>4. CASE c \in columns
    <3>1. WriterHolds(w, Away, columns, heldBy, stored)
      BY <1>3, <2>3 DEF WriterHolds
    <3> QED
      BY <1>2, <1>3, <2>1, <2>2, <2>4, <3>1, WriterMoves
  <2>5. CASE c \notin columns
    <3>1. PICK p : p = [q EXCEPT !.missing = @ \ {c}]
      OBVIOUS
    <3>2. p \in WriterRecords /\ p.phase = "migrating" /\ p.missing = q.missing \ {c} /\ p.own = q.own
          /\ p.unsaved = q.unsaved
      BY <1>1, <2>2, <3>1 DEF WriterRecords
    <3>3. writer' = [writer EXCEPT ![w] = p] /\ columns' = columns \cup {c}
      BY <1>1, <1>2, <2>1, <2>5, <3>1
    <3>4. c \in Columns
      BY <1>1, <2>1 DEF WriterRecords
    <3>5. WriterHolds(w, p, columns', heldBy', stored)
      BY <2>2, <2>3, <3>2, <3>3 DEF WriterHolds, InSession
    <3> QED
      BY <1>2, <2>2, <3>2, <3>3, <3>4, <3>5, WriterMoves
  <2> QED
    BY <2>4, <2>5
<1>6. CASE Loads(w)
  <2>1. q.phase = "migrating" /\ q.missing = {} /\ UNCHANGED <<columns, heldBy, stored, indexed, usage, added>>
    BY <1>1, <1>6 DEF Loads
  <2>2. q.own = 0 /\ q.unsaved = {} /\ (\A i \in DOMAIN stored : stored[i][1] # w) /\ columns = Columns
    BY <1>1, <1>2, <2>1 DEF WriterHolds
  <2>3. PICK p : p = [q EXCEPT !.phase = "open", !.loaded = Len(stored), !.list = stored, !.read = usage]
    OBVIOUS
  <2>4. /\ p \in WriterRecords /\ p.phase = "open" /\ p.loaded = Len(stored) /\ p.list = stored /\ p.own = 0
        /\ p.unsaved = {}
    BY <1>1, <1>2, <2>2, <2>3 DEF WriterRecords
  <2>5. writer' = [writer EXCEPT ![w] = p]
    BY <1>1, <1>2, <1>6, <2>3 DEF Loads
  <2>6. ListHolds(w, p, stored)
    BY <1>2, <2>4 DEF ListHolds
  <2>7. LinesHold(w, p, stored)
    BY <1>2, <2>2, <2>4 DEF LinesHold, Committed, Attempted
  <2>8. WriterHolds(w, p, columns, heldBy, stored)
    BY <2>2, <2>4, <2>6, <2>7 DEF WriterHolds
  <2> QED
    BY <1>2, <2>1, <2>4, <2>5, <2>8, WriterMoves
<1> QED
  BY <1>4, <1>5, <1>6

(* A process puts the row into its list, takes the lock when nobody has it,   *)
(* or ends.                                                                   *)
LEMMA AppendKeeps ==
  ASSUME RowsInv, NEW w \in Writers, Appends(w) \/ Locks(w) \/ WriterLeaves(w)
  PROVE  RowsInv'
<1>1. PICK q \in WriterRecords : q = writer[w] /\ WriterHolds(w, q, columns, heldBy, stored)
  BY DEF RowsInv, RowsShape
<1>2. /\ writer \in [Writers -> WriterRecords] /\ columns \subseteq Columns /\ stored \in Seq(SessionLines)
      /\ Len(stored) \in Nat
  BY DEF RowsInv, RowsShape
<1>6. Away \in WriterRecords
  BY DEF Away, WriterRecords
<1>3. CASE Appends(w)
  <2>1. q.phase = "open" /\ UNCHANGED <<columns, heldBy, stored, indexed, usage, added>>
    BY <1>1, <1>3 DEF Appends
  <2>2. columns = Columns /\ ListHolds(w, q, stored) /\ LinesHold(w, q, stored)
    BY <1>1, <2>1 DEF WriterHolds, InSession
  <2>4. q.own \in Nat /\ q.loaded \in Nat /\ q.list \in Seq(SessionLines) /\ <<w, q.own + 1>> \in SessionLines
    BY <1>1 DEF WriterRecords, SessionLines
  <2>11. PICK n \in Nat, l \in Seq(SessionLines) : n = q.own + 1 /\ l = Append(q.list, <<w, q.own + 1>>)
    <3>1. q.own + 1 \in Nat
      BY <2>4
    <3>2. PICK x \in SessionLines : x = <<w, q.own + 1>>
      BY <2>4
    <3>3. Append(q.list, x) \in Seq(SessionLines)
      BY <2>4
    <3> QED
      BY <3>1, <3>2, <3>3, Zenon
  <2>3. PICK p : p = [q EXCEPT !.phase = "appending", !.own = n, !.list = l]
    OBVIOUS
  <2>5. /\ p.phase = "appending" /\ p.own = q.own + 1 /\ p.list = Append(q.list, <<w, q.own + 1>>)
        /\ p.loaded = q.loaded /\ p.unsaved = q.unsaved /\ p \in WriterRecords
    BY <1>1, <2>3, <2>4, <2>11 DEF WriterRecords
  <2>6. writer' = [writer EXCEPT ![w] = p]
    BY <1>1, <1>2, <1>3, <2>3, <2>11 DEF Appends
  <2>7. ListHolds(w, p, stored)
    <3>1. /\ q.loaded <= Len(stored) /\ Len(q.list) = q.loaded + q.own
          /\ \A i \in 1..q.loaded : q.list[i] = stored[i]
          /\ \A j \in 1..q.own : q.list[q.loaded + j] = <<w, j>>
      BY <2>2 DEF ListHolds
    <3>2. /\ Len(p.list) = Len(q.list) + 1 /\ p.list[Len(q.list) + 1] = <<w, q.own + 1>>
          /\ \A i \in 1..Len(q.list) : p.list[i] = q.list[i]
      BY <2>4, <2>5
    <3>3. \A j \in 1..p.own : j \in 1..q.own \/ j = q.own + 1
      BY <2>4, <2>5
    <3>4. \A i \in 1..q.loaded : p.list[i] = stored[i]
      BY <2>4, <3>1, <3>2
    <3>5. ASSUME NEW j \in 1..q.own PROVE p.list[p.loaded + j] = <<w, j>>
      <4>1. q.list[q.loaded + j] = <<w, j>>
        BY <3>1
      <4>2. Len(q.list) = q.loaded + q.own /\ j \in Nat /\ 1 <= j /\ j <= q.own
        BY <2>4, <3>1
      <4>3. q.loaded + j \in 1..Len(q.list)
        BY <2>4, <4>2
      <4> QED
        BY <2>5, <3>2, <4>1, <4>3
    <3>6. p.list[p.loaded + (q.own + 1)] = <<w, q.own + 1>>
      <4>1. q.loaded + (q.own + 1) = Len(q.list) + 1
        BY <2>4, <3>1
      <4> QED
        BY <2>5, <3>2, <4>1
    <3>7. \A j \in 1..p.own : p.list[p.loaded + j] = <<w, j>>
      BY <3>3, <3>5, <3>6
    <3>8. p.loaded <= Len(stored) /\ Len(p.list) = p.loaded + p.own
      BY <2>4, <2>5, <3>1, <3>2
    <3> QED
      BY <2>5, <3>4, <3>7, <3>8 DEF ListHolds
  <2>8. LinesHold(w, p, stored)
    <3>1. Attempted(p) = Attempted(q)
      BY <2>1, <2>4, <2>5 DEF Attempted
    <3>2. Committed(p) = Committed(q)
      BY <2>5, <3>1 DEF Committed
    <3> QED
      BY <2>2, <2>5, <3>1, <3>2 DEF LinesHold
  <2>9. WriterHolds(w, p, columns, heldBy, stored)
    BY <2>2, <2>4, <2>5, <2>7, <2>8 DEF WriterHolds
  <2> QED
    BY <1>2, <2>1, <2>5, <2>6, <2>9, WriterMoves
<1>4. CASE Locks(w)
  <2>1. /\ q.phase = "appending" /\ heldBy = {} /\ heldBy' = {w}
        /\ UNCHANGED <<columns, stored, indexed, usage, added>>
    BY <1>1, <1>4 DEF Locks
  <2>2. PICK p : p = [q EXCEPT !.phase = "holding"]
    OBVIOUS
  <2>3. /\ p \in WriterRecords /\ p.phase = "holding" /\ p.own = q.own /\ p.list = q.list
        /\ p.loaded = q.loaded /\ p.unsaved = q.unsaved
    BY <1>1, <2>2 DEF WriterRecords
  <2>4. writer' = [writer EXCEPT ![w] = p]
    BY <1>1, <1>2, <1>4, <2>2 DEF Locks
  <2>5. columns = Columns /\ ListHolds(w, q, stored) /\ LinesHold(w, q, stored) /\ q.own > 0
    BY <1>1, <2>1 DEF WriterHolds, InSession
  <2>6. ListHolds(w, p, stored) /\ LinesHold(w, p, stored)
    BY <2>1, <2>3, <2>5 DEF ListHolds, LinesHold, Committed, Attempted
  <2>7. WriterHolds(w, p, columns, heldBy', stored)
    BY <2>1, <2>3, <2>5, <2>6 DEF WriterHolds
  <2> QED
    BY <1>2, <2>1, <2>3, <2>4, <2>7, WriterMoves
<1>5. CASE WriterLeaves(w)
  <2>1. PICK p : p = [Away EXCEPT !.phase = "gone"]
    OBVIOUS
  <2>2. p \in WriterRecords /\ p.phase = "gone"
    BY <1>6, <2>1 DEF WriterRecords
  <2>3. /\ writer' = [writer EXCEPT ![w] = p] /\ heldBy' = heldBy \ {w}
        /\ UNCHANGED <<columns, stored, indexed, usage, added>>
    BY <1>5, <2>1 DEF WriterLeaves
  <2>4. WriterHolds(w, p, columns, heldBy', stored)
    BY <2>2 DEF WriterHolds, InSession
  <2> QED
    BY <1>2, <2>2, <2>3, <2>4, WriterMoves
<1> QED
  BY <1>3, <1>4, <1>5

(* The process that holds the lock stores its newest row, which was not       *)
(* there: all others of its own have smaller numbers.                         *)
LEMMA CommitKeeps ==
  ASSUME RowsInv, NEW w \in Writers, Commits(w)
  PROVE  RowsInv'
<1>1. PICK q \in WriterRecords : q = writer[w] /\ WriterHolds(w, q, columns, heldBy, stored)
  BY DEF RowsInv, RowsShape
<1>2. /\ writer \in [Writers -> WriterRecords] /\ columns \subseteq Columns /\ stored \in Seq(SessionLines)
      /\ Len(stored) \in Nat /\ DOMAIN stored = 1..Len(stored)
  BY DEF RowsInv, RowsShape
<1>3. /\ q.phase = "holding" /\ heldBy' = {} /\ UNCHANGED <<columns, usage, added>>
      /\ stored' = Append(stored, Newest(w)) /\ indexed' = indexed \cup {Newest(w)}
  BY <1>1 DEF Commits
<1>4. /\ columns = Columns /\ ListHolds(w, q, stored) /\ LinesHold(w, q, stored) /\ q.own > 0 /\ heldBy = {w}
  BY <1>1, <1>3 DEF WriterHolds, InSession
<1>5. q.own \in Nat /\ q.loaded \in Nat /\ q.list \in Seq(SessionLines)
  BY <1>1 DEF WriterRecords
<1>6. PICK row : row = <<w, q.own>>
  OBVIOUS
<1>7. Newest(w) = row /\ row \in SessionLines /\ row[1] = w /\ row[2] = q.own
  <2>1. Len(q.list) = q.loaded + q.own /\ q.list[q.loaded + q.own] = <<w, q.own>>
    BY <1>4, <1>5 DEF ListHolds
  <2>2. Newest(w) = q.list[Len(q.list)]
    BY <1>1 DEF Newest
  <2>3. row \in SessionLines /\ row[1] = w /\ row[2] = q.own
    BY <1>5, <1>6 DEF SessionLines
  <2> QED
    BY <1>6, <2>1, <2>2, <2>3
<1>8. /\ stored' \in Seq(SessionLines) /\ DOMAIN stored' = 1..(Len(stored) + 1) /\ Len(stored') = Len(stored) + 1
      /\ stored'[Len(stored) + 1] = row /\ \A i \in DOMAIN stored : stored'[i] = stored[i]
  BY <1>2, <1>3, <1>7
<1>9. PICK p : p = [q EXCEPT !.phase = "open"]
  OBVIOUS
<1>10. /\ p \in WriterRecords /\ p.phase = "open" /\ p.own = q.own /\ p.list = q.list /\ p.loaded = q.loaded
       /\ p.unsaved = q.unsaved
  BY <1>1, <1>9 DEF WriterRecords
<1>11. writer' = [writer EXCEPT ![w] = p]
  BY <1>1, <1>2, <1>9 DEF Commits
<1>12. /\ writer' \in [Writers -> WriterRecords] /\ writer'[w] = p
       /\ \A v \in Writers \ {w} : writer'[v] = writer[v]
  BY <1>2, <1>10, <1>11
<1>13. RowsShape'
  BY <1>3, <1>8, <1>12 DEF RowsInv, RowsShape
<1>14. /\ Attempted(q) = 1..(q.own - 1) /\ Attempted(p) = 1..q.own /\ q.unsaved \subseteq Attempted(q)
       /\ Committed(q) \subseteq 1..(q.own - 1) /\ Committed(p) = Committed(q) \cup {q.own}
  <2>1. Attempted(q) = 1..(q.own - 1) /\ Attempted(p) = 1..q.own /\ q.unsaved \subseteq Attempted(q)
    BY <1>3, <1>4, <1>10 DEF Attempted, LinesHold
  <2>2. 1..q.own = (1..(q.own - 1)) \cup {q.own} /\ q.own \notin 1..(q.own - 1)
    BY <1>4, <1>5
  <2> QED
    BY <1>10, <2>1, <2>2 DEF Committed
<1>15. \A i \in DOMAIN stored : stored[i][1] = w => stored[i][2] \in 1..(q.own - 1)
  BY <1>4, <1>14 DEF LinesHold
<1>16. row \notin indexed
  BY <1>5, <1>7, <1>15 DEF RowsInv, IndexHolds
<1>17. IndexHolds'
  <2>1. indexed' = {stored'[i] : i \in DOMAIN stored'}
    BY <1>2, <1>3, <1>7, <1>8 DEF RowsInv, IndexHolds
  <2>2. IsFiniteSet(indexed') /\ Cardinality(indexed') = Cardinality(indexed) + 1
    BY <1>3, <1>7, <1>16, FS_AddElement DEF RowsInv, IndexHolds
  <2> QED
    BY <1>8, <2>1, <2>2 DEF RowsInv, IndexHolds
<1>18. ListHolds(w, p, stored')
  <2>1. ListHolds(w, q, stored')
    <3>1. Len(stored) <= Len(stored') /\ \A i \in DOMAIN stored : stored'[i] = stored[i]
      BY <1>2, <1>8
    <3> QED
      BY <1>2, <1>4, <1>5, <1>8, <3>1, ListGoesOn
  <2> QED
    BY <1>10, <2>1 DEF ListHolds
<1>19. LinesHold(w, p, stored')
  <2>1. \A i \in DOMAIN stored' : stored'[i][1] = w => stored'[i][2] \in Committed(p)
    <3>1. \A i \in DOMAIN stored : stored[i][1] = w => stored[i][2] \in Committed(q)
      BY <1>4 DEF LinesHold
    <3> QED
      BY <1>2, <1>7, <1>8, <1>14, <3>1
  <2>2. \A n \in Committed(q) : \E i \in DOMAIN stored : stored[i] = <<w, n>>
    BY <1>4 DEF LinesHold
  <2>3. \A n \in Committed(p) : \E i \in DOMAIN stored' : stored'[i] = <<w, n>>
    <3> SUFFICES ASSUME NEW n \in Committed(p) PROVE \E i \in DOMAIN stored' : stored'[i] = <<w, n>>
      OBVIOUS
    <3>1. CASE n = q.own
      BY <1>2, <1>6, <1>8, <3>1
    <3>2. CASE n # q.own
      <4>1. n \in Committed(q)
        BY <1>14, <3>2
      <4>2. PICK i \in DOMAIN stored : stored[i] = <<w, n>>
        BY <2>2, <4>1
      <4> QED
        BY <1>2, <1>8, <4>2
    <3> QED
      BY <3>1, <3>2
  <2>4. \A i, j \in DOMAIN stored : i < j /\ stored[i][1] = w /\ stored[j][1] = w => stored[i][2] < stored[j][2]
    BY <1>4 DEF LinesHold
  <2>5. \A i, j \in DOMAIN stored' :
          i < j /\ stored'[i][1] = w /\ stored'[j][1] = w => stored'[i][2] < stored'[j][2]
    BY <1>2, <1>5, <1>7, <1>8, <1>15, <2>4
  <2>6. p.unsaved \subseteq Attempted(p)
    <3>1. 1..(q.own - 1) \subseteq 1..q.own
      BY <1>5
    <3> QED
      BY <1>10, <1>14, <3>1
  <2> QED
    BY <2>1, <2>3, <2>5, <2>6 DEF LinesHold
<1>20. WriterHolds(w, p, columns', heldBy', stored')
  BY <1>3, <1>4, <1>10, <1>18, <1>19 DEF WriterHolds
<1>21. ASSUME NEW v \in Writers \ {w} PROVE WriterHolds(v, writer'[v], columns', heldBy', stored')
  <2>1. PICK o : o = writer[v]
    OBVIOUS
  <2>2. WriterHolds(v, o, columns, heldBy, stored) /\ o \in WriterRecords
    BY <1>2, <2>1 DEF RowsInv
  <2>3. o.phase # "holding"
    BY <1>4, <2>2 DEF WriterHolds
  <2>4. \A i \in DOMAIN stored' : stored'[i][1] = v => i \in DOMAIN stored /\ stored'[i] = stored[i]
    BY <1>2, <1>7, <1>8
  <2>5. ListHolds(v, o, stored) => ListHolds(v, o, stored')
    <3>1. o.loaded \in Nat
      BY <2>2 DEF WriterRecords
    <3>2. Len(stored) <= Len(stored') /\ \A i \in DOMAIN stored : stored'[i] = stored[i]
      BY <1>2, <1>8
    <3> QED
      BY <1>2, <1>8, <3>1, <3>2, ListGoesOn
  <2>6. LinesHold(v, o, stored) => LinesHold(v, o, stored')
    <3> SUFFICES ASSUME LinesHold(v, o, stored) PROVE LinesHold(v, o, stored')
      OBVIOUS
    <3>1. \A i \in DOMAIN stored' : stored'[i][1] = v => stored'[i][2] \in Committed(o)
      BY <2>4 DEF LinesHold
    <3>2. \A n \in Committed(o) : \E i \in DOMAIN stored' : stored'[i] = <<v, n>>
      <4> SUFFICES ASSUME NEW n \in Committed(o) PROVE \E i \in DOMAIN stored' : stored'[i] = <<v, n>>
        OBVIOUS
      <4>1. PICK i \in DOMAIN stored : stored[i] = <<v, n>>
        BY DEF LinesHold
      <4> QED
        BY <1>2, <1>8, <4>1
    <3>3. \A i, j \in DOMAIN stored' :
            i < j /\ stored'[i][1] = v /\ stored'[j][1] = v => stored'[i][2] < stored'[j][2]
      BY <2>4 DEF LinesHold
    <3>4. o.unsaved \subseteq Attempted(o)
      BY DEF LinesHold
    <3> QED
      BY <3>1, <3>2, <3>3, <3>4 DEF LinesHold
  <2>7. (\A i \in DOMAIN stored : stored[i][1] # v) => (\A i \in DOMAIN stored' : stored'[i][1] # v)
    BY <2>4
  <2>8. WriterHolds(v, o, columns', heldBy', stored')
    BY <1>3, <2>2, <2>3, <2>5, <2>6, <2>7 DEF WriterHolds
  <2> QED
    BY <1>12, <2>1, <2>8
<1> QED
  BY <1>3, <1>12, <1>13, <1>17, <1>20, <1>21 DEF RowsInv

(* A row the database refuses leaves the session as it was: only the list of  *)
(* its process has it.                                                        *)
LEMMA RefusalKeeps ==
  ASSUME RowsInv, NEW w \in Writers, IsRefused(w)
  PROVE  RowsInv'
<1>1. PICK q \in WriterRecords : q = writer[w] /\ WriterHolds(w, q, columns, heldBy, stored)
  BY DEF RowsInv, RowsShape
<1>2. writer \in [Writers -> WriterRecords] /\ columns \subseteq Columns
  BY DEF RowsInv, RowsShape
<1>3. /\ q.phase = "holding" /\ heldBy' = {}
      /\ UNCHANGED <<columns, stored, indexed, usage, added>>
  BY <1>1 DEF IsRefused
<1>4. columns = Columns /\ ListHolds(w, q, stored) /\ LinesHold(w, q, stored) /\ q.own > 0 /\ heldBy = {w}
  BY <1>1, <1>3 DEF WriterHolds, InSession
<1>5. q.own \in Nat /\ q.unsaved \in SUBSET Nat
  BY <1>1 DEF WriterRecords
<1>6. PICK p : p = [q EXCEPT !.phase = "open", !.unsaved = @ \cup {q.own}]
  OBVIOUS
<1>7. /\ p \in WriterRecords /\ p.phase = "open" /\ p.own = q.own /\ p.list = q.list /\ p.loaded = q.loaded
      /\ p.unsaved = q.unsaved \cup {q.own}
  BY <1>1, <1>5, <1>6 DEF WriterRecords
<1>8. writer' = [writer EXCEPT ![w] = p]
  BY <1>1, <1>2, <1>6 DEF IsRefused
<1>9. Attempted(p) = Attempted(q) \cup {q.own} /\ q.own \notin Attempted(q)
  <2>1. 1..q.own = (1..(q.own - 1)) \cup {q.own} /\ q.own \notin 1..(q.own - 1)
    BY <1>4, <1>5
  <2> QED
    BY <1>3, <1>7, <2>1 DEF Attempted
<1>10. Committed(p) = Committed(q)
  BY <1>7, <1>9 DEF Committed
<1>11. LinesHold(w, p, stored)
  BY <1>4, <1>7, <1>9, <1>10 DEF LinesHold
<1>12. ListHolds(w, p, stored)
  BY <1>4, <1>7 DEF ListHolds
<1>13. WriterHolds(w, p, columns', heldBy', stored)
  BY <1>3, <1>4, <1>7, <1>11, <1>12 DEF WriterHolds
<1>14. \A v \in Writers \ {w} : heldBy = {v} => heldBy' = {v}
  BY <1>4
<1>15. columns \subseteq columns' /\ columns' \subseteq Columns
  BY <1>2, <1>3
<1>16. p \in WriterRecords
  BY <1>7
<1>17. UNCHANGED <<stored, indexed, usage, added>>
  BY <1>3
<1> QED
  BY <1>8, <1>13, <1>14, <1>15, <1>16, <1>17, WriterMoves

(* However processes connect, load, append and end around one session, no row *)
(* is lost, doubled or out of order, each has an entry in the index, nobody   *)
(* works on a session whose table lacks a column, and the total is what all   *)
(* have used (memory/session.py).                                             *)
THEOREM RowsStayExact == RowsSpec => []SessionRowsAreExact
<1>1. RowsInit => RowsInv
  <2> SUFFICES ASSUME RowsInit PROVE RowsInv
    OBVIOUS
  <2>1. /\ columns \subseteq Columns /\ writer = [w \in Writers |-> Away] /\ stored = <<>> /\ indexed = {}
        /\ usage = 0 /\ added = 0
    BY DEF RowsInit
  <2>2. Away \in WriterRecords /\ Away.phase = "away" /\ Away.own = 0 /\ Away.unsaved = {}
    BY DEF Away, WriterRecords
  <2>3. RowsShape
    BY <2>1, <2>2 DEF RowsShape
  <2>4. IndexHolds
    BY <2>1, FS_EmptySet DEF IndexHolds
  <2>5. \A w \in Writers : WriterHolds(w, writer[w], columns, heldBy, stored)
    BY <2>1, <2>2 DEF WriterHolds, InSession
  <2> QED
    BY <2>1, <2>3, <2>4, <2>5 DEF RowsInv
<1>2. RowsInv /\ [RowsNext]_rowVars => RowsInv'
  <2> SUFFICES ASSUME RowsInv, [RowsNext]_rowVars PROVE RowsInv'
    OBVIOUS
  <2>1. ASSUME NEW w \in Writers, Connects(w) \/ AddsColumn(w) \/ Loads(w) PROVE RowsInv'
    BY <2>1, ConnectionKeeps
  <2>2. ASSUME NEW w \in Writers, Appends(w) \/ Locks(w) \/ WriterLeaves(w) PROVE RowsInv'
    BY <2>2, AppendKeeps
  <2>3. ASSUME NEW w \in Writers, Commits(w) PROVE RowsInv'
    BY <2>3, CommitKeeps
  <2>4. ASSUME NEW w \in Writers, IsRefused(w) PROVE RowsInv'
    BY <2>4, RefusalKeeps
  <2>5. ASSUME NEW w \in Writers, Uses(w) PROVE RowsInv'
    BY <2>5 DEF Uses, Total, RowsInv, RowsShape, IndexHolds
  <2>6. CASE UNCHANGED rowVars
    BY <2>6 DEF rowVars, RowsInv, RowsShape, IndexHolds
  <2> QED
    BY <2>1, <2>2, <2>3, <2>4, <2>5, <2>6 DEF RowsNext
<1>3. RowsInv => SessionRowsAreExact
  <2> SUFFICES ASSUME RowsInv PROVE SessionRowsAreExact
    OBVIOUS
  <2>1. ASSUME NEW w \in Writers, writer[w].phase \in InSession
        PROVE  /\ columns = Columns
               /\ \A i, j \in RowsOf(w) : i < j => stored[i][2] < stored[j][2]
               /\ {stored[i][2] : i \in RowsOf(w)}
                    = 1..(IF writer[w].phase = "open" THEN writer[w].own ELSE writer[w].own - 1) \ writer[w].unsaved
               /\ \A i \in 1..writer[w].loaded : writer[w].list[i] = stored[i]
               /\ \A i \in writer[w].loaded + 1..Len(stored) :
                    stored[i][1] = w => \E j \in DOMAIN writer[w].list : writer[w].list[j] = stored[i]
    <3>1. PICK q \in WriterRecords : q = writer[w] /\ WriterHolds(w, q, columns, heldBy, stored)
      BY DEF RowsInv, RowsShape
    <3>2. columns = Columns /\ ListHolds(w, q, stored) /\ LinesHold(w, q, stored)
      BY <2>1, <3>1 DEF WriterHolds
    <3>3. q.own \in Nat /\ q.loaded \in Nat /\ q.list \in Seq(SessionLines) /\ stored \in Seq(SessionLines)
      BY <3>1 DEF WriterRecords, RowsInv, RowsShape
    <3>4. \A i, j \in RowsOf(w) : i < j => stored[i][2] < stored[j][2]
      BY <3>2 DEF LinesHold, RowsOf
    <3>5. {stored[i][2] : i \in RowsOf(w)} = Committed(q)
      <4>1. \A i \in RowsOf(w) : stored[i][2] \in Committed(q)
        BY <3>2 DEF LinesHold, RowsOf
      <4>2. ASSUME NEW n \in Committed(q) PROVE \E i \in RowsOf(w) : stored[i][2] = n
        <5>1. PICK i \in DOMAIN stored : stored[i] = <<w, n>>
          BY <3>2 DEF LinesHold
        <5> QED
          BY <5>1 DEF RowsOf
      <4> QED
        BY <4>1, <4>2
    <3>6. ASSUME NEW i \in q.loaded + 1..Len(stored), stored[i][1] = w
          PROVE  \E j \in DOMAIN q.list : q.list[j] = stored[i]
      <4>1. i \in DOMAIN stored /\ stored[i] \in SessionLines
        BY <3>3
      <4>2. PICK n \in Committed(q) : n = stored[i][2]
        BY <3>2, <3>6, <4>1 DEF LinesHold
      <4>3. stored[i] = <<w, n>>
        BY <3>6, <4>1, <4>2 DEF SessionLines
      <4>4. n \in 1..q.own
        BY <3>3, <4>2 DEF Committed, Attempted
      <4>5. q.list[q.loaded + n] = <<w, n>> /\ q.loaded + n \in DOMAIN q.list
        BY <3>2, <3>3, <4>4 DEF ListHolds
      <4> QED
        BY <4>3, <4>5
    <3> QED
      BY <3>1, <3>2, <3>4, <3>5, <3>6 DEF ListHolds, Committed, Attempted
  <2>2. \A w, v \in Writers : writer[w].phase = "holding" /\ writer[v].phase = "holding" => w = v
    BY DEF RowsInv, WriterHolds
  <2>3. indexed = {stored[i] : i \in DOMAIN stored} /\ Len(stored) = Cardinality(indexed) /\ usage = added
    BY DEF RowsInv, IndexHolds
  <2> QED
    BY <2>1, <2>2, <2>3 DEF SessionRowsAreExact, InSession
<1> QED
  BY <1>1, <1>2, <1>3, PTL DEF RowsSpec
-----------------------------------------------------------------------------
(* What is installed is what was asked for and verified: both ways in which   *)
(* code comes to a running agent keep their promise                           *)
(* (plugins/manifest.py, marketplace/registry.py).                            *)
THEOREM InstallsStayVerified == PluginSpec /\ PackSpec => []InstallsHold
<1>1. PluginToolsAreOwned /\ InstalledIsVerified => InstallsHold
  BY DEF InstallsHold
<1> QED
  BY <1>1, ToolsStayOwned, PacksStayVerified, PTL
-----------------------------------------------------------------------------
(* A product of two numbers, of which one is positive, has the sign of the    *)
(* other.                                                                     *)
LEMMA SignOfProduct ==
  ASSUME NEW a \in Int, NEW b \in Nat
  PROVE  /\ a * b \in Int
         /\ a >= 0 => a * b >= 0
         /\ b > 0 /\ a * b >= 0 => a >= 0
         /\ b > 0 /\ a > 0 => a * b > 0
OBVIOUS

(* Whether a skill is suggested, of the terms of its score.                   *)
HalfGood(c, w, t, l) == 14 * (w * t) + 6 * (l * c) >= 7 * (c * t)
LEMMA GoodIs ==
  ASSUME NEW c \in Nat, NEW w \in Nat, NEW t \in Nat, NEW l \in Nat
  PROVE  LET q == 7 * w * t + 3 * l * c
             z == 10 * c * t
         IN 100 * (IF q > z THEN z ELSE q) >= 35 * z <=> HalfGood(c, w, t, l)
<1>1. /\ w * t \in Nat /\ l * c \in Nat /\ c * t \in Nat
      /\ 7 * w * t = 7 * (w * t) /\ 3 * l * c = 3 * (l * c) /\ 10 * c * t = 10 * (c * t)
  OBVIOUS
<1> QED
  BY <1>1 DEF HalfGood

(* Half the successes are enough, and none are not.                           *)
LEMMA HalfIsGood ==
  ASSUME NEW c \in Nat, NEW w \in Nat, NEW t \in Nat, NEW l \in Nat, 2 * w >= c
  PROVE  HalfGood(c, w, t, l)
<1>1. (2 * w - c) * t >= 0 /\ (2 * w - c) * t = 2 * (w * t) - c * t
  BY SignOfProduct
<1>2. w * t \in Nat /\ l * c \in Nat /\ c * t \in Nat
  OBVIOUS
<1> QED
  BY <1>1, <1>2 DEF HalfGood

LEMMA NoneIsNotGood ==
  ASSUME NEW c \in Nat, NEW t \in Nat, NEW l \in Nat, l <= t, c > 0, t > 0
  PROVE  ~HalfGood(c, 0, t, l)
<1>1. (t - l) * c >= 0 /\ (t - l) * c = c * t - l * c
  BY SignOfProduct
<1>2. c * t > 0 /\ c * t \in Nat /\ l * c \in Nat /\ 0 * t = 0
  BY SignOfProduct
<1> QED
  BY <1>1, <1>2 DEF HalfGood

(* A thumb more works in its direction.                                       *)
LEMMA ThumbUp ==
  ASSUME NEW c \in Nat, NEW w \in Nat, NEW t \in Nat, NEW l \in Nat, l <= t, t > 0, HalfGood(c, w, t, l)
  PROVE  HalfGood(c, w, t + 2, l + 2)
<1>1. (t - l) * c >= 0 /\ (t - l) * c = c * t - l * c
  BY SignOfProduct
<1>2. w * t \in Nat /\ l * c \in Nat /\ c * t \in Nat
  OBVIOUS
<1>3. (14 * w - c) * t >= 0
  <2>1. (14 * w - c) * t = 14 * (w * t) - c * t
    OBVIOUS
  <2> QED
    BY <1>1, <1>2, <2>1 DEF HalfGood
<1>4. 14 * w >= c
  BY <1>3, SignOfProduct
<1>5. w * (t + 2) = w * t + 2 * w /\ (l + 2) * c = l * c + 2 * c /\ c * (t + 2) = c * t + 2 * c
  OBVIOUS
<1> QED
  BY <1>2, <1>4, <1>5 DEF HalfGood

LEMMA ThumbDown ==
  ASSUME NEW c \in Nat, NEW w \in Nat, NEW t \in Nat, NEW l \in Nat, t > 0, ~HalfGood(c, w, t, l)
  PROVE  ~HalfGood(c, w, t + 2, l)
<1>1. w * t \in Nat /\ l * c \in Nat /\ c * t \in Nat
  OBVIOUS
<1>2. ~(14 * w >= 7 * c)
  <2> SUFFICES ASSUME 14 * w >= 7 * c PROVE FALSE
    OBVIOUS
  <2>1. (2 * w - c) * t >= 0 /\ (2 * w - c) * t = 2 * (w * t) - c * t
    BY SignOfProduct
  <2> QED
    BY <1>1, <2>1 DEF HalfGood
<1>3. w * (t + 2) = w * t + 2 * w /\ c * (t + 2) = c * t + 2 * c
  OBVIOUS
<1> QED
  BY <1>1, <1>2, <1>3 DEF HalfGood

LEMMA MoreSuccesses ==
  ASSUME NEW c \in Nat, NEW w \in Nat, NEW t \in Nat, NEW l \in Nat, HalfGood(c, w, t, l)
  PROVE  HalfGood(c, w + 1, t, l)
<1>1. w * t \in Nat /\ l * c \in Nat /\ c * t \in Nat /\ (w + 1) * t = w * t + t
  OBVIOUS
<1> QED
  BY <1>1 DEF HalfGood
-----------------------------------------------------------------------------
ScoreRecords == [Counters -> Nat]

(* What the operators of the score read is a number.                          *)
LEMMA TermsAre ==
  ASSUME NEW s \in ScoreRecords
  PROVE  /\ Calls(s) \in Nat /\ Won(s) \in Nat /\ Thumbs(s) \in Nat /\ Liked(s) \in Nat
         /\ Calls(s) > 0 /\ Thumbs(s) > 0 /\ Liked(s) <= Thumbs(s)
         /\ Suggested(s) <=> HalfGood(Calls(s), Won(s), Thumbs(s), Liked(s))
<1>1. s.invocations \in Nat /\ s.successes \in Nat /\ s.thumbs_up \in Nat /\ s.thumbs_down \in Nat
  BY DEF ScoreRecords, Counters
<1>2. /\ Calls(s) \in Nat /\ Won(s) \in Nat /\ Thumbs(s) \in Nat /\ Liked(s) \in Nat
      /\ Calls(s) > 0 /\ Thumbs(s) > 0 /\ Liked(s) <= Thumbs(s)
  BY <1>1 DEF Calls, Won, Thumbs, Liked
<1> QED
  BY <1>2, GoodIs DEF Suggested, Quality, Whole

(* One count more.                                                            *)
LEMMA OneMore ==
  ASSUME NEW s \in ScoreRecords
  PROVE  /\ [s EXCEPT !.thumbs_up = @ + 1] \in ScoreRecords
         /\ [s EXCEPT !.thumbs_down = @ + 1] \in ScoreRecords
         /\ [s EXCEPT !.successes = @ + 1] \in ScoreRecords
         /\ LET v == [s EXCEPT !.thumbs_up = @ + 1] IN
            v.thumbs_up = s.thumbs_up + 1 /\ v.invocations = s.invocations /\ v.successes = s.successes
              /\ v.thumbs_down = s.thumbs_down
         /\ LET v == [s EXCEPT !.thumbs_down = @ + 1] IN
            v.thumbs_down = s.thumbs_down + 1 /\ v.invocations = s.invocations /\ v.successes = s.successes
              /\ v.thumbs_up = s.thumbs_up
         /\ LET v == [s EXCEPT !.successes = @ + 1] IN
            v.successes = s.successes + 1 /\ v.invocations = s.invocations /\ v.thumbs_up = s.thumbs_up
              /\ v.thumbs_down = s.thumbs_down
BY DEF ScoreRecords, Counters

(* The score of a skill is right about it, whatever its counts.               *)
LEMMA ScoreIsRight ==
  ASSUME NEW s \in ScoreRecords
  PROVE  /\ 2 * s.successes >= s.invocations => Suggested(s)
         /\ s.invocations > 0 /\ s.successes = 0 => ~Suggested(s)
         /\ Suggested(s) => /\ Suggested([s EXCEPT !.thumbs_up = @ + 1])
                            /\ Suggested([s EXCEPT !.successes = @ + 1])
         /\ ~Suggested(s) /\ s.thumbs_up + s.thumbs_down > 0 =>
              ~Suggested([s EXCEPT !.thumbs_down = @ + 1])
<1> DEFINE up == [s EXCEPT !.thumbs_up = @ + 1]
           down == [s EXCEPT !.thumbs_down = @ + 1]
           won == [s EXCEPT !.successes = @ + 1]
<1>1. s.invocations \in Nat /\ s.successes \in Nat /\ s.thumbs_up \in Nat /\ s.thumbs_down \in Nat
  BY DEF ScoreRecords, Counters
<1>2. up \in ScoreRecords /\ down \in ScoreRecords /\ won \in ScoreRecords
  BY OneMore
<1>3. /\ up.thumbs_up = s.thumbs_up + 1 /\ up.invocations = s.invocations /\ up.successes = s.successes
      /\ up.thumbs_down = s.thumbs_down
  BY OneMore
<1>4. /\ down.thumbs_down = s.thumbs_down + 1 /\ down.invocations = s.invocations
      /\ down.successes = s.successes /\ down.thumbs_up = s.thumbs_up
  BY OneMore
<1>5. /\ won.successes = s.successes + 1 /\ won.invocations = s.invocations /\ won.thumbs_up = s.thumbs_up
      /\ won.thumbs_down = s.thumbs_down
  BY OneMore
<1> HIDE DEF up, down, won
<1>6. ASSUME 2 * s.successes >= s.invocations PROVE Suggested(s)
  <2>1. 2 * Won(s) >= Calls(s)
    BY <1>1, <1>6 DEF Won, Calls
  <2> QED
    BY <2>1, TermsAre, HalfIsGood
<1>7. ASSUME s.invocations > 0, s.successes = 0 PROVE ~Suggested(s)
  <2>1. Won(s) = 0
    BY <1>1, <1>7 DEF Won
  <2> QED
    BY <2>1, TermsAre, NoneIsNotGood
<1>8. ASSUME Suggested(s) PROVE Suggested(up)
  <2>1. Calls(up) = Calls(s) /\ Won(up) = Won(s)
    BY <1>3 DEF Calls, Won
  <2>2. CASE s.thumbs_up + s.thumbs_down > 0
    <3>1. Thumbs(up) = Thumbs(s) + 2 /\ Liked(up) = Liked(s) + 2
      BY <1>1, <1>3, <2>2 DEF Thumbs, Liked
    <3> QED
      BY <1>2, <1>8, <2>1, <3>1, TermsAre, ThumbUp
  <2>3. CASE s.thumbs_up + s.thumbs_down = 0
    <3>1. Thumbs(s) = 2 /\ Liked(s) = 1 /\ Thumbs(up) = 2 /\ Liked(up) = 2
      BY <1>1, <1>3, <2>3 DEF Thumbs, Liked
    <3>2. Calls(s) \in Nat /\ Won(s) \in Nat /\ HalfGood(Calls(s), Won(s), 2, 1)
      BY <1>8, <3>1, TermsAre
    <3>3. HalfGood(Calls(s), Won(s), 2, 2)
      BY <3>2 DEF HalfGood
    <3>4. Suggested(up) <=> HalfGood(Calls(up), Won(up), Thumbs(up), Liked(up))
      BY <1>2, TermsAre
    <3> QED
      BY <2>1, <3>1, <3>3, <3>4
  <2> QED
    BY <1>1, <2>2, <2>3
<1>9. ASSUME Suggested(s) PROVE Suggested(won)
  <2>1. Calls(won) = Calls(s) /\ Thumbs(won) = Thumbs(s) /\ Liked(won) = Liked(s)
    BY <1>5 DEF Calls, Thumbs, Liked
  <2>2. Won(won) = Won(s) \/ Won(won) = Won(s) + 1
    BY <1>5 DEF Won
  <2> QED
    BY <1>2, <1>9, <2>1, <2>2, TermsAre, MoreSuccesses
<1>10. ASSUME ~Suggested(s), s.thumbs_up + s.thumbs_down > 0 PROVE ~Suggested(down)
  <2>1. Calls(down) = Calls(s) /\ Won(down) = Won(s)
    BY <1>4 DEF Calls, Won
  <2>2. Thumbs(down) = Thumbs(s) + 2 /\ Liked(down) = Liked(s)
    BY <1>1, <1>4, <1>10 DEF Thumbs, Liked
  <2> QED
    BY <1>2, <1>10, <2>1, <2>2, TermsAre, ThumbDown
<1> QED
  BY <1>6, <1>7, <1>8, <1>9, <1>10 DEF up, down, won

(* For every number of calls, successes, failures and thumbs, only failing    *)
(* demotes a skill, and no thumb works against its direction                  *)
(* (skills/scoring.py).                                                       *)
THEOREM DemotionStaysEarned == ScoresSpec => []DemotionIsEarned
<1> DEFINE Inv == scores \in [Scored -> ScoreRecords]
<1>1. ScoresInit => Inv
  BY DEF ScoresInit, ScoreRecords
<1>2. Inv /\ [ScoresNext]_scores => Inv'
  <2> SUFFICES ASSUME Inv, [ScoresNext]_scores PROVE Inv'
    OBVIOUS
  <2>1. ASSUME NEW n \in Scored, NEW c \in Counters, Record(n, c) PROVE Inv'
    <3>1. scores' = [scores EXCEPT ![n] = [scores[n] EXCEPT ![c] = scores[n][c] + 1]]
      BY <2>1 DEF Record
    <3>2. scores[n] \in ScoreRecords /\ scores[n][c] + 1 \in Nat
      BY DEF ScoreRecords
    <3>3. [scores[n] EXCEPT ![c] = scores[n][c] + 1] \in ScoreRecords
      BY <3>2 DEF ScoreRecords
    <3> QED
      BY <3>1, <3>3
  <2> QED
    BY <2>1 DEF ScoresNext
<1>3. Inv => DemotionIsEarned
  <2> SUFFICES ASSUME Inv PROVE DemotionIsEarned
    OBVIOUS
  <2>1. \A n \in Scored : scores[n] \in ScoreRecords
    OBVIOUS
  <2> QED
    BY <2>1, ScoreIsRight DEF DemotionIsEarned
<1> QED
  BY <1>1, <1>2, <1>3, PTL DEF ScoresSpec
-----------------------------------------------------------------------------
(* What the user archived and nobody overtook is archived in its row, and a   *)
(* sweep that has selected it was overtaken; what a sweep has selected has a  *)
(* row; what it proposes has gone unused for long enough.                     *)
ShelfRows == [state : {"active", "stale", "archived"}, used : 0..MaxDay, pinned : BOOLEAN, verified : BOOLEAN]
InShelf(n) == shelf[n] # NoSkillRow
ShelfShape ==
  /\ day \in 0..MaxDay
  /\ shelf \in [Shelved -> ShelfRows \cup {NoSkillRow}]
  /\ sweeping \in [on : BOOLEAN, at : 0..MaxDay, stale : SUBSET Shelved, proposed : SUBSET Shelved]
  /\ sweeping.at <= day
  /\ match \in [on : BOOLEAN, winner : Shelved \cup {0}, loser : Shelved \cup {0}, best : Nat, worst : Nat]
  /\ match.on => match.winner \in Shelved /\ match.loser \in Shelved /\ match.winner # match.loser
ArchivedStays ==
  \A n \in archivedByUser \ overtaken :
    /\ n \in Shelved /\ InShelf(n) /\ shelf[n].state = "archived"
    /\ sweeping.on => n \notin sweeping.stale
SelectedIsListed == \A n \in sweeping.stale : InShelf(n)
ProposedIsUnused == \A n \in sweeping.proposed : Proposable(n)
ShelfInv ==
  ShelfShape /\ ArchivedStays /\ SelectedIsListed /\ ProposedIsUnused /\ (match.on => match.best >= match.worst)

(* Skills that change within one transaction: what is said of others stays,   *)
(* and of these it is said anew.                                              *)
LEMMA ShelfChanges ==
  ASSUME ShelfInv, NEW ns \in SUBSET Shelved, Overtakes(ns), UNCHANGED day,
         shelf' \in [Shelved -> ShelfRows \cup {NoSkillRow}],
         \A n \in Shelved \ ns : shelf'[n] = shelf[n],
         \A n \in ns : shelf'[n] # NoSkillRow \/ shelf[n] = NoSkillRow,
         archivedByUser' \subseteq archivedByUser \cup ns,
         \A n \in ns : n \in archivedByUser' \ overtaken => shelf'[n] # NoSkillRow /\ shelf'[n].state = "archived"
  PROVE  /\ sweeping' \in [on : BOOLEAN, at : 0..MaxDay, stale : SUBSET Shelved, proposed : SUBSET Shelved]
         /\ sweeping'.at <= day'
         /\ ArchivedStays' /\ SelectedIsListed' /\ ProposedIsUnused'
<1>1. sweeping \in [on : BOOLEAN, at : 0..MaxDay, stale : SUBSET Shelved, proposed : SUBSET Shelved]
  BY DEF ShelfInv, ShelfShape
<1>2. /\ sweeping' \in [on : BOOLEAN, at : 0..MaxDay, stale : SUBSET Shelved, proposed : SUBSET Shelved]
      /\ sweeping'.on = sweeping.on /\ sweeping'.stale = sweeping.stale
      /\ sweeping'.at = sweeping.at /\ sweeping'.proposed = sweeping.proposed \ ns
  BY <1>1 DEF Overtakes
<1>3. /\ overtaken \subseteq overtaken'
      /\ sweeping.on => ns \cap sweeping.stale \subseteq overtaken'
  BY DEF Overtakes
<1>4. ArchivedStays'
  <2> SUFFICES ASSUME NEW n \in archivedByUser' \ overtaken'
      PROVE /\ n \in Shelved /\ shelf'[n] # NoSkillRow /\ shelf'[n].state = "archived"
            /\ sweeping'.on => n \notin sweeping'.stale
    BY DEF ArchivedStays, InShelf
  <2>1. CASE n \notin ns
    BY <1>2, <1>3, <2>1 DEF ShelfInv, ArchivedStays, InShelf
  <2>2. CASE n \in ns
    <3>1. sweeping'.on => n \notin sweeping'.stale
      BY <1>2, <1>3, <2>2
    <3>2. n \in archivedByUser' \ overtaken
      BY <1>3
    <3> QED
      BY <2>2, <3>1, <3>2
  <2> QED
    BY <2>1, <2>2
<1>5. SelectedIsListed'
  BY <1>1, <1>2 DEF ShelfInv, SelectedIsListed, InShelf
<1>6. ProposedIsUnused'
  BY <1>1, <1>2 DEF ShelfInv, ProposedIsUnused, Proposable
<1>7. sweeping'.at <= day'
  BY <1>2 DEF ShelfInv, ShelfShape
<1> QED
  BY <1>2, <1>4, <1>5, <1>6, <1>7

(* The row of a skill, or the one it gets at its first mention, with changes. *)
LEMMA RowsAre ==
  ASSUME ShelfInv, NEW n \in Shelved
  PROVE  /\ Known(n) \in ShelfRows
         /\ Touched(n) \in ShelfRows /\ Archived(n) \in ShelfRows /\ Archived(n).state = "archived"
         /\ [Known(n) EXCEPT !.pinned = TRUE] \in ShelfRows
         /\ [Known(n) EXCEPT !.verified = FALSE] \in ShelfRows
         /\ [Known(n) EXCEPT !.verified = TRUE] \in ShelfRows
         /\ InShelf(n) => Known(n) = shelf[n]
         /\ [Known(n) EXCEPT !.pinned = TRUE].state = Known(n).state
         /\ [Known(n) EXCEPT !.verified = FALSE].state = Known(n).state
         /\ [Known(n) EXCEPT !.verified = TRUE].state = Known(n).state
         /\ Touched(n).state = (IF Known(n).state = "archived" THEN "archived" ELSE "active")
<1>1. FreshRow \in ShelfRows
  BY DEF FreshRow, ShelfRows, ShelfInv, ShelfShape
<1>2. Known(n) \in ShelfRows /\ (InShelf(n) => Known(n) = shelf[n])
  BY <1>1 DEF Known, InShelf, ShelfInv, ShelfShape
<1>3. day \in 0..MaxDay
  BY DEF ShelfInv, ShelfShape
<1> QED
  BY <1>2, <1>3 DEF ShelfRows, Touched, Archived

LEMMA VerifiedIs ==
  ASSUME ShelfInv, NEW n \in Shelved
  PROVE  /\ [Known(n) EXCEPT !.verified = TRUE] \in ShelfRows
         /\ [Known(n) EXCEPT !.verified = TRUE].state = Known(n).state
BY RowsAre

LEMMA ArchivedIs ==
  ASSUME ShelfInv, NEW n \in Shelved
  PROVE  Archived(n) \in ShelfRows /\ Archived(n).state = "archived"
BY RowsAre

(* A call of one transaction (skills/lifecycle.py).                           *)
LEMMA CallKeeps ==
  ASSUME ShelfInv, NEW n \in Shelved, NEW row \in ShelfRows, Writes(n, row), UNCHANGED <<day, match>>,
         archivedByUser' \subseteq archivedByUser \cup {n},
         n \in archivedByUser' \ overtaken => row.state = "archived"
  PROVE  ShelfInv'
<1>1. shelf \in [Shelved -> ShelfRows \cup {NoSkillRow}] /\ NoSkillRow \notin ShelfRows
  BY ShelfAssumption DEF ShelfInv, ShelfShape, ShelfRows
<1>2. /\ shelf' \in [Shelved -> ShelfRows \cup {NoSkillRow}] /\ shelf'[n] = row /\ row # NoSkillRow
      /\ \A m \in Shelved \ {n} : shelf'[m] = shelf[m]
  BY <1>1 DEF Writes
<1>3. Overtakes({n}) /\ {n} \in SUBSET Shelved
  BY DEF Writes
<1>4. /\ sweeping' \in [on : BOOLEAN, at : 0..MaxDay, stale : SUBSET Shelved, proposed : SUBSET Shelved]
      /\ sweeping'.at <= day' /\ ArchivedStays' /\ SelectedIsListed' /\ ProposedIsUnused'
  BY <1>2, <1>3, ShelfChanges
<1> QED
  BY <1>2, <1>4 DEF ShelfInv, ShelfShape

LEMMA CallsKeep ==
  ASSUME ShelfInv, NEW n \in Shelved,
         Touch(n) \/ Archive(n) \/ Revive(n) \/ Pin(n) \/ Unpin(n) \/ MarkCandidate(n)
  PROVE  ShelfInv'
<1>1. n \in archivedByUser \ overtaken => InShelf(n) /\ Known(n).state = "archived" /\ shelf[n].state = "archived"
  BY RowsAre DEF ShelfInv, ArchivedStays
<1>2. InShelf(n) => shelf[n] \in ShelfRows
  BY DEF InShelf, ShelfInv, ShelfShape
<1>3. CASE Touch(n)
  BY <1>1, <1>3, RowsAre, CallKeeps DEF Touch
<1>4. CASE Archive(n)
  BY <1>4, RowsAre, CallKeeps DEF Archive
<1>5. CASE Revive(n)
  <2>1. day \in 0..MaxDay /\ InShelf(n)
    BY <1>5 DEF ShelfInv, ShelfShape, Revive, InShelf
  <2>2. [shelf[n] EXCEPT !.state = "active", !.used = day] \in ShelfRows
    BY <1>2, <2>1 DEF ShelfRows
  <2> QED
    BY <1>5, <2>2, CallKeeps DEF Revive
<1>6. CASE Pin(n)
  BY <1>1, <1>6, RowsAre, CallKeeps DEF Pin
<1>7. CASE Unpin(n)
  <2>1. /\ [shelf[n] EXCEPT !.pinned = FALSE] \in ShelfRows
        /\ [shelf[n] EXCEPT !.pinned = FALSE].state = shelf[n].state
    BY <1>2, <1>7 DEF ShelfRows, Unpin, InShelf
  <2> QED
    BY <1>1, <1>7, <2>1, CallKeeps DEF Unpin
<1>8. CASE MarkCandidate(n)
  BY <1>1, <1>8, RowsAre, CallKeeps DEF MarkCandidate
<1> QED
  BY <1>3, <1>4, <1>5, <1>6, <1>7, <1>8

(* The two halves of a sweep.                                                 *)
LEMMA SelectsKeeps == ASSUME ShelfInv, SweepSelects PROVE ShelfInv'
<1> DEFINE S == {n \in Shelved : /\ shelf[n] # NoSkillRow /\ ~shelf[n].pinned
                                 /\ shelf[n].state = "active"
                                 /\ shelf[n].used <= day - StaleAfter}
<1>1. /\ sweeping' = [on |-> TRUE, at |-> day, stale |-> S, proposed |-> {}]
      /\ UNCHANGED <<day, shelf, match, archivedByUser, overtaken>>
  BY DEF SweepSelects
<1>2. /\ sweeping'.stale = S /\ sweeping'.proposed = {} /\ S \subseteq Shelved /\ sweeping'.at <= day
      /\ sweeping' \in [on : BOOLEAN, at : 0..MaxDay, stale : SUBSET Shelved, proposed : SUBSET Shelved]
  <2>1. day \in 0..MaxDay
    BY DEF ShelfInv, ShelfShape
  <2> QED
    BY <1>1, <2>1
<1>3. \A n \in S : InShelf(n) /\ shelf[n].state = "active"
  BY DEF InShelf
<1> HIDE DEF S
<1>4. ArchivedStays'
  BY <1>1, <1>2, <1>3 DEF ShelfInv, ArchivedStays, InShelf
<1>5. SelectedIsListed' /\ ProposedIsUnused'
  BY <1>1, <1>2, <1>3 DEF SelectedIsListed, ProposedIsUnused, InShelf
<1> QED
  BY <1>1, <1>2, <1>4, <1>5 DEF ShelfInv, ShelfShape

LEMMA UpdatesKeeps == ASSUME ShelfInv, SweepUpdates PROVE ShelfInv'
<1> DEFINE P == {n \in Shelved : Proposable(n)}
<1>1. /\ shelf' = [n \in Shelved |-> IF n \in sweeping.stale
                                    THEN [shelf[n] EXCEPT !.state = "stale"] ELSE shelf[n]]
      /\ sweeping' = [sweeping EXCEPT !.on = FALSE, !.proposed = P]
      /\ UNCHANGED <<day, match, archivedByUser, overtaken>> /\ sweeping.on
  BY DEF SweepUpdates
<1>2. sweeping \in [on : BOOLEAN, at : 0..MaxDay, stale : SUBSET Shelved, proposed : SUBSET Shelved]
      /\ shelf \in [Shelved -> ShelfRows \cup {NoSkillRow}] /\ NoSkillRow \notin ShelfRows
  BY ShelfAssumption DEF ShelfInv, ShelfShape, ShelfRows
<1>3. /\ sweeping'.on = FALSE /\ sweeping'.stale = sweeping.stale /\ sweeping'.proposed = P /\ P \subseteq Shelved
      /\ sweeping'.at = sweeping.at /\ sweeping'.at <= day
      /\ sweeping' \in [on : BOOLEAN, at : 0..MaxDay, stale : SUBSET Shelved, proposed : SUBSET Shelved]
  <2>1. sweeping.at <= day
    BY DEF ShelfInv, ShelfShape
  <2> QED
    BY <1>1, <1>2, <2>1
<1>4. ASSUME NEW n \in Shelved
      PROVE  /\ shelf'[n] \in ShelfRows \cup {NoSkillRow} /\ (shelf'[n] = NoSkillRow <=> shelf[n] = NoSkillRow)
             /\ n \notin sweeping.stale => shelf'[n] = shelf[n]
             /\ Proposable(n) => Proposable(n)'
  <2>1. CASE n \in sweeping.stale
    <3>1. shelf[n] \in ShelfRows /\ shelf'[n] = [shelf[n] EXCEPT !.state = "stale"]
      BY <1>1, <1>2, <2>1 DEF ShelfInv, SelectedIsListed, InShelf
    <3>2. /\ shelf'[n] \in ShelfRows /\ shelf'[n].state = "stale" /\ shelf'[n].used = shelf[n].used
          /\ shelf'[n].pinned = shelf[n].pinned
      BY <3>1 DEF ShelfRows
    <3> QED
      BY <1>1, <1>2, <1>3, <2>1, <3>1, <3>2 DEF Proposable
  <2>2. CASE n \notin sweeping.stale
    BY <1>1, <1>2, <1>3, <2>2 DEF Proposable
  <2> QED
    BY <2>1, <2>2
<1>5. shelf' \in [Shelved -> ShelfRows \cup {NoSkillRow}]
  BY <1>1, <1>4
<1>6. ArchivedStays'
  BY <1>1, <1>3, <1>4 DEF ShelfInv, ArchivedStays, InShelf
<1>7. SelectedIsListed'
  BY <1>2, <1>3, <1>4 DEF ShelfInv, SelectedIsListed, InShelf
<1>8. ProposedIsUnused'
  BY <1>3, <1>4 DEF ProposedIsUnused
<1> QED
  BY <1>1, <1>3, <1>5, <1>6, <1>7, <1>8 DEF ShelfInv, ShelfShape

(* A match and its verdict (skills/ab.py).                                    *)
LEMMA MatchKeeps ==
  ASSUME ShelfInv, NEW m \in Shelved, NEW n \in Shelved, NEW a \in Results, NEW b \in Results,
         Replayed(m, n, a, b)
  PROVE  ShelfInv'
<1>1. a.passed \in Nat /\ b.passed \in Nat
  BY DEF Results
<1>2. /\ match' \in [on : BOOLEAN, winner : Shelved \cup {0}, loser : Shelved \cup {0}, best : Nat, worst : Nat]
      /\ match'.on => match'.best >= match'.worst /\ match'.winner \in Shelved /\ match'.loser \in Shelved
                     /\ match'.winner # match'.loser
  BY <1>1 DEF Replayed, Wins, NoMatch
<1>3. UNCHANGED <<day, shelf, sweeping, archivedByUser, overtaken>>
  BY DEF Replayed
<1> QED
  BY <1>2, <1>3 DEF ShelfInv, ShelfShape, ArchivedStays, SelectedIsListed, ProposedIsUnused, InShelf, Proposable

LEMMA DecidedKeeps == ASSUME ShelfInv, Decided PROVE ShelfInv'
<1> DEFINE w == match.winner
           l == match.loser
<1>1. w \in Shelved /\ l \in Shelved /\ w # l
  BY DEF Decided, ShelfInv, ShelfShape
<1>2. PICK finished \in BOOLEAN :
        shelf' = [n \in Shelved |->
         CASE n = w -> [Known(n) EXCEPT !.verified = TRUE]
           [] n = l /\ finished -> Archived(n)
           [] OTHER -> shelf[n]]
  BY DEF Decided
<1>3. shelf \in [Shelved -> ShelfRows \cup {NoSkillRow}] /\ NoSkillRow \notin ShelfRows
  BY ShelfAssumption DEF ShelfInv, ShelfShape, ShelfRows
<1>4. /\ Overtakes({w, l}) /\ match' = NoMatch /\ UNCHANGED <<day, archivedByUser>>
      /\ {w, l} \in SUBSET Shelved
  BY <1>1 DEF Decided
<1>5. ASSUME NEW n \in Shelved
      PROVE  /\ shelf'[n] \in ShelfRows \cup {NoSkillRow}
             /\ n \notin {w, l} => shelf'[n] = shelf[n]
             /\ shelf'[n] # NoSkillRow \/ shelf[n] = NoSkillRow
             /\ n \in archivedByUser \ overtaken => shelf'[n] # NoSkillRow /\ shelf'[n].state = "archived"
  <2>1. n \in archivedByUser \ overtaken => InShelf(n) /\ Known(n).state = "archived" /\ shelf[n].state = "archived"
    BY RowsAre DEF ShelfInv, ArchivedStays
  <2>2. CASE n = w
    <3>1. shelf'[n] = [Known(n) EXCEPT !.verified = TRUE]
      BY <1>1, <1>2, <2>2
    <3>2. shelf'[n] \in ShelfRows /\ shelf'[n].state = Known(n).state
      BY <3>1, VerifiedIs
    <3> QED
      BY <1>3, <2>1, <2>2, <3>2
  <2>3. CASE n # w /\ n = l /\ finished
    <3>1. shelf'[n] = Archived(n)
      BY <1>1, <1>2, <2>3
    <3> QED
      BY <1>3, <2>1, <2>3, <3>1, ArchivedIs
  <2>4. CASE n # w /\ ~(n = l /\ finished)
    <3>1. shelf'[n] = shelf[n]
      BY <1>2, <2>4
    <3> QED
      BY <1>3, <2>1, <3>1 DEF InShelf
  <2> QED
    BY <2>2, <2>3, <2>4
<1>6. shelf' \in [Shelved -> ShelfRows \cup {NoSkillRow}]
  BY <1>2, <1>5
<1>7. /\ sweeping' \in [on : BOOLEAN, at : 0..MaxDay, stale : SUBSET Shelved, proposed : SUBSET Shelved]
      /\ sweeping'.at <= day' /\ ArchivedStays' /\ SelectedIsListed' /\ ProposedIsUnused'
  BY <1>1, <1>4, <1>5, <1>6, ShelfChanges
<1>8. /\ match' \in [on : BOOLEAN, winner : Shelved \cup {0}, loser : Shelved \cup {0}, best : Nat, worst : Nat]
      /\ ~match'.on
  BY <1>4 DEF NoMatch
<1> QED
  BY <1>4, <1>6, <1>7, <1>8 DEF ShelfInv, ShelfShape

(* An archived skill stays archived until it is revived or pinned, a sweep    *)
(* proposes only what is stale for long enough, and a match never archives    *)
(* the better skill, for any number of skills and calls (skills/lifecycle.py, *)
(* skills/ab.py).                                                             *)
THEOREM ShelfStaysKept == ShelfSpec => []ShelfIsKept
<1>1. ShelfInit => ShelfInv
  <2> SUFFICES ASSUME ShelfInit PROVE ShelfInv
    OBVIOUS
  <2>1. day = 0 /\ shelf = [n \in Shelved |-> NoSkillRow] /\ sweeping = NoSweep /\ match = NoMatch
        /\ archivedByUser = {}
    BY DEF ShelfInit
  <2> QED
    BY <2>1, ShelfAssumption DEF ShelfInv, ShelfShape, ArchivedStays, SelectedIsListed, ProposedIsUnused, NoSweep, NoMatch
<1>2. ShelfInv /\ [ShelfNext]_shelfVars => ShelfInv'
  <2> SUFFICES ASSUME ShelfInv, [ShelfNext]_shelfVars PROVE ShelfInv'
    OBVIOUS
  <2>1. CASE UNCHANGED shelfVars
    BY <2>1 DEF shelfVars, ShelfInv, ShelfShape, ArchivedStays, SelectedIsListed, ProposedIsUnused, InShelf, Proposable
  <2>2. CASE DayPasses
    <3>1. day \in 0..MaxDay /\ day' = day + 1 /\ day' \in 0..MaxDay
      BY <2>2, ShelfAssumption DEF DayPasses, ShelfInv, ShelfShape
    <3>2. UNCHANGED <<shelf, sweeping, match, archivedByUser, overtaken>>
      BY <2>2 DEF DayPasses
    <3>3. ProposedIsUnused'
      BY <3>2 DEF ShelfInv, ProposedIsUnused, Proposable
    <3>4. sweeping.at <= day /\ sweeping.at \in 0..MaxDay
      BY DEF ShelfInv, ShelfShape
    <3> QED
      BY <3>1, <3>2, <3>3, <3>4 DEF ShelfInv, ShelfShape, ArchivedStays, SelectedIsListed, InShelf
  <2> QED
    BY <2>1, <2>2, CallsKeep, SelectsKeeps, UpdatesKeeps, MatchKeeps, DecidedKeeps DEF ShelfNext
<1>3. ShelfInv => ShelfIsKept
  <2> SUFFICES ASSUME ShelfInv PROVE ShelfIsKept
    OBVIOUS
  <2>1. ASSUME NEW n \in archivedByUser \ overtaken PROVE StateOf(n) \in {"archived", "pinned"}
    <3>1. shelf[n] # NoSkillRow /\ shelf[n].state = "archived" /\ n \in Shelved
      BY DEF ShelfInv, ArchivedStays, InShelf
    <3>2. shelf[n].pinned \in BOOLEAN
      BY <3>1 DEF ShelfInv, ShelfShape, ShelfRows
    <3> QED
      BY <3>1, <3>2 DEF StateOf
  <2>2. ASSUME NEW n \in sweeping.proposed PROVE StateOf(n) = "stale" /\ day - shelf[n].used >= ArchiveAfter
    <3>1. /\ n \in Shelved /\ Proposable(n) /\ day \in Nat
          /\ sweeping.at \in Nat /\ sweeping.at <= day
      BY DEF ShelfInv, ProposedIsUnused, ShelfShape
    <3>2. shelf[n] \in ShelfRows
      BY <3>1 DEF ShelfInv, ShelfShape, Proposable
    <3>3. shelf[n].used \in Nat /\ ArchiveAfter \in Nat /\ StaleAfter \in Nat /\ StaleAfter <= ArchiveAfter
      BY <3>2, ShelfAssumption DEF ShelfRows
    <3> QED
      BY <3>1, <3>3 DEF Proposable, StateOf
  <2> QED
    BY <2>1, <2>2 DEF ShelfIsKept, ShelfInv
<1> QED
  BY <1>1, <1>2, <1>3, PTL DEF ShelfSpec
-----------------------------------------------------------------------------
(* The log never runs ahead of the index, nor the index of the files, and the *)
(* versions of a skill go up in it. What is staged and not mixed is in the    *)
(* hands of one call, the one that staged it; what is not staged is under the *)
(* name of the call that had staged it.                                       *)
Anyone == Committers \cup {CHOOSE c \in Committers : TRUE}
LoggedCommits == [by : Committers, versions : [Tracked -> Nat]]
GitCalls ==
  [phase : {"idle", "added", "differs", "committed"}, skill : Tracked \cup {0}, added : Nat, told : Nat]
HistoryShape ==
  /\ text \in [Tracked -> Nat] /\ index \in [Tracked -> Nat] /\ adder \in [Tracked -> Anyone]
  /\ commits \in Seq(LoggedCommits) /\ committer \in [Committers -> GitCalls]
VersionsFollow == \A n \in Tracked : AtHead(n) <= index[n] /\ index[n] <= text[n]
VersionsClimb ==
  \A n \in Tracked : \A i, j \in Touching(n) : i < j => commits[i].versions[n] < commits[j].versions[n]
Heads == [n \in Tracked |-> AtHead(n)]
CallHolds(x, staged, heads, log) ==
  /\ x.phase # "idle" => x.skill \in Tracked /\ x.added > 0 /\ x.added <= staged[x.skill] /\ x.told = 0
  /\ x.phase = "committed" => heads[x.skill] >= x.added
  /\ x.told # 0 =>
       x.told \in DOMAIN log /\ x.skill \in Tracked /\ log[x.told].versions[x.skill] >= x.added
Holds(c, n) == committer[c].phase \in {"added", "differs"} /\ committer[c].skill = n
StagedIsHeld ==
  \A n \in Tracked \ mixed : n \in Staged => \E c \in Committers : Holds(c, n) /\ adder[n] = c
OverlapsAreMixed ==
  \A c, d \in Committers :
    c # d /\ committer[c].phase # "idle" /\ committer[d].phase # "idle" => committer[c].skill \in mixed
AuthorsAreNamed ==
  \A n \in Tracked \ mixed : Touching(n) # {} /\ n \notin Staged => commits[LastTouching(n)].by = adder[n]
HistoryInv ==
  /\ HistoryShape /\ VersionsFollow /\ VersionsClimb /\ (\A c \in Committers : CallHolds(committer[c], index, Heads, commits))
  /\ StagedIsHeld /\ OverlapsAreMixed /\ AuthorsAreNamed

(* The log has a last commit of a skill if it has any.                        *)
LEMMA LastIs ==
  ASSUME commits \in Seq(LoggedCommits), NEW n \in Tracked, Touching(n) # {}
  PROVE  /\ LastTouching(n) \in Touching(n) /\ \A j \in Touching(n) : j <= LastTouching(n)
         /\ AtHead(n) = commits[LastTouching(n)].versions[n] /\ AtHead(n) \in Nat /\ AtHead(n) # 0
<1> DEFINE k == Len(commits)
           T == {d \in 0..k : k - d \in Touching(n)}
<1>1. k \in Nat /\ DOMAIN commits = 1..k /\ Touching(n) \subseteq 1..k
  BY DEF Touching
<1>2. PICK d \in T : \A y \in T : ~(<<y, d>> \in OpToRel(<, Nat))
  <2>1. PICK i \in Touching(n) : TRUE
    OBVIOUS
  <2>2. k - i \in T /\ T \subseteq Nat
    BY <1>1
  <2> HIDE DEF T
  <2> QED
    BY <2>2, NatLessThanWellFounded, WFMin
<1>3. d \in 0..k /\ k - d \in Touching(n) /\ \A y \in T : ~(y < d)
  <2>1. T \subseteq Nat
    BY <1>1
  <2> QED
    BY <1>2, <2>1 DEF OpToRel
<1>4. \A j \in Touching(n) : j <= k - d
  <2> SUFFICES ASSUME NEW j \in Touching(n), j > k - d PROVE FALSE
    BY <1>1, <1>3
  <2>1. k - j \in T
    BY <1>1
  <2> QED
    BY <1>1, <1>3, <2>1
<1>5. LastTouching(n) \in Touching(n) /\ \A j \in Touching(n) : j <= LastTouching(n)
  BY <1>3, <1>4 DEF LastTouching
<1>6. AtHead(n) = commits[LastTouching(n)].versions[n]
  BY DEF AtHead
<1>7. LastTouching(n) \in DOMAIN commits /\ commits[LastTouching(n)].versions[n] # 0
  BY <1>5 DEF Touching
<1>8. commits[LastTouching(n)] \in LoggedCommits
  BY <1>1, <1>7
<1> QED
  BY <1>5, <1>6, <1>7, <1>8 DEF LoggedCommits

LEMMA HeadIs ==
  ASSUME commits \in Seq(LoggedCommits), NEW n \in Tracked
  PROVE  AtHead(n) \in Nat /\ (AtHead(n) = 0 <=> Touching(n) = {})
BY LastIs DEF AtHead

(* A call that leaves the log as it is leaves its last versions as they are.  *)
LEMMA LogStays ==
  ASSUME UNCHANGED commits
  PROVE  \A n \in Tracked :
           /\ Touching(n)' = Touching(n) /\ LastTouching(n)' = LastTouching(n) /\ AtHead(n)' = AtHead(n)
BY DEF Touching, LastTouching, AtHead

(* A commit is the last one of what it has, and is none of what it has not.   *)
LEMMA LogGrows ==
  ASSUME commits \in Seq(LoggedCommits), NEW e \in LoggedCommits, commits' = Append(commits, e), NEW n \in Tracked
  PROVE  /\ e.versions[n] = 0 =>
              Touching(n)' = Touching(n) /\ LastTouching(n)' = LastTouching(n) /\ AtHead(n)' = AtHead(n)
         /\ e.versions[n] # 0 =>
              /\ Touching(n)' = Touching(n) \cup {Len(commits) + 1}
              /\ LastTouching(n)' = Len(commits) + 1 /\ AtHead(n)' = e.versions[n]
<1> DEFINE k == Len(commits)
<1>1. k \in Nat /\ DOMAIN commits = 1..k /\ Touching(n) \subseteq 1..k
  BY DEF Touching
<1>2. /\ commits' \in Seq(LoggedCommits) /\ DOMAIN commits' = 1..k + 1 /\ commits'[k + 1] = e
      /\ \A i \in 1..k : commits'[i] = commits[i]
  BY <1>1
<1> HIDE DEF k
<1>3. Touching(n)' = {i \in 1..k + 1 : commits'[i].versions[n] # 0}
  BY <1>2 DEF Touching
<1>4. Touching(n) = {i \in 1..k : commits[i].versions[n] # 0}
  BY <1>1 DEF Touching
<1>5. CASE e.versions[n] = 0
  <2>1. Touching(n)' = Touching(n)
    BY <1>1, <1>2, <1>3, <1>4, <1>5
  <2>2. LastTouching(n)' = LastTouching(n)
    BY <2>1 DEF LastTouching
  <2>3. AtHead(n)' = AtHead(n)
    <3>1. CASE Touching(n) = {}
      BY <2>1, <3>1 DEF AtHead
    <3>2. CASE Touching(n) # {}
      <4>1. LastTouching(n) \in 1..k
        BY <1>1, <3>2, LastIs
      <4> QED
        BY <1>2, <2>1, <2>2, <3>2, <4>1 DEF AtHead
    <3> QED
      BY <3>1, <3>2
  <2> QED
    BY <1>5, <2>1, <2>2, <2>3
<1>6. CASE e.versions[n] # 0
  <2>1. Touching(n)' = Touching(n) \cup {k + 1}
    BY <1>1, <1>2, <1>3, <1>4, <1>6
  <2>2. LastTouching(n)' \in Touching(n)' /\ \A j \in Touching(n)' : j <= LastTouching(n)'
    <3>1. k + 1 \in Touching(n)' /\ \A j \in Touching(n)' : j <= k + 1
      BY <1>1, <2>1
    <3> QED
      BY <3>1 DEF LastTouching
  <2>3. LastTouching(n)' = k + 1
    BY <1>1, <2>1, <2>2
  <2>4. AtHead(n)' = e.versions[n]
    BY <1>2, <2>1, <2>3 DEF AtHead
  <2> QED
    BY <1>6, <2>1, <2>3, <2>4 DEF k
<1> QED
  BY <1>5, <1>6

(* A call goes on, or ends: the rest is as it was.                            *)
LEMMA CallGoesOn ==
  ASSUME HistoryInv, NEW c \in Committers, NEW x \in GitCalls, CallHolds(x, index, Heads, commits),
         committer' = [committer EXCEPT ![c] = x], UNCHANGED <<text, index, commits, adder>>, mixed \subseteq mixed',
         x.phase # "idle" => committer[c].phase # "idle" /\ x.skill = committer[c].skill,
         \A n \in Tracked \ mixed' : Holds(c, n) /\ n \in Staged => x.phase \in {"added", "differs"} /\ x.skill = n
  PROVE  HistoryInv'
<1>1. committer \in [Committers -> GitCalls]
  BY DEF HistoryInv, HistoryShape
<1>2. /\ committer' \in [Committers -> GitCalls] /\ committer'[c] = x
      /\ \A d \in Committers : d # c => committer'[d] = committer[d]
  BY <1>1
<1>3. \A n \in Tracked : Touching(n)' = Touching(n) /\ LastTouching(n)' = LastTouching(n) /\ AtHead(n)' = AtHead(n)
  BY LogStays
<1>4. Heads' = Heads /\ Staged' = Staged
  BY <1>3 DEF Heads, Staged
<1>5. HistoryShape' /\ VersionsFollow' /\ VersionsClimb'
  BY <1>2, <1>3 DEF HistoryInv, HistoryShape, VersionsFollow, VersionsClimb
<1>6. (\A d \in Committers : CallHolds(committer[d], index, Heads, commits))'
  <2>1. \A d \in Committers : CallHolds(committer'[d], index, Heads, commits)
    BY <1>2 DEF HistoryInv
  <2> QED
    BY <1>4, <2>1
<1>7. StagedIsHeld'
  <2> SUFFICES ASSUME NEW n \in Tracked \ mixed', n \in Staged
      PROVE \E d \in Committers : committer'[d].phase \in {"added", "differs"} /\ committer'[d].skill = n /\ adder[n] = d
    BY <1>4 DEF StagedIsHeld, Holds
  <2>1. PICK d \in Committers : Holds(d, n) /\ adder[n] = d
    BY DEF HistoryInv, StagedIsHeld
  <2> QED
    BY <1>2, <2>1 DEF Holds
<1>8. OverlapsAreMixed'
  BY <1>2 DEF HistoryInv, OverlapsAreMixed
<1>9. AuthorsAreNamed'
  BY <1>3, <1>4 DEF HistoryInv, AuthorsAreNamed
<1> QED
  BY <1>5, <1>6, <1>7, <1>8, <1>9 DEF HistoryInv

LEMMA IdleIs == Idle \in GitCalls /\ CallHolds(Idle, index, Heads, commits) /\ Idle.phase = "idle"
BY DEF Idle, GitCalls, CallHolds

LEMMA CheckedKeeps == ASSUME HistoryInv, NEW c \in Committers, Checked(c) PROVE HistoryInv'
<1> DEFINE s == committer[c].skill
<1>1. committer \in [Committers -> GitCalls] /\ CallHolds(committer[c], index, Heads, commits)
  BY DEF HistoryInv, HistoryShape
<1>2. committer[c].phase = "added" /\ UNCHANGED <<text, index, commits, adder, mixed>> /\ s \in Tracked
  BY <1>1 DEF Checked, CallHolds
<1>3. CASE Differs(s)
  <2> DEFINE x == [committer[c] EXCEPT !.phase = "differs"]
  <2>1. committer' = [committer EXCEPT ![c] = x]
    BY <1>3 DEF Checked
  <2>2. x \in GitCalls /\ x.phase = "differs" /\ x.skill = s /\ x.added = committer[c].added /\ x.told = committer[c].told
    BY <1>1 DEF GitCalls
  <2> HIDE DEF x
  <2>3. CallHolds(x, index, Heads, commits)
    BY <1>1, <1>2, <2>2 DEF CallHolds
  <2> QED
    BY <1>2, <2>1, <2>2, <2>3, CallGoesOn DEF Holds
<1>4. CASE ~Differs(s)
  <2>1. committer' = [committer EXCEPT ![c] = Idle]
    BY <1>4 DEF Checked
  <2>2. s \notin Staged
    BY <1>4 DEF Staged, Differs
  <2> QED
    BY <1>2, <2>1, <2>2, IdleIs, CallGoesOn DEF Holds
<1> QED
  BY <1>3, <1>4

LEMMA GivesUpKeeps == ASSUME HistoryInv, NEW c \in Committers, GivesUp(c) PROVE HistoryInv'
<1>1. /\ committer' = [committer EXCEPT ![c] = Idle] /\ mixed' = mixed \cup {committer[c].skill}
      /\ UNCHANGED <<text, index, commits, adder>>
  BY DEF GivesUp
<1> QED
  BY <1>1, IdleIs, CallGoesOn DEF Holds

LEMMA LoggedKeeps == ASSUME HistoryInv, NEW c \in Committers, Logged(c) PROVE HistoryInv'
<1> DEFINE s == committer[c].skill
           x == [Idle EXCEPT !.skill = s, !.added = committer[c].added, !.told = LastTouching(s)]
<1>1. committer \in [Committers -> GitCalls] /\ CallHolds(committer[c], index, Heads, commits)
      /\ commits \in Seq(LoggedCommits)
  BY DEF HistoryInv, HistoryShape
<1>2. committer[c].phase = "committed" /\ UNCHANGED <<text, index, commits, adder, mixed>>
      /\ committer' = [committer EXCEPT ![c] = x]
  BY DEF Logged
<1>3. s \in Tracked /\ committer[c].added > 0 /\ Heads[s] >= committer[c].added /\ committer[c].added \in Nat
  BY <1>1, <1>2 DEF CallHolds, GitCalls
<1>4. Heads[s] = AtHead(s) /\ AtHead(s) \in Nat /\ Touching(s) # {}
  <2>1. Heads[s] = AtHead(s)
    BY <1>3 DEF Heads
  <2> QED
    BY <1>1, <1>3, <2>1, HeadIs
<1>5. /\ LastTouching(s) \in DOMAIN commits /\ LastTouching(s) \in Nat
      /\ commits[LastTouching(s)].versions[s] >= committer[c].added
  <2>1. LastTouching(s) \in Touching(s) /\ AtHead(s) = commits[LastTouching(s)].versions[s]
    BY <1>1, <1>3, <1>4, LastIs
  <2>2. Touching(s) \subseteq DOMAIN commits /\ DOMAIN commits \subseteq Nat
    BY <1>1 DEF Touching
  <2> QED
    BY <1>3, <1>4, <2>1, <2>2
<1>6. x \in GitCalls /\ x.phase = "idle" /\ x.skill = s /\ x.added = committer[c].added /\ x.told = LastTouching(s)
  BY <1>3, <1>5 DEF Idle, GitCalls
<1> HIDE DEF x
<1>7. CallHolds(x, index, Heads, commits)
  BY <1>3, <1>5, <1>6 DEF CallHolds
<1> QED
  BY <1>2, <1>6, <1>7, CallGoesOn DEF Holds

(* Somebody writes a file.                                                    *)
LEMMA EditedKeeps == ASSUME HistoryInv, NEW n \in Tracked, Edited(n) PROVE HistoryInv'
<1>1. text \in [Tracked -> Nat]
  BY DEF HistoryInv, HistoryShape
<1>2. /\ text' \in [Tracked -> Nat] /\ \A m \in Tracked : text[m] <= text'[m]
      /\ UNCHANGED <<index, commits, committer, adder, mixed>>
  BY <1>1 DEF Edited
<1>3. \A m \in Tracked : Touching(m)' = Touching(m) /\ LastTouching(m)' = LastTouching(m) /\ AtHead(m)' = AtHead(m)
  BY <1>2, LogStays
<1>4. Heads' = Heads /\ Staged' = Staged
  BY <1>2, <1>3 DEF Heads, Staged
<1>5. HistoryShape' /\ VersionsClimb'
  BY <1>2, <1>3 DEF HistoryInv, HistoryShape, VersionsClimb
<1>6. VersionsFollow'
  <2> SUFFICES ASSUME NEW m \in Tracked PROVE AtHead(m) <= index[m] /\ index[m] <= text'[m]
    BY <1>2, <1>3 DEF VersionsFollow
  <2>1. AtHead(m) <= index[m] /\ index[m] <= text[m] /\ text[m] <= text'[m]
    BY <1>2 DEF HistoryInv, VersionsFollow
  <2>2. index[m] \in Nat /\ text[m] \in Nat /\ text'[m] \in Nat
    BY <1>2 DEF HistoryInv, HistoryShape
  <2> QED
    BY <2>1, <2>2
<1>7. (\A d \in Committers : CallHolds(committer[d], index, Heads, commits))'
  BY <1>2, <1>4 DEF HistoryInv
<1>8. StagedIsHeld' /\ OverlapsAreMixed' /\ AuthorsAreNamed'
  BY <1>2, <1>3, <1>4 DEF HistoryInv, StagedIsHeld, Holds, OverlapsAreMixed, AuthorsAreNamed
<1> QED
  BY <1>5, <1>6, <1>7, <1>8 DEF HistoryInv

(* A call stages a version; those under way at that moment mix with it.       *)
LEMMA AddKeeps == ASSUME HistoryInv, NEW c \in Committers, NEW n \in Tracked, Add(c, n) PROVE HistoryInv'
<1> DEFINE x == [phase |-> "added", skill |-> n, added |-> text[n], told |-> 0]
<1>1. /\ text \in [Tracked -> Nat] /\ index \in [Tracked -> Nat] /\ adder \in [Tracked -> Anyone]
      /\ commits \in Seq(LoggedCommits) /\ committer \in [Committers -> GitCalls]
  BY DEF HistoryInv, HistoryShape
<1>2. /\ committer[c].phase = "idle" /\ text[n] # 0 /\ UNCHANGED <<text, commits>>
      /\ index' = [index EXCEPT ![n] = text[n]] /\ committer' = [committer EXCEPT ![c] = x]
      /\ adder' = IF index[n] = text[n] THEN adder ELSE [adder EXCEPT ![n] = c]
      /\ mixed' = IF Busy = {} THEN mixed ELSE mixed \cup {n} \cup {committer[b].skill : b \in Busy}
  BY DEF Add
<1>3. /\ index' \in [Tracked -> Nat] /\ index'[n] = text[n]
      /\ \A m \in Tracked : m # n => index'[m] = index[m]
  BY <1>1, <1>2
<1>4. \A m \in Tracked : AtHead(m) <= index[m] /\ index[m] <= text[m] /\ index[m] <= index'[m]
  <2> SUFFICES ASSUME NEW m \in Tracked PROVE AtHead(m) <= index[m] /\ index[m] <= text[m] /\ index[m] <= index'[m]
    OBVIOUS
  <2>1. AtHead(m) <= index[m] /\ index[m] <= text[m]
    BY DEF HistoryInv, VersionsFollow
  <2>2. index[n] <= index'[n]
    <3>1. AtHead(n) <= index[n] /\ index[n] <= text[n]
      BY DEF HistoryInv, VersionsFollow
    <3> QED
      BY <1>3, <3>1
  <2>3. index[m] <= index'[m]
    <3>1. CASE m = n
      BY <2>2, <3>1
    <3>2. CASE m # n
      <4>1. index'[m] = index[m] /\ index[m] \in Nat
        BY <1>1, <1>3, <3>2
      <4> QED
        BY <4>1
    <3> QED
      BY <3>1, <3>2
  <2> QED
    BY <2>1, <2>3
<1>5. x \in GitCalls /\ x.phase = "added" /\ x.skill = n /\ x.added = text[n] /\ x.told = 0
  BY <1>1 DEF GitCalls
<1> HIDE DEF x
<1>6. /\ committer' \in [Committers -> GitCalls] /\ committer'[c] = x
      /\ \A d \in Committers : d # c => committer'[d] = committer[d]
  BY <1>1, <1>2, <1>5
<1>7. /\ adder' \in [Tracked -> Anyone]
      /\ \A m \in Tracked : m # n => adder'[m] = adder[m]
      /\ adder'[n] = IF index[n] = text[n] THEN adder[n] ELSE c
  BY <1>1, <1>2 DEF Anyone
<1>8. \A m \in Tracked : Touching(m)' = Touching(m) /\ LastTouching(m)' = LastTouching(m) /\ AtHead(m)' = AtHead(m)
  BY <1>2, LogStays
<1>9. Heads' = Heads
  BY <1>8 DEF Heads
<1>10. \A m \in Tracked : m \in Staged' <=> index'[m] # AtHead(m)
  BY <1>8 DEF Staged
<1>11. \A m \in Tracked : m \in Staged <=> index[m] # AtHead(m)
  BY DEF Staged
<1>12. /\ mixed \subseteq mixed'
       /\ \A d \in Committers : committer[d].phase # "idle" => n \in mixed' /\ committer[d].skill \in mixed'
  <2>1. \A d \in Committers : committer[d].phase # "idle" => d \in Busy
    BY DEF Busy
  <2> QED
    BY <1>2, <2>1
<1>13. HistoryShape' /\ VersionsClimb'
  BY <1>1, <1>2, <1>3, <1>6, <1>7, <1>8 DEF HistoryInv, HistoryShape, VersionsClimb
<1>14. VersionsFollow'
  <2> SUFFICES ASSUME NEW m \in Tracked PROVE AtHead(m) <= index'[m] /\ index'[m] <= text[m]
    BY <1>2, <1>8 DEF VersionsFollow
  <2>1. AtHead(m) \in Nat /\ index[m] \in Nat /\ index'[m] \in Nat /\ text[m] \in Nat
    BY <1>1, <1>3, HeadIs
  <2>2. AtHead(m) <= index'[m]
    BY <1>4, <2>1
  <2>3. index'[m] <= text[m]
    BY <1>3, <1>4, <2>1
  <2> QED
    BY <2>2, <2>3
<1>15. (\A d \in Committers : CallHolds(committer[d], index, Heads, commits))'
  <2>1. ASSUME NEW d \in Committers PROVE CallHolds(committer'[d], index', Heads, commits)
    <3>1. CASE d = c
      BY <1>1, <1>2, <1>3, <1>5, <1>6, <3>1 DEF CallHolds
    <3>2. CASE d # c
      <4>1. committer'[d] = committer[d] /\ CallHolds(committer[d], index, Heads, commits) /\ committer[d] \in GitCalls
        BY <1>1, <1>6, <3>2 DEF HistoryInv
      <4>2. committer[d].phase # "idle" => committer[d].added <= index'[committer[d].skill]
        <5> SUFFICES ASSUME committer[d].phase # "idle" PROVE committer[d].added <= index'[committer[d].skill]
          OBVIOUS
        <5>1. committer[d].skill \in Tracked /\ committer[d].added <= index[committer[d].skill]
          BY <4>1 DEF CallHolds
        <5>2. committer[d].added \in Nat
          BY <4>1 DEF GitCalls
        <5> QED
          BY <1>1, <1>3, <1>4, <5>1, <5>2
      <4> QED
        BY <4>1, <4>2 DEF CallHolds
    <3> QED
      BY <3>1, <3>2
  <2> QED
    BY <1>2, <1>9, <2>1
<1>16. StagedIsHeld'
  <2> SUFFICES ASSUME NEW m \in Tracked \ mixed', index'[m] # AtHead(m)
      PROVE \E d \in Committers : committer'[d].phase \in {"added", "differs"} /\ committer'[d].skill = m /\ adder'[m] = d
    BY <1>10 DEF StagedIsHeld, Holds
  <2>1. index[m] # AtHead(m) => \E d \in Committers : Holds(d, m) /\ adder[m] = d
    BY <1>11, <1>12 DEF HistoryInv, StagedIsHeld
  <2>2. CASE m # n
    <3>1. PICK d \in Committers : Holds(d, m) /\ adder[m] = d
      BY <1>3, <2>1, <2>2
    <3>2. d # c
      BY <1>2, <3>1 DEF Holds
    <3> QED
      BY <1>6, <1>7, <2>2, <3>1, <3>2 DEF Holds
  <2>3. CASE m = n /\ index[n] # text[n]
    BY <1>5, <1>6, <1>7, <2>3
  <2>4. CASE m = n /\ index[n] = text[n]
    <3>1. PICK d \in Committers : Holds(d, n)
      BY <1>3, <2>1, <2>4
    <3>2. n \in mixed'
      BY <1>12, <3>1 DEF Holds
    <3> QED
      BY <2>4, <3>2
  <2> QED
    BY <2>2, <2>3, <2>4
<1>17. OverlapsAreMixed'
  <2> SUFFICES ASSUME NEW d \in Committers, NEW e \in Committers, d # e,
                      committer'[d].phase # "idle", committer'[e].phase # "idle"
      PROVE committer'[d].skill \in mixed'
    BY DEF OverlapsAreMixed
  <2>1. CASE d = c
    BY <1>5, <1>6, <1>12, <2>1
  <2>2. CASE d # c
    BY <1>6, <1>12, <2>2
  <2> QED
    BY <2>1, <2>2
<1>18. AuthorsAreNamed'
  <2> SUFFICES ASSUME NEW m \in Tracked \ mixed', Touching(m) # {}, index'[m] = AtHead(m)
      PROVE commits[LastTouching(m)].by = adder'[m]
    BY <1>2, <1>8, <1>10 DEF AuthorsAreNamed
  <2>1. index[m] = AtHead(m) => commits[LastTouching(m)].by = adder[m]
    BY <1>11, <1>12 DEF HistoryInv, AuthorsAreNamed
  <2>2. CASE m # n
    BY <1>3, <1>7, <2>1, <2>2
  <2>3. CASE m = n
    <3>1. text[n] = AtHead(n) /\ AtHead(n) <= index[n] /\ index[n] <= text[n]
      BY <1>3, <1>4, <2>3
    <3>2. index[n] = text[n]
      BY <1>1, <3>1
    <3> QED
      BY <1>7, <2>1, <2>3, <3>1, <3>2
  <2> QED
    BY <2>2, <2>3
<1> QED
  BY <1>13, <1>14, <1>15, <1>16, <1>17, <1>18 DEF HistoryInv

(* A commit takes everything that is staged; of what is not mixed that is     *)
(* what its own call has staged (skills/git.py).                              *)
LEMMA GitCommitKeeps == ASSUME HistoryInv, NEW c \in Committers, Commit(c) PROVE HistoryInv'
<1>1. /\ text \in [Tracked -> Nat] /\ index \in [Tracked -> Nat] /\ adder \in [Tracked -> Anyone]
      /\ commits \in Seq(LoggedCommits) /\ committer \in [Committers -> GitCalls]
  BY DEF HistoryInv, HistoryShape
<1>2. committer[c].phase = "differs" /\ UNCHANGED <<text, index, adder, mixed>>
  BY DEF Commit
<1>3. CASE Staged = {}
  <2>1. UNCHANGED commits /\ committer' = [committer EXCEPT ![c] = Idle]
    BY <1>3 DEF Commit
  <2> QED
    BY <1>2, <1>3, <2>1, IdleIs, CallGoesOn
<1>4. CASE Staged # {}
  <2> DEFINE k == Len(commits)
             takenNow == [n \in Tracked |-> IF n \in Staged THEN index[n] ELSE 0]
             e == [by |-> c, versions |-> takenNow]
             x == [committer[c] EXCEPT !.phase = "committed"]
  <2>1. commits' = Append(commits, e) /\ committer' = [committer EXCEPT ![c] = x]
    BY <1>4 DEF Commit
  <2>2. takenNow \in [Tracked -> Nat]
    BY <1>1
  <2>3. e \in LoggedCommits /\ e.by = c /\ \A n \in Tracked : e.versions[n] = IF n \in Staged THEN index[n] ELSE 0
    BY <2>2 DEF LoggedCommits
  <2>4. /\ x \in GitCalls /\ x.phase = "committed" /\ x.skill = committer[c].skill
        /\ x.added = committer[c].added /\ x.told = committer[c].told
    BY <1>1 DEF GitCalls
  <2>5. /\ commits' \in Seq(LoggedCommits) /\ DOMAIN commits' = 1..k + 1 /\ DOMAIN commits = 1..k /\ k \in Nat
        /\ commits'[k + 1] = e /\ \A i \in 1..k : commits'[i] = commits[i]
    <3> HIDE DEF e
    <3> QED
      BY <1>1, <2>1, <2>3
  <2> HIDE DEF k, e, x, takenNow
  <2>6. /\ committer' \in [Committers -> GitCalls] /\ committer'[c] = x
        /\ \A d \in Committers : d # c => committer'[d] = committer[d]
    BY <1>1, <2>1, <2>4
  <2>7. \A n \in Tracked : AtHead(n) \in Nat /\ AtHead(n) <= index[n] /\ index[n] \in Nat /\ (n \in Staged <=> index[n] # AtHead(n))
    BY <1>1, HeadIs DEF HistoryInv, VersionsFollow, Staged
  <2>8. \A n \in Staged : e.versions[n] # 0 /\ e.versions[n] = index[n] /\ AtHead(n) < index[n] /\ n \in Tracked
    BY <2>3, <2>7 DEF Staged
  <2>9. ASSUME NEW n \in Tracked, n \in Staged
        PROVE  /\ Touching(n)' = Touching(n) \cup {k + 1} /\ LastTouching(n)' = k + 1 /\ AtHead(n)' = index[n]
    BY <1>1, <2>1, <2>3, <2>8, <2>9, LogGrows DEF k
  <2>10. ASSUME NEW n \in Tracked, n \notin Staged
         PROVE  /\ Touching(n)' = Touching(n) /\ LastTouching(n)' = LastTouching(n) /\ AtHead(n)' = AtHead(n)
                /\ AtHead(n) = index[n]
    <3>1. e.versions[n] = 0
      BY <2>3, <2>10
    <3> QED
      BY <1>1, <2>1, <2>3, <2>7, <2>10, <3>1, LogGrows
  <2>11. \A n \in Tracked : AtHead(n)' = index[n]
    BY <2>9, <2>10
  <2>12. Heads' = [n \in Tracked |-> index[n]] /\ Staged' = {}
    BY <1>2, <2>11 DEF Heads, Staged
  <2>13. HistoryShape'
    BY <1>1, <1>2, <2>5, <2>6 DEF HistoryShape
  <2>14. VersionsFollow'
    <3>1. \A n \in Tracked : index[n] <= index[n] /\ index[n] <= text[n]
      BY <2>7 DEF HistoryInv, VersionsFollow
    <3> QED
      BY <1>2, <2>11, <3>1 DEF VersionsFollow
  <2>15. VersionsClimb'
    <3> SUFFICES ASSUME NEW n \in Tracked, NEW i \in Touching(n)', NEW j \in Touching(n)', i < j
        PROVE commits'[i].versions[n] < commits'[j].versions[n]
      BY DEF VersionsClimb
    <3>1. Touching(n) \subseteq 1..k /\ \A m, l \in Touching(n) : m < l => commits[m].versions[n] < commits[l].versions[n]
      BY <2>5 DEF HistoryInv, VersionsClimb, Touching
    <3>2. CASE i \in Touching(n) /\ j \in Touching(n)
      BY <2>5, <3>1, <3>2
    <3>3. CASE ~(i \in Touching(n) /\ j \in Touching(n))
      <4>1. n \in Staged /\ j = k + 1 /\ i \in Touching(n)
        BY <2>5, <2>9, <2>10, <3>1, <3>3
      <4>2. LastTouching(n) \in Touching(n) /\ i <= LastTouching(n) /\ AtHead(n) = commits[LastTouching(n)].versions[n]
        BY <1>1, <4>1, LastIs
      <4>3. commits[i].versions[n] <= AtHead(n)
        <5>1. CASE i = LastTouching(n)
          BY <2>7, <4>2, <5>1
        <5>2. CASE i < LastTouching(n)
          <6>1. commits[i].versions[n] < AtHead(n)
            BY <3>1, <4>1, <4>2, <5>2
          <6>2. commits[i] \in LoggedCommits
            BY <1>1, <2>5, <3>1, <4>1
          <6>3. commits[i].versions[n] \in Nat
            BY <6>2 DEF LoggedCommits
          <6> QED
            BY <2>7, <6>1, <6>3
        <5>3. i \in Int /\ LastTouching(n) \in Int
          BY <2>5, <3>1, <4>1, <4>2
        <5> QED
          BY <4>2, <5>1, <5>2, <5>3
      <4>4. commits[i] \in LoggedCommits
        BY <1>1, <2>5, <3>1, <4>1
      <4>5. commits[i].versions[n] \in Nat
        BY <4>4 DEF LoggedCommits
      <4>6. commits[i].versions[n] < index[n]
        BY <2>7, <2>8, <4>1, <4>3, <4>5
      <4>7. commits'[i] = commits[i] /\ commits'[j] = e
        BY <2>5, <3>1, <4>1
      <4> QED
        BY <2>8, <4>1, <4>6, <4>7
    <3> QED
      BY <3>2, <3>3
  <2>16. (\A d \in Committers : CallHolds(committer[d], index, Heads, commits))'
    <3>1. ASSUME NEW d \in Committers PROVE CallHolds(committer'[d], index, Heads', commits')
      <4>1. CallHolds(committer[d], index, Heads, commits)
        BY DEF HistoryInv
      <4>2. /\ committer'[d].skill = committer[d].skill /\ committer'[d].added = committer[d].added
            /\ committer'[d].told = committer[d].told
            /\ committer'[d].phase # "idle" => committer[d].phase # "idle"
        BY <1>2, <2>4, <2>6
      <4>3. committer'[d].phase = "committed" => Heads'[committer'[d].skill] >= committer'[d].added
        <5> SUFFICES ASSUME committer'[d].phase = "committed"
            PROVE Heads'[committer[d].skill] >= committer[d].added
          BY <4>2
        <5>1. committer[d].skill \in Tracked /\ committer[d].added <= index[committer[d].skill]
          BY <4>1, <4>2 DEF CallHolds
        <5>2. committer[d] \in GitCalls
          BY <1>1
        <5>3. committer[d].added \in Nat
          BY <5>2 DEF GitCalls
        <5> QED
          BY <1>1, <2>12, <5>1, <5>3
      <4>4. committer'[d].told # 0 =>
              committer'[d].told \in DOMAIN commits' /\ commits'[committer'[d].told] = commits[committer'[d].told]
        BY <2>5, <4>1, <4>2 DEF CallHolds
      <4> QED
        BY <4>1, <4>2, <4>3, <4>4 DEF CallHolds
    <3> QED
      BY <1>2, <3>1
  <2>17. StagedIsHeld'
    BY <2>12 DEF StagedIsHeld
  <2>18. OverlapsAreMixed'
    <3>1. \A d \in Committers : committer'[d].skill = committer[d].skill
                                /\ (committer'[d].phase # "idle" => committer[d].phase # "idle")
      BY <1>2, <2>4, <2>6
    <3> QED
      BY <1>2, <3>1 DEF HistoryInv, OverlapsAreMixed
  <2>19. AuthorsAreNamed'
    <3> SUFFICES ASSUME NEW n \in Tracked \ mixed, Touching(n)' # {} PROVE commits'[LastTouching(n)'].by = adder[n]
      BY <1>2 DEF AuthorsAreNamed
    <3>1. CASE n \in Staged
      <4>1. PICK d \in Committers : Holds(d, n) /\ adder[n] = d
        BY <3>1 DEF HistoryInv, StagedIsHeld
      <4>2. d = c
        BY <1>2, <4>1 DEF Holds, HistoryInv, OverlapsAreMixed
      <4> QED
        BY <2>3, <2>5, <2>9, <3>1, <4>1, <4>2
    <3>2. CASE n \notin Staged
      <4>1. Touching(n) # {} /\ LastTouching(n)' = LastTouching(n)
        BY <2>10, <3>2
      <4>2. LastTouching(n) \in 1..k
        BY <1>1, <2>5, <4>1, LastIs DEF Touching
      <4> QED
        BY <2>5, <3>2, <4>1, <4>2 DEF HistoryInv, AuthorsAreNamed
    <3> QED
      BY <3>1, <3>2
  <2> QED
    BY <2>13, <2>14, <2>15, <2>16, <2>17, <2>18, <2>19 DEF HistoryInv
<1> QED
  BY <1>3, <1>4

(* Every edit that is staged reaches the log, in order and, but for calls     *)
(* that overlap or break off, under the name of the call that staged it, for  *)
(* any number of calls and skills (skills/git.py).                            *)
THEOREM EditsStayInTheLog == HistorySpec => []EditsReachTheLog
<1>1. HistoryInit => HistoryInv
  <2> SUFFICES ASSUME HistoryInit PROVE HistoryInv
    OBVIOUS
  <2>1. /\ text = [n \in Tracked |-> 0] /\ index = text /\ commits = <<>> /\ committer = [c \in Committers |-> Idle]
        /\ adder = [n \in Tracked |-> CHOOSE c \in Committers : TRUE]
    BY DEF HistoryInit
  <2>2. \A n \in Tracked : Touching(n) = {} /\ AtHead(n) = 0 /\ n \notin Staged
    BY <2>1 DEF Touching, AtHead, Staged
  <2>3. HistoryShape
    BY <2>1, IdleIs DEF HistoryShape, Anyone
  <2>4. \A c \in Committers : committer[c] = Idle
    BY <2>1
  <2> QED
    BY <2>1, <2>2, <2>3, <2>4, IdleIs
       DEF HistoryInv, VersionsFollow, VersionsClimb, StagedIsHeld, OverlapsAreMixed, AuthorsAreNamed
<1>2. HistoryInv /\ [HistoryNext]_historyVars => HistoryInv'
  <2> SUFFICES ASSUME HistoryInv, [HistoryNext]_historyVars PROVE HistoryInv'
    OBVIOUS
  <2>1. CASE UNCHANGED historyVars
    <3>1. UNCHANGED <<text, index, commits, committer, adder, mixed>>
      BY <2>1 DEF historyVars
    <3>2. \A m \in Tracked : Touching(m)' = Touching(m) /\ LastTouching(m)' = LastTouching(m) /\ AtHead(m)' = AtHead(m)
      BY <3>1, LogStays
    <3>3. Heads' = Heads /\ Staged' = Staged
      BY <3>1, <3>2 DEF Heads, Staged
    <3> QED
      BY <3>1, <3>2, <3>3 DEF HistoryInv, HistoryShape, VersionsFollow, VersionsClimb, StagedIsHeld, Holds,
                              OverlapsAreMixed, AuthorsAreNamed
  <2> QED
    BY <2>1, EditedKeeps, AddKeeps, CheckedKeeps, GitCommitKeeps, LoggedKeeps, GivesUpKeeps DEF HistoryNext
<1>3. HistoryInv => EditsReachTheLog
  <2> SUFFICES ASSUME HistoryInv PROVE EditsReachTheLog
    OBVIOUS
  <2>1. ASSUME Busy = {} PROVE Staged \subseteq mixed
    <3>1. \A n \in Staged : n \in Tracked
      BY DEF Staged
    <3> QED
      BY <2>1, <3>1 DEF HistoryInv, StagedIsHeld, Holds, Busy
  <2>2. \A c \in Committers : committer[c].told # 0 =>
          commits[committer[c].told].versions[committer[c].skill] >= committer[c].added
    BY DEF HistoryInv, CallHolds
  <2> QED
    BY <2>1, <2>2 DEF HistoryInv, VersionsClimb, AuthorsAreNamed, EditsReachTheLog
<1> QED
  BY <1>1, <1>2, <1>3, PTL DEF HistorySpec
-----------------------------------------------------------------------------
(* The instants of the accepted proposals do not go down; those in the window *)
(* that ends now are remembered; and no window has too many.                  *)
InWindow == {i \in DOMAIN admitted : admitted[i] >= tick - Window}
Spaced ==
  \A i \in DOMAIN admitted : i + MaxProposals \in DOMAIN admitted => admitted[i + MaxProposals] - admitted[i] > Window
LimitInv ==
  /\ tick \in Nat /\ admitted \in Seq(Nat) /\ stamps \subseteq DOMAIN admitted
  /\ \A i, j \in DOMAIN admitted : i <= j => admitted[i] <= admitted[j]
  /\ \A i \in DOMAIN admitted : admitted[i] <= tick
  /\ InWindow \subseteq stamps
  /\ Spaced
  /\ refused => Cardinality(InWindow) = MaxProposals

(* What is left after pruning is the window: the accepted ones from some      *)
(* first one on, at most MaxProposals of them.                                *)
LEMMA WindowIs ==
  ASSUME LimitInv
  PROVE  /\ Pruned(stamps) = InWindow
         /\ \E a \in 1..Len(admitted) + 1 :
              /\ InWindow = a..Len(admitted)
              /\ Cardinality(InWindow) = Len(admitted) + 1 - a
         /\ Cardinality(InWindow) \in Nat /\ Cardinality(InWindow) <= MaxProposals
<1> DEFINE n == Len(admitted)
           T == {i \in 1..n + 1 : i <= n => admitted[i] >= tick - Window}
<1>1. /\ admitted \in Seq(Nat) /\ n \in Nat /\ DOMAIN admitted = 1..n /\ tick \in Nat
      /\ Window \in Nat /\ MaxProposals \in Nat \ {0}
      /\ \A i \in 1..n : admitted[i] \in Nat
  BY LimitAssumption DEF LimitInv
<1>2. PICK a \in T : \A y \in T : ~(<<y, a>> \in OpToRel(<, Nat))
  <2>1. T \subseteq Nat /\ n + 1 \in T
    BY <1>1
  <2> HIDE DEF T
  <2> QED
    BY <2>1, NatLessThanWellFounded, WFMin
<1>3. a \in 1..n + 1 /\ (a <= n => admitted[a] >= tick - Window) /\ \A y \in 1..a - 1 : y \notin T
  <2>1. a \in 1..n + 1 /\ (a <= n => admitted[a] >= tick - Window)
    BY <1>2
  <2>2. T \subseteq Nat
    BY <1>1
  <2>3. \A y \in T : ~(y < a)
    BY <1>2, <2>1, <2>2 DEF OpToRel
  <2> QED
    BY <1>1, <2>1, <2>3
<1>4. \A y \in 1..n : y < a => admitted[y] < tick - Window
  BY <1>1, <1>3
<1>5. \A y \in 1..n : y >= a => admitted[y] >= tick - Window
  <2> SUFFICES ASSUME NEW y \in 1..n, y >= a PROVE admitted[y] >= tick - Window
    OBVIOUS
  <2>1. a \in 1..n /\ admitted[a] <= admitted[y]
    BY <1>1, <1>3 DEF LimitInv
  <2> QED
    BY <1>1, <1>3, <2>1
<1>6. InWindow = a..n
  BY <1>1, <1>3, <1>4, <1>5 DEF InWindow
<1>7. Cardinality(a..n) = n + 1 - a
  <2>1. a \in Int /\ n \in Int /\ a <= n + 1
    BY <1>1, <1>3
  <2> HIDE DEF n
  <2>2. Cardinality(a..n) = IF a > n THEN 0 ELSE n - a + 1
    BY <2>1, FS_Interval
  <2> QED
    BY <2>1, <2>2
<1>8. Pruned(stamps) = InWindow
  BY DEF Pruned, InWindow, LimitInv
<1>9. n + 1 - a <= MaxProposals
  <2> SUFFICES ASSUME n + 1 - a > MaxProposals PROVE FALSE
    BY <1>1, <1>3
  <2>1. a \in 1..n /\ a + MaxProposals \in 1..n
    BY <1>1, <1>3
  <2>2. admitted[a + MaxProposals] - admitted[a] > Window
    <3>1. DOMAIN admitted = 1..n /\ Spaced
      BY <1>1 DEF LimitInv
    <3> QED
      BY <2>1, <3>1 DEF Spaced
  <2>3. admitted[a + MaxProposals] <= tick /\ admitted[a] >= tick - Window
    <3>1. \A i \in 1..n : admitted[i] <= tick
      BY <1>1 DEF LimitInv
    <3>2. a <= n
      BY <1>1, <2>1
    <3> QED
      BY <1>3, <2>1, <3>1, <3>2
  <2>4. admitted[a] \in Nat /\ admitted[a + MaxProposals] \in Nat
    BY <1>1, <2>1
  <2> QED
    BY <1>1, <2>2, <2>3, <2>4
<1> QED
  BY <1>1, <1>3, <1>6, <1>7, <1>8, <1>9

(* A proposal is accepted: whatever was accepted MaxProposals before it has   *)
(* left the window (curator/meta.py).                                         *)
LEMMA TakesKeeps == ASSUME LimitInv, Takes PROVE LimitInv'
<1> DEFINE n == Len(admitted)
<1>1. PICK a \in 1..n + 1 : InWindow = a..n /\ Cardinality(InWindow) = n + 1 - a
  BY WindowIs
<1>2. /\ admitted \in Seq(Nat) /\ n \in Nat /\ DOMAIN admitted = 1..n /\ tick \in Nat
      /\ Window \in Nat /\ MaxProposals \in Nat \ {0}
      /\ \A i \in 1..n : admitted[i] \in Nat /\ admitted[i] <= tick
      /\ \A i, j \in 1..n : i <= j => admitted[i] <= admitted[j]
  BY LimitAssumption DEF LimitInv
<1>3. /\ n + 1 - a < MaxProposals /\ tick' \in Nat /\ tick <= tick'
      /\ admitted' = Append(admitted, tick') /\ stamps' = (a..n) \cup {n + 1} /\ refused' = FALSE
  BY <1>1, <1>2, WindowIs DEF Takes
<1>4. /\ admitted' \in Seq(Nat) /\ Len(admitted') = n + 1 /\ DOMAIN admitted' = 1..n + 1
      /\ \A i \in 1..n : admitted'[i] = admitted[i]
      /\ admitted'[n + 1] = tick'
  BY <1>2, <1>3
<1> HIDE DEF n
<1>5. \A i \in 1..n + 1 : admitted'[i] <= tick'
  <2>1. \A i \in 1..n + 1 : i \in 1..n \/ i = n + 1
    BY <1>2
  <2> QED
    BY <1>2, <1>3, <1>4, <2>1
<1>6. \A i, j \in 1..n + 1 : i <= j => admitted'[i] <= admitted'[j]
  <2> SUFFICES ASSUME NEW i \in 1..n + 1, NEW j \in 1..n + 1, i <= j PROVE admitted'[i] <= admitted'[j]
    OBVIOUS
  <2>1. CASE j = n + 1
    BY <1>4, <1>5, <2>1
  <2>2. CASE j # n + 1
    <3>1. i \in 1..n /\ j \in 1..n
      BY <1>2, <2>2
    <3> QED
      BY <1>2, <1>4, <3>1
  <2> QED
    BY <2>1, <2>2
<1>7. \A i \in 1..n : i \notin a..n => admitted[i] < tick - Window
  <2> SUFFICES ASSUME NEW i \in 1..n, i \notin InWindow PROVE admitted[i] < tick - Window
    BY <1>1
  <2>1. ~(admitted[i] >= tick - Window)
    BY <1>2 DEF InWindow
  <2>2. admitted[i] \in Int /\ tick - Window \in Int
    BY <1>2
  <2> QED
    BY <2>1, <2>2
<1>8. InWindow' \subseteq stamps'
  <2> SUFFICES ASSUME NEW i \in 1..n + 1, admitted'[i] >= tick' - Window PROVE i \in (a..n) \cup {n + 1}
    BY <1>3, <1>4 DEF InWindow
  <2>1. CASE i \in 1..n
    <3>1. admitted[i] >= tick - Window /\ admitted[i] \in Nat
      BY <1>2, <1>3, <1>4, <2>1
    <3> QED
      BY <1>2, <1>7, <2>1, <3>1
  <2> QED
    BY <1>2, <2>1
<1>9. Spaced'
  <2> SUFFICES ASSUME NEW i \in 1..n + 1, i + MaxProposals \in 1..n + 1
      PROVE admitted'[i + MaxProposals] - admitted'[i] > Window
    BY <1>4 DEF Spaced
  <2>1. i \in 1..n /\ admitted'[i] = admitted[i]
    BY <1>2, <1>4
  <2>2. CASE i + MaxProposals \in 1..n
    BY <1>2, <1>4, <2>1, <2>2 DEF LimitInv, Spaced
  <2>3. CASE i + MaxProposals = n + 1
    <3>1. i \notin a..n
      BY <1>2, <1>3, <2>3
    <3>2. admitted[i] < tick - Window /\ admitted[i] \in Nat
      BY <1>2, <1>7, <2>1, <3>1
    <3> QED
      BY <1>2, <1>3, <1>4, <2>1, <2>3, <3>2
  <2> QED
    BY <1>2, <2>2, <2>3
<1>10. stamps' \subseteq 1..n + 1
  BY <1>1, <1>2, <1>3
<1> QED
  BY <1>3, <1>4, <1>5, <1>6, <1>8, <1>9, <1>10 DEF LimitInv

(* No window of the length the curator was given has more than the proposals  *)
(* it allows, and none is dropped with room left, for every limit and every   *)
(* length (curator/meta.py).                                                  *)
LEMMA ProposalsStayLimited == LimitSpec => []ProposalsAreLimited
<1>1. LimitInit => LimitInv
  <2> SUFFICES ASSUME LimitInit PROVE LimitInv
    OBVIOUS
  <2>1. tick = 0 /\ stamps = {} /\ admitted = <<>> /\ refused = FALSE
    BY DEF LimitInit
  <2>2. admitted \in Seq(Nat) /\ DOMAIN admitted = {}
    BY <2>1
  <2> QED
    BY <2>1, <2>2 DEF LimitInv, InWindow, Spaced
<1>2. LimitInv /\ [LimitNext]_limitVars => LimitInv'
  <2> SUFFICES ASSUME LimitInv, [LimitNext]_limitVars PROVE LimitInv'
    OBVIOUS
  <2>1. CASE Takes
    BY <2>1, TakesKeeps
  <2>2. CASE Drops
    <3>1. Pruned(stamps) = InWindow /\ Cardinality(InWindow) = MaxProposals
      BY <2>2, WindowIs, LimitAssumption DEF Drops
    <3>2. stamps' = InWindow /\ refused' = TRUE /\ UNCHANGED <<tick, admitted>>
      BY <2>2, <3>1 DEF Drops
    <3>3. InWindow' = InWindow
      BY <3>2 DEF InWindow
    <3> QED
      BY <3>1, <3>2, <3>3 DEF LimitInv, Spaced, InWindow
  <2>3. CASE Look
    <3>1. stamps' = InWindow /\ UNCHANGED <<tick, admitted, refused>>
      BY <2>3, WindowIs DEF Look
    <3>2. InWindow' = InWindow
      BY <3>1 DEF InWindow
    <3> QED
      BY <3>1, <3>2 DEF LimitInv, Spaced, InWindow
  <2>4. CASE ResetLimit
    <3>1. /\ tick' = tick /\ stamps' = {} /\ admitted' = <<>> /\ refused' = FALSE
          /\ admitted' \in Seq(Nat) /\ DOMAIN admitted' = {}
      BY <2>4 DEF ResetLimit
    <3> QED
      BY <3>1 DEF LimitInv, Spaced, InWindow
  <2>5. CASE TickPasses
    <3>1. /\ tick \in Nat /\ tick' = tick + 1 /\ refused' = FALSE /\ UNCHANGED <<stamps, admitted>>
          /\ Window \in Nat
      BY <2>5, LimitAssumption DEF TickPasses, LimitInv
    <3>2. \A i \in DOMAIN admitted : admitted[i] \in Nat /\ admitted[i] <= tick
      BY DEF LimitInv
    <3>3. InWindow' \subseteq InWindow
      BY <3>1, <3>2 DEF InWindow
    <3> QED
      BY <3>1, <3>2, <3>3 DEF LimitInv, Spaced
  <2>6. CASE UNCHANGED limitVars
    <3>1. UNCHANGED <<tick, stamps, admitted, refused>>
      BY <2>6 DEF limitVars
    <3> QED
      BY <3>1 DEF LimitInv, Spaced, InWindow
  <2> QED
    BY <2>1, <2>2, <2>3, <2>4, <2>5, <2>6 DEF LimitNext
<1>3. LimitInv => ProposalsAreLimited
  BY DEF LimitInv, Spaced, InWindow, ProposalsAreLimited
<1> QED
  BY <1>1, <1>2, <1>3, PTL DEF LimitSpec
-----------------------------------------------------------------------------
(* The records of the skills hold together: what the user archived stays so   *)
(* and a sweep proposes only what has gone unused; only failing demotes; an   *)
(* edit reaches the log under the name of the call that staged it; and no     *)
(* window has more proposals than its limit (skills/lifecycle.py, scoring.py, *)
(* git.py, curator/meta.py).                                                  *)
THEOREM SkillRecordsStayHeld == ScoresSpec /\ ShelfSpec /\ HistorySpec /\ LimitSpec => []SkillRecordsHold
<1>1. DemotionIsEarned /\ ShelfIsKept /\ EditsReachTheLog /\ ProposalsAreLimited => SkillRecordsHold
  BY DEF SkillRecordsHold
<1> QED
  BY <1>1, DemotionStaysEarned, ShelfStaysKept, EditsStayInTheLog, ProposalsStayLimited, PTL
=============================================================================
