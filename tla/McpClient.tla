----------------------------- MODULE McpClient -----------------------------
(* tools/mcp.py: the client of one MCP server. Calls share a pipe to the      *)
(* server; one task reads what comes back and hands each answer to the future *)
(* of its call, or runs a request of the server by itself. Both sides choose  *)
(* the ids of their own requests. The tools of the server are registered      *)
(* under their names, like those of any other client.                         *)
EXTENDS Naturals, Sequences

CONSTANTS
  Callers,        \* tasks with calls to the server
  McpTools,       \* names of the server's tools
  MaxRequests,    \* bound of the calls
  MaxAsked        \* bound of the server's own requests

ASSUME McpAssumption == MaxRequests \in Nat /\ MaxAsked \in Nat

VARIABLES
  reqId,          \* the id given last
  pending,        \* ids whose future waits for an answer
  futures,        \* what became of each call
  calling,        \* the id of the call each task is in, 0 for none
  server,         \* "none", "up" or "gone"
  requests,       \* ids the server has yet to answer
  asked,          \* history: ids of the server's own requests
  pipe,           \* what the server has written and nobody has read
  reader,         \* "none", "runs" or "ended"
  sampling,       \* requests of the server that the model works at
  listed,         \* list_tools was answered
  registry,       \* whose tool is registered under a name
  registered,     \* _registered
  upset           \* history: the loop met an answer or a line it cannot take

mcpVars == <<reqId, pending, futures, calling, server, requests, asked, pipe, reader,
             sampling, listed, registry, registered, upset>>
registryVars == <<listed, registry, registered>>
serverVars == <<server, requests, asked>>

Ids == 1..MaxRequests
NoFuture == [state |-> "none", kind |-> "none", from |-> 0]
Future(op) == [state |-> "open", kind |-> op, from |-> 0]
Settled(id, state) == futures' = [futures EXCEPT ![id].state = state]
Leaves(c) == calling' = [calling EXCEPT ![c] = 0]

-----------------------------------------------------------------------------

(* _send: an id, a future and one line to the server. Once the server is gone *)
(* the write may raise, which leaves the future behind.                       *)
Send(c, op) ==
  LET id == reqId + 1 IN
  /\ calling[c] = 0 /\ id \in Ids
  /\ reqId' = id
  /\ pending' = pending \cup {id}
  /\ \/ /\ futures' = [futures EXCEPT ![id] = Future(op)]
        /\ calling' = [calling EXCEPT ![c] = id]
     \/ /\ server = "gone"
        /\ futures' = [futures EXCEPT ![id] = [Future(op) EXCEPT !.state = "failed"]]
        /\ UNCHANGED calling

(* start(): the process, the reader and the handshake, which is a call.       *)
StartMcp(c) ==
  /\ server = "none"
  /\ server' = "up" /\ reader' = "runs"
  /\ Send(c, "initialize")
  /\ requests' = requests \cup {reqId'}
  /\ UNCHANGED <<asked, pipe, sampling, registryVars, upset>>

CallMcp(c, op) ==
  /\ server # "none"
  /\ Send(c, op)
  /\ requests' = IF server = "up" THEN requests \cup {reqId'} ELSE requests
  /\ UNCHANGED <<server, asked, pipe, reader, sampling, registryVars, upset>>

(* The server answers in any order, and asks for a sample under an id of its  *)
(* own choice. The error of an answer may be no object ("broken").            *)
ServerAnswers(id, kind) ==
  /\ server = "up" /\ id \in requests
  /\ requests' = requests \ {id}
  /\ pipe' = Append(pipe, [kind |-> kind, id |-> id])
  /\ UNCHANGED <<reqId, pending, futures, calling, server, asked, reader, sampling,
                 registryVars, upset>>

ServerAsks(id) ==
  /\ server = "up" /\ Len(pipe) < MaxRequests
  /\ id \in 1..MaxAsked \ asked
  /\ asked' = asked \cup {id}
  /\ pipe' = Append(pipe, [kind |-> "request", id |-> id])
  /\ UNCHANGED <<reqId, pending, futures, calling, server, requests, reader, sampling,
                 registryVars, upset>>

(* A line that is no message: no JSON at all ("junk"), or one longer than the *)
(* reader's limit, not UTF-8, or JSON that is no object ("unreadable").       *)
ServerBabbles(kind) ==
  /\ server = "up" /\ pipe = <<>>
  /\ pipe' = Append(pipe, [kind |-> kind, id |-> 0])
  /\ UNCHANGED <<reqId, pending, futures, calling, serverVars, reader, sampling,
                 registryVars, upset>>

ServerExits ==
  /\ server = "up"
  /\ server' = "gone" /\ requests' = {}
  /\ UNCHANGED <<reqId, pending, futures, calling, asked, pipe, reader, sampling,
                 registryVars, upset>>

(* _reader_loop skips what is no JSON, and any other exception is caught     *)
(* outside of the loop, which is over with it: a line that cannot be read, an *)
(* error without a message, a future that is settled already.                 *)
NotSettled(m) == m.id \in pending /\ (m.kind = "broken" \/ futures[m.id].state # "open")

(* A line that is no JSON is not skipped either (mutant).                     *)
RaisesAtJunk(m) == m.kind \in {"junk", "unreadable"} \/ NotSettled(m)

Raises(m) == m.kind = "unreadable" \/ NotSettled(m)

Unfit(m) ==
  \/ m.kind \in {"broken", "unreadable"}
  \/ m.id \in pending /\ futures[m.id].state = "cancelled"

(* _dispatch: whatever has the id of a pending call is taken for its answer,  *)
(* and its entry is gone before the future is settled.                        *)
Dispatch ==
  LET m == Head(pipe) IN
  /\ reader = "runs" /\ pipe # <<>>
  /\ pipe' = Tail(pipe)
  /\ \/ /\ m.id \in pending /\ ~Raises(m)
        /\ pending' = pending \ {m.id}
        /\ futures' = [futures EXCEPT ![m.id].state = "answered",
                                      ![m.id].from = IF m.kind = "answer" THEN m.id ELSE 0]
        /\ listed' = (listed \/ futures[m.id].kind = "list")
        /\ UNCHANGED <<reader, sampling, upset>>
     \/ /\ Raises(m)
        /\ pending' = pending \ {m.id}
        /\ reader' = "ended"
        /\ upset' = (upset \/ Unfit(m))
        /\ UNCHANGED <<futures, sampling, listed>>
     \/ /\ m.id \notin pending /\ ~Raises(m)
        /\ sampling' = IF m.kind = "request" THEN sampling \cup {m.id} ELSE sampling
        /\ UNCHANGED <<pending, futures, reader, listed, upset>>
  /\ UNCHANGED <<reqId, calling, serverVars, registry, registered>>

(* The stream ends with the process, behind what it had written.              *)
ReaderEnds ==
  /\ reader = "runs" /\ pipe = <<>> /\ server = "gone"
  /\ reader' = "ended"
  /\ UNCHANGED <<reqId, pending, futures, calling, serverVars, pipe, sampling,
                 registryVars, upset>>

(* _handle_server_request: the answer of the model, or its failure.           *)
Sampled(id) ==
  /\ id \in sampling
  /\ sampling' = sampling \ {id}
  /\ UNCHANGED <<reqId, pending, futures, calling, serverVars, pipe, reader,
                 registryVars, upset>>

CallReturns(c) ==
  /\ calling[c] # 0 /\ futures[calling[c]].state = "answered"
  /\ Leaves(c)
  /\ UNCHANGED <<reqId, pending, futures, serverVars, pipe, reader, sampling,
                 registryVars, upset>>

(* The entry of the call stays behind (mutant).                               *)
StillPending(id) == pending

Forgotten(id) == pending \ {id}

CallTimesOut(c) ==
  /\ calling[c] # 0 /\ futures[calling[c]].state = "open"
  /\ Settled(calling[c], "late")
  /\ pending' = Forgotten(calling[c])
  /\ Leaves(c)
  /\ UNCHANGED <<reqId, serverVars, pipe, reader, sampling, registryVars, upset>>

(* The task of the caller is cancelled: only a time-out is caught.            *)
CallCancelled(c) ==
  /\ calling[c] # 0 /\ futures[calling[c]].state = "open"
  /\ Settled(calling[c], "cancelled")
  /\ Leaves(c)
  /\ UNCHANGED <<reqId, pending, serverVars, pipe, reader, sampling, registryVars,
                 upset>>

RegisterTools ==
  /\ listed /\ server = "up"
  /\ registry' = [n \in McpTools |-> "mine"]
  /\ registered' = McpTools
  /\ UNCHANGED <<reqId, pending, futures, calling, serverVars, pipe, reader, sampling,
                 listed, upset>>

(* Another client registers a tool of the same name, or takes it away.        *)
OtherRegisters(n, whose) ==
  /\ registry[n] # whose
  /\ registry' = [registry EXCEPT ![n] = whose]
  /\ UNCHANGED <<reqId, pending, futures, calling, serverVars, pipe, reader, sampling,
                 listed, registered, upset>>

(* stop(): the reader is cancelled, the process ended, and every name that    *)
(* was registered is taken away, whoever has it now.                          *)
StopMcp ==
  /\ server # "none" /\ (reader # "ended" \/ server # "gone" \/ registered # {})
  /\ reader' = "ended" /\ server' = "gone" /\ requests' = {}
  /\ registry' = [n \in McpTools |-> IF n \in registered THEN "nobody" ELSE registry[n]]
  /\ registered' = {}
  /\ UNCHANGED <<reqId, pending, futures, calling, asked, pipe, sampling, listed, upset>>

McpInit ==
  /\ reqId = 0 /\ pending = {}
  /\ futures = [id \in Ids |-> NoFuture]
  /\ calling = [c \in Callers |-> 0]
  /\ server = "none" /\ requests = {} /\ asked = {} /\ pipe = <<>>
  /\ reader = "none" /\ sampling = {}
  /\ listed = FALSE /\ registered = {}
  /\ registry = [n \in McpTools |-> "nobody"]
  /\ upset = FALSE

McpNext ==
  \/ \E c \in Callers :
       \/ StartMcp(c) \/ CallReturns(c) \/ CallTimesOut(c) \/ CallCancelled(c)
       \/ \E op \in {"list", "call"} : CallMcp(c, op)
  \/ \E id \in Ids, kind \in {"answer", "broken"} : ServerAnswers(id, kind)
  \/ \E kind \in {"junk", "unreadable"} : ServerBabbles(kind)
  \/ \E id \in 1..MaxAsked : ServerAsks(id) \/ Sampled(id)
  \/ \E n \in McpTools, whose \in {"nobody", "other"} : OtherRegisters(n, whose)
  \/ ServerExits \/ Dispatch \/ ReaderEnds \/ RegisterTools \/ StopMcp

McpSpec == McpInit /\ [][McpNext]_mcpVars

-----------------------------------------------------------------------------

(* A call gets the answer to itself, whatever comes late, out of order or     *)
(* from calls that gave up, unless the server gave its id to a request of its *)
(* own. As long as the reader runs, a call that waits still can be answered.  *)
(* With the server up the reader ends for what it cannot take alone: a call   *)
(* that was cancelled and then answered, an error without a message, or a     *)
(* line that cannot be read; a time-out never ends it, nor does a line that   *)
(* is no JSON. And stop leaves no tool behind.                                *)
AnswersReachTheirCalls ==
  /\ \A id \in Ids : futures[id].state = "answered" => futures[id].from = id \/ id \in asked
  /\ reader = "runs" => \A id \in Ids : futures[id].state = "open" => id \in pending
  /\ reader = "ended" => server = "gone" \/ upset
  /\ server = "gone" /\ registered = {} => \A n \in McpTools : registry[n] # "mine"
=============================================================================
