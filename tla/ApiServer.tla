----------------------------- MODULE ApiServer ------------------------------
(* rpc/http_api.py: each request has a worker thread, the turns it waits for  *)
(* run on the loop of the process, and a stream is a queue between the two.   *)
(* What a turn does is Gateway's subject; here it emits events and ends.      *)
EXTENDS Integers, FiniteSets

CONSTANTS
  Requests,
  MaxEmitted        \* bound of the events of one turn

ASSUME ApiAssumption == MaxEmitted \in Nat

VARIABLES
  offered,          \* the optional functions this server was built with
  request,
  turn,             \* the turn a request has started
  stats

apiVars == <<offered, request, turn, stats>>

Routes == {"turn", "stream", "ingest", "get", "unknown"}

(* build_openapi_spec: the answers each route is published with, and those it *)
(* gives beyond them. GET answers 200 and 404.                                *)
Published ==
  [turn |-> {200, 400, 401, 403, 504}, stream |-> {200, 400, 401, 403, 501},
   ingest |-> {200, 400, 401, 501}, get |-> {200}, unknown |-> {}]
Unpublished ==
  [turn |-> {500}, stream |-> {}, ingest |-> {403, 500}, get |-> {}, unknown |-> {404}]

NotCalled ==
  [phase |-> "away", route |-> "unknown", token |-> "none", body |-> "fine",
   code |-> 0, told |-> FALSE, got |-> 0, ending |-> "none"]
NoTurn == [state |-> "none", put |-> 0, how |-> "reply"]

-----------------------------------------------------------------------------

(* issue and verify: a token this server's key has signed is good for a while; *)
(* any other, or no token, is "none".                                         *)
Tokens == {"none", "unscoped", "good"}
Authentic(q) == q.token \in {"unscoped", "good"}
Scoped(q) == q.token = "good"

Comes(r) ==
  /\ request[r].phase = "away"
  /\ \E route \in Routes, token \in Tokens, body \in {"fine", "empty", "bad", "badlength"} :
       request' = [request EXCEPT ![r].phase = "called", ![r].route = route,
                                  ![r].token = token, ![r].body = body]
  /\ UNCHANGED <<offered, turn, stats>>

(* Time passes: what was issued before has expired.                           *)
Expires ==
  /\ request' = [r \in Requests |-> IF request[r].phase = "called" /\ Authentic(request[r])
                                    THEN [request[r] EXCEPT !.token = "none"] ELSE request[r]]
  /\ UNCHANGED <<offered, turn, stats>>

(* _respond: the client may be gone, which nobody notices.                    *)
Responds(r, code) ==
  /\ \E told \in BOOLEAN :
       request' = [request EXCEPT ![r].phase = "over", ![r].code = code, ![r].told = told]
  /\ UNCHANGED offered
Counts(k) == stats' = [stats EXCEPT ![k] = @ + 1]

(* do_GET, and the checks of do_POST in their order.                          *)
Refused(r) ==
  LET q == request[r] IN
  /\ q.phase = "called" /\ UNCHANGED turn
  /\ \/ q.route = "get" /\ Responds(r, 200) /\ UNCHANGED stats
     \/ q.route = "unknown" /\ Responds(r, 404) /\ UNCHANGED stats
     \/ /\ q.route \notin {"get", "unknown"}
        /\ \/ ~Authentic(q) /\ Responds(r, 401) /\ Counts("unauthorized")
           \/ Authentic(q) /\ ~Scoped(q) /\ Responds(r, 403) /\ Counts("forbidden")
           \/ Scoped(q) /\ q.body = "bad" /\ Responds(r, 400) /\ Counts("bad_request")
           \* the length is read outside the guarded part: the thread ends
           \/ /\ Scoped(q) /\ q.body = "badlength"
              /\ request' = [request EXCEPT ![r].phase = "over"]
              /\ UNCHANGED <<offered, stats>>

Accepted(r, route) ==
  LET q == request[r] IN
  /\ q.phase = "called" /\ q.route = route
  /\ Scoped(q) /\ q.body \in {"fine", "empty"}

(* _handle_ingest: only success is counted.                                   *)
Ingest(r) ==
  LET q == request[r] IN
  /\ Accepted(r, "ingest") /\ UNCHANGED turn
  /\ \/ q.body = "empty" /\ Responds(r, 400) /\ UNCHANGED stats
     \/ q.body = "fine" /\ "ingest" \notin offered /\ Responds(r, 501) /\ UNCHANGED stats
     \/ q.body = "fine" /\ "ingest" \in offered /\ Responds(r, 500) /\ UNCHANGED stats
     \/ q.body = "fine" /\ "ingest" \in offered /\ Responds(r, 200) /\ Counts("ok")

(* The bridges: the coroutine goes to the loop and the worker waits.          *)
Starts(r) == turn' = [turn EXCEPT ![r].state = "running"]

AsksTurn(r) ==
  /\ Accepted(r, "turn")
  /\ \/ request[r].body = "empty" /\ Responds(r, 400) /\ Counts("bad_request") /\ UNCHANGED turn
     \/ /\ request[r].body = "fine" /\ Starts(r)
        /\ request' = [request EXCEPT ![r].phase = "waiting"]
        /\ UNCHANGED <<offered, stats>>

AsksStream(r) ==
  /\ Accepted(r, "stream")
  /\ \/ "stream" \notin offered /\ Responds(r, 501) /\ UNCHANGED <<turn, stats>>
     \/ /\ "stream" \in offered /\ request[r].body = "empty"
        /\ Responds(r, 400) /\ Counts("bad_request") /\ UNCHANGED turn
     \/ /\ "stream" \in offered /\ request[r].body = "fine" /\ Starts(r)
        /\ request' = [request EXCEPT ![r].phase = "streaming", ![r].code = 200, ![r].told = TRUE]
        /\ UNCHANGED <<offered, stats>>

(* On the loop: the turn puts its events and ends, whoever still waits.       *)
Emits(r) ==
  /\ turn[r].state = "running" /\ turn[r].put < MaxEmitted
  /\ turn' = [turn EXCEPT ![r].put = @ + 1]
  /\ UNCHANGED <<offered, request, stats>>
EndsTurn(r) ==
  /\ turn[r].state = "running"
  /\ \E how \in {"reply", "value", "timeout", "other"} :
       turn' = [turn EXCEPT ![r].state = "ended", ![r].how = how]
  /\ UNCHANGED <<offered, request, stats>>

(* do_POST behind its turn_fn: what the turn raises decides the answer, and   *)
(* the wait may end before the turn does.                                     *)
TurnAnswered(r) ==
  /\ request[r].phase = "waiting" /\ turn[r].state = "ended" /\ UNCHANGED turn
  /\ \/ turn[r].how = "reply" /\ Counts("ok") /\ Responds(r, 200)
     \/ turn[r].how = "value" /\ Counts("bad_request") /\ Responds(r, 400)
     \/ turn[r].how = "timeout" /\ Counts("timeout") /\ Responds(r, 504)
     \/ turn[r].how = "other" /\ Counts("error") /\ Responds(r, 500)
TurnOverdue(r) ==
  /\ request[r].phase = "waiting" /\ turn[r].state = "running" /\ UNCHANGED turn
  /\ Counts("timeout") /\ Responds(r, 504)

(* _handle_stream: frame by frame, in the order of the queue.                 *)
Frame(r) ==
  /\ request[r].phase = "streaming" /\ request[r].got < turn[r].put
  /\ request' = [request EXCEPT ![r].got = @ + 1]
  /\ UNCHANGED <<offered, turn, stats>>
(* The client left: the generator is closed, the turn goes on.                *)
Disconnects(r) ==
  /\ request[r].phase = "streaming"
  /\ request[r].got < turn[r].put \/ turn[r].state = "ended"
  /\ request' = [request EXCEPT ![r].phase = "over", ![r].ending = "cut"]
  /\ UNCHANGED <<offered, turn, stats>>

Closing(r, ending) ==
  /\ request' = [request EXCEPT ![r].phase = "over", ![r].ending = ending]
  /\ Counts("ok") /\ UNCHANGED <<offered, turn>>

(* Mutant of StreamEnds: it looks at the future, not at the queue.            *)
StreamEndsEarly(r) ==
  /\ request[r].phase = "streaming" /\ turn[r].state = "ended"
  /\ Closing(r, IF turn[r].how = "reply" THEN "done" ELSE "error")

(* The sentinel is behind every event.                                        *)
StreamEnds(r) ==
  /\ request[r].phase = "streaming" /\ turn[r].state = "ended"
  /\ request[r].got = turn[r].put
  /\ Closing(r, IF turn[r].how = "reply" THEN "done" ELSE "error")
(* No event for the length of the time-out.                                   *)
StreamOverdue(r) ==
  /\ request[r].phase = "streaming" /\ turn[r].state = "running"
  /\ request[r].got = turn[r].put
  /\ Closing(r, "error")

-----------------------------------------------------------------------------

(* SeraHTTPAPI.__init__: streams and ingest are optional.                     *)
ApiInit ==
  /\ offered \in SUBSET {"stream", "ingest"}
  /\ request = [r \in Requests |-> NotCalled]
  /\ turn = [r \in Requests |-> NoTurn]
  /\ stats = [k \in {"ok", "unauthorized", "forbidden", "bad_request", "timeout", "error"} |-> 0]

ApiNext ==
  \/ Expires
  \/ \E r \in Requests :
       \/ Comes(r) \/ Refused(r) \/ Ingest(r) \/ AsksTurn(r) \/ AsksStream(r)
       \/ Emits(r) \/ EndsTurn(r) \/ TurnAnswered(r) \/ TurnOverdue(r)
       \/ Frame(r) \/ Disconnects(r) \/ StreamEnds(r) \/ StreamOverdue(r)

ApiSpec == ApiInit /\ [][ApiNext]_apiVars

-----------------------------------------------------------------------------

(* Requests a count stands for.                                               *)
Successes ==
  {r \in Requests : /\ request[r].phase = "over"
                    /\ IF request[r].route = "stream" THEN request[r].ending \in {"done", "error"}
                       ELSE request[r].route \in {"turn", "ingest"} /\ request[r].code = 200}

(* A reply, or the done event of a stream, tells of a turn that has ended     *)
(* well, and every event of it came first, in their order; a turn runs only   *)
(* for an accepted token and a body with text; a request is answered with a   *)
(* code its route is known for; and the count of successes is that of the     *)
(* replies, of the ingested pages and of the streams nobody cut off, those    *)
(* that ended in an error among them.                                         *)
ApiAnswersAreTrue ==
  /\ \A r \in Requests :
       LET q == request[r]
           t == turn[r] IN
       /\ (q.route = "turn" /\ q.code = 200) \/ q.ending = "done" =>
            t.state = "ended" /\ t.how = "reply"
       /\ q.ending = "done" => q.got = t.put
       /\ q.got <= t.put
       /\ t.state # "none" => Scoped(q) /\ q.body = "fine"
       /\ q.code # 0 => q.code \in Published[q.route] \cup Unpublished[q.route]
  /\ stats["ok"] = Cardinality(Successes)
=============================================================================
