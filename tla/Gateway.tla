------------------------------- MODULE Gateway -------------------------------
(***************************************************************************)
(* How messages reach turns: webhooks (sera/gateway/server.py and the      *)
(* parsers of gateway/platforms), the iMessage poller, the HTTP API        *)
(* (rpc/http_api.py), the dispatch they share (gateway/router.py) and the  *)
(* spend caps of llm/budget.py.                                            *)
(*                                                                         *)
(* Turns run on one event loop.  A lane is something that awaits one       *)
(* dispatch at a time: the consumer of the webhook queue, the poller, and  *)
(* each request of the API.  A step of a lane is what happens between two  *)
(* awaits.  What a turn does between its model calls is in AgentTurn.      *)
(***************************************************************************)
EXTENDS Integers, Sequences, FiniteSets

CONSTANTS
  Posts,        \* messages a platform posts to a webhook
  Texts,        \* messages in the iMessage database
  Requests,     \* requests to the HTTP API
  Streams,      \* those that ask for a stream of events
  Payload,      \* Payload[m]: the [platform, kind, signed] of a post or a text
  Users,
  From,         \* From[m]: who sent m
  None,
  SessionCap,   \* session_hard_usd
  DayCap,       \* day_hard_usd
  MaxCost,      \* the most that one call costs
  MaxCalls,     \* max_iterations: the calls of one turn
  PollLimit,    \* max_per_poll
  MaxRestarts,  \* bound: restarts of the process
  MaxExpiries   \* bound: times the session of a user gets too old, or is not found

Messages == Posts \cup Texts \cup Requests
Lanes == Requests \cup {"consumer", "poller"}

ASSUME MessagesAssumption ==
  /\ Streams \subseteq Requests /\ None \notin Messages
  /\ Posts \cap Texts = {} /\ Posts \cap Requests = {} /\ Texts \cap Requests = {}
  /\ {"consumer", "poller"} \cap Requests = {}
  /\ From \in [Messages -> Users]
ASSUME CapsAssumption == SessionCap \in Nat \ {0} /\ DayCap \in Nat \ {0} /\ MaxCost \in Nat
ASSUME FiniteRequests == IsFiniteSet(Requests)
ASSUME BoundsAssumption == MaxCalls \in Nat \ {0} /\ PollLimit \in Nat \ {0} /\ MaxRestarts \in Nat /\ MaxExpiries \in Nat

VARIABLES
  received,  \* messages that have been sent to the program
  queue,     \* the asyncio.Queue between the webhooks and Router.serve
  texts,     \* chat.db: the rows of the messages to the user
  cursor,    \* iMessageReader.last_rowid
  batch,     \* the rest of the events of the last poll
  running,   \* running[l]: the message whose dispatch lane l awaits
  at,        \* at[l]: the await where that dispatch is
  sid,       \* sid[l]: the session of the turn
  calls,     \* calls[l]: the model calls the turn has begun
  store,     \* store[u]: the session the resolver keeps for u, 0 when it is too old
  rows,      \* rows[s]: of each row of session s, the message whose turn wrote it
  spent,     \* what the enforcer has counted: [session, day]
  worker,    \* worker[m]: the HTTP thread of request m
  events,    \* events[m]: the queue between the turn of m and the thread that streams it
  tokens,    \* tokens[m]: [sent, seen] tokens of the stream of m
  restarts, expiries,
  outage,    \* whether the table of the day's spend cannot be read: not yet, "now", or it is "over"
  accepted,  \* history: the posts in the order of their answers 202
  times,     \* history: how often a message was dispatched
  silent     \* history: messages whose dispatch returned without on_response

inbox == <<received, queue, texts, cursor, batch>>
lane == <<running, at, sid, calls>>
memory == <<store, rows>>
http == <<worker, events, tokens>>
bounds == <<restarts, expiries, outage>>
history == <<accepted, times, silent>>
vars == <<inbox, lane, memory, spent, http, bounds, history>>

\* A process that has just started, with empty databases.
Fresh ==
  /\ queue = <<>> /\ texts = <<>> /\ cursor = 0 /\ batch = <<>>
  /\ running = [l \in Lanes |-> None]
  /\ at = [l \in Lanes |-> "idle"]
  /\ sid = [l \in Lanes |-> 0]
  /\ calls = [l \in Lanes |-> 0]
  /\ store = [u \in Users |-> 0]
  /\ rows = <<>>
  /\ spent = [session |-> 0, day |-> 0]
  /\ worker = [m \in Requests |-> "none"]
  /\ events = [m \in Requests |-> <<>>]
  /\ tokens = [m \in Requests |-> [sent |-> 0, seen |-> 0]]
  /\ accepted = <<>>
  /\ times = [m \in Messages |-> 0]
  /\ silent = {}

Init == Fresh /\ received = {} /\ restarts = 0 /\ expiries = 0 /\ outage = "none"

-----------------------------------------------------------------------------
(***************************************************************************)
(* What comes in.                                                          *)
(***************************************************************************)
\* Only Discord's webhook has a verifier: a fresh timestamp and a good signature.
Verified(p) == p.platform = "discord" => p.signed

\* The parsers: which payloads become events.
ParseTelegram(p) == p.kind \in {"text", "edited"}
ParseDiscord(p) == p.kind \in {"text", "slash"}
ParseSlack(p) == p.kind \in {"text", "slash", "button"}
ParseWhatsApp(p) == p.kind \in {"text", "own"}
ParseTwilio(p) == p.kind = "text"
Parse(p) ==
  \/ p.platform = "telegram" /\ ParseTelegram(p)
  \/ p.platform = "discord" /\ ParseDiscord(p)
  \/ p.platform = "slack" /\ ParseSlack(p)
  \/ p.platform = "whatsapp" /\ ParseWhatsApp(p)
  \/ p.platform = "twilio" /\ ParseTwilio(p)

\* A post is enqueued and answered 202.  What fails a check is answered 4xx.
Webhook(m) ==
  /\ m \in Posts \ received
  /\ Verified(Payload[m]) /\ Parse(Payload[m])
  /\ received' = received \cup {m}
  /\ queue' = Append(queue, m)
  /\ accepted' = Append(accepted, m)
  /\ UNCHANGED <<texts, cursor, batch, lane, memory, spent, http, bounds, times, silent>>

\* The rows _POLL_QUERY selects: no own messages, no tapbacks, no attachments.
Selected(p) == p.platform = "imessage" /\ p.kind = "text"
Text(m) ==
  /\ m \in Texts \ received
  /\ Selected(Payload[m])
  /\ received' = received \cup {m}
  /\ texts' = Append(texts, m)
  /\ UNCHANGED <<queue, cursor, batch, lane, memory, spent, http, bounds, history>>

\* Mutant of Poll: the cursor is not moved.
PollAgain ==
  /\ at["poller"] = "idle" /\ batch = <<>> /\ cursor < Len(texts)
  /\ batch' = SubSeq(texts, cursor + 1, Len(texts))
  /\ UNCHANGED <<received, queue, texts, cursor, lane, memory, spent, http, bounds, history>>

\* poll: the next rows, and the cursor behind them.  A database error polls nothing.
Poll ==
  LET last == IF cursor + PollLimit < Len(texts) THEN cursor + PollLimit ELSE Len(texts) IN
  /\ at["poller"] = "idle" /\ batch = <<>> /\ cursor < Len(texts)
  /\ batch' = SubSeq(texts, cursor + 1, last)
  /\ cursor' = last
  /\ UNCHANGED <<received, queue, texts, lane, memory, spent, http, bounds, history>>

-----------------------------------------------------------------------------
(***************************************************************************)
(* Who begins a dispatch.                                                  *)
(***************************************************************************)
\* Up to the await of the on_inbound hook, whose failure changes nothing.
Dispatch(l, m) ==
  /\ running' = [running EXCEPT ![l] = m]
  /\ at' = [at EXCEPT ![l] = "inbound"]
  /\ times' = [times EXCEPT ![m] = @ + 1]
  /\ UNCHANGED <<sid, calls, texts, cursor, memory, spent, bounds, accepted, silent>>

\* Mutant of Serve: the queue is a LifoQueue.
ServeLast ==
  /\ at["consumer"] = "idle" /\ queue # <<>>
  /\ Dispatch("consumer", queue[Len(queue)])
  /\ queue' = SubSeq(queue, 1, Len(queue) - 1)
  /\ UNCHANGED <<received, batch, http>>

\* Router.serve.
Serve ==
  /\ at["consumer"] = "idle" /\ queue # <<>>
  /\ Dispatch("consumer", Head(queue))
  /\ queue' = Tail(queue)
  /\ UNCHANGED <<received, batch, http>>

\* The loop of iMessagePoller.start.
NextText ==
  /\ at["poller"] = "idle" /\ batch # <<>>
  /\ Dispatch("poller", Head(batch))
  /\ batch' = Tail(batch)
  /\ UNCHANGED <<received, queue, http>>

\* A request's thread hands the dispatch to the loop and waits.
Request(m) ==
  /\ m \in Requests \ received
  /\ received' = received \cup {m}
  /\ Dispatch(m, m)
  /\ worker' = [worker EXCEPT ![m] = "waiting"]
  /\ UNCHANGED <<queue, batch, events, tokens>>

-----------------------------------------------------------------------------
(***************************************************************************)
(* The steps of a dispatch.                                                *)
(***************************************************************************)
\* Mutant of Blocked: the spend of the day is not looked up.
BlockedInSession == spent.session >= SessionCap

\* BudgetEnforcer.check, without the caps of single skills.  A spend of the day that
\* cannot be read counts as none.
Blocked == spent.session >= SessionCap \/ (spent.day >= DayCap /\ outage # "now")

\* Mutant of Return: the thread of a stream is told before it has drained the events.
ReturnAtOnce(l) ==
  /\ at' = [at EXCEPT ![l] = "idle"]
  /\ running' = [running EXCEPT ![l] = None]
  /\ sid' = [sid EXCEPT ![l] = 0]
  /\ calls' = [calls EXCEPT ![l] = 0]
  /\ worker' = [m \in Requests |-> IF m = l /\ worker[m] = "waiting" THEN "done" ELSE worker[m]]
  /\ UNCHANGED <<inbox, spent, events, accepted, times>>

\* dispatch is over: the lane goes on, and the future of a request is done.
Return(l) ==
  /\ at' = [at EXCEPT ![l] = "idle"]
  /\ running' = [running EXCEPT ![l] = None]
  /\ sid' = [sid EXCEPT ![l] = 0]
  /\ calls' = [calls EXCEPT ![l] = 0]
  /\ IF l \in Streams
     THEN events' = [events EXCEPT ![l] = Append(@, "end")] /\ UNCHANGED worker
     ELSE /\ worker' = [m \in Requests |-> IF m = l /\ worker[m] = "waiting" THEN "done" ELSE worker[m]]
          /\ UNCHANGED events
  /\ UNCHANGED <<inbox, spent, accepted, times>>

\* The early returns of dispatch: a cap is reached, or the profile has no model.
Early(l) ==
  /\ at[l] = "inbound"
  /\ Return(l)
  /\ silent' = silent \cup {running[l]}
  /\ UNCHANGED <<memory, tokens, bounds>>
Refuse(l) == Blocked /\ Early(l)
NoModel(l) == ~Blocked /\ Early(l)

\* The resolver: the session of the sender, or a new one.
Session(u) == IF store[u] = 0 THEN Len(rows) + 1 ELSE store[u]

\* When it fails, the turn gets a session of its own that nobody finds again.
Resolve(l, s) ==
  \/ /\ s = Session(From[running[l]])
     /\ store' = [store EXCEPT ![From[running[l]]] = s]
     /\ UNCHANGED bounds
  \/ /\ s = Len(rows) + 1 /\ expiries < MaxExpiries
     /\ expiries' = expiries + 1
     /\ UNCHANGED <<store, restarts, outage>>

\* The turn begins: it stores the user's row and calls the model.
Begin(l) ==
  /\ at[l] = "inbound" /\ ~Blocked
  /\ \E s \in 1..Len(rows) + 1 :
       /\ Resolve(l, s)
       /\ rows' = IF s > Len(rows) THEN Append(rows, <<running[l]>>)
                  ELSE [rows EXCEPT ![s] = Append(@, running[l])]
       /\ sid' = [sid EXCEPT ![l] = s]
  /\ at' = [at EXCEPT ![l] = "model"]
  /\ calls' = [calls EXCEPT ![l] = 1]
  /\ UNCHANGED <<inbox, running, spent, http, history>>

(* Reloading the skills raises: nothing in dispatch catches it, and        *)
(* neither does serve; the poller and the thread of a request do.          *)
Raise(l) ==
  /\ at[l] = "inbound" /\ ~Blocked
  /\ \E s \in 1..Len(rows) + 1 :
       /\ Resolve(l, s)
       /\ rows' = IF s > Len(rows) THEN Append(rows, <<>>) ELSE rows
  /\ IF l = "consumer"
     THEN /\ at' = [at EXCEPT ![l] = "ended"]
          /\ UNCHANGED <<inbox, running, sid, calls, spent, worker, events, accepted, times>>
     ELSE Return(l)
  /\ UNCHANGED <<tokens, silent>>

\* What a call cost is counted for the day and then for the session.  When
\* the row of the day cannot be written, it is counted for neither.
Count(c) ==
  \/ spent' = [session |-> spent.session + c, day |-> spent.day + c]
  \/ UNCHANGED spent

\* A model call ends: its text goes to the stream and to a row.  The tools that
\* the reply calls, if any, are awaited.
CallEnds(l) ==
  /\ at[l] = "model"
  /\ \E c \in 1..MaxCost : Count(c)
  /\ rows' = [rows EXCEPT ![sid[l]] = Append(@, running[l])]
  /\ \E a \in IF calls[l] < MaxCalls THEN {"tools", "reply"} ELSE {"reply"} : at' = [at EXCEPT ![l] = a]
  /\ IF l \in Streams
     THEN /\ events' = [events EXCEPT ![l] = Append(@, "token")]
          /\ tokens' = [tokens EXCEPT ![l].sent = @ + 1]
     ELSE UNCHANGED <<events, tokens>>
  /\ UNCHANGED <<inbox, running, sid, calls, store, worker, bounds, history>>

\* Mutant of NextCall: a turn that has reached a cap waits for the next day.
NextCallWaits(l) ==
  /\ at[l] = "tools" /\ ~Blocked
  /\ at' = [at EXCEPT ![l] = "model"]
  /\ calls' = [calls EXCEPT ![l] = @ + 1]
  /\ UNCHANGED <<inbox, running, sid, memory, spent, http, bounds, history>>

\* The tools are done: the next call, or an error when a cap is reached by now.
NextCall(l) ==
  /\ at[l] = "tools"
  /\ at' = [at EXCEPT ![l] = IF Blocked THEN "reply" ELSE "model"]
  /\ calls' = [calls EXCEPT ![l] = @ + 1]
  /\ UNCHANGED <<inbox, running, sid, memory, spent, http, bounds, history>>

\* The model fails: the turn ends with an error as its reply.
CallFails(l) ==
  /\ at[l] = "model"
  /\ at' = [at EXCEPT ![l] = "reply"]
  /\ UNCHANGED <<inbox, running, sid, calls, memory, spent, http, bounds, history>>

\* on_response has been called, and whether it failed or not, dispatch returns.
Reply(l) ==
  /\ at[l] = "reply"
  /\ Return(l)
  /\ UNCHANGED <<memory, tokens, bounds, silent>>

Step(l) ==
  \/ Refuse(l) \/ NoModel(l) \/ Begin(l) \/ Raise(l)
  \/ CallEnds(l) \/ NextCall(l) \/ CallFails(l) \/ Reply(l)

-----------------------------------------------------------------------------
(***************************************************************************)
(* The threads of the API.                                                 *)
(***************************************************************************)
\* make_streaming_bridge: the next event goes to the client.
StreamNext(m) ==
  /\ m \in Streams /\ worker[m] = "waiting" /\ events[m] # <<>>
  /\ events' = [events EXCEPT ![m] = Tail(@)]
  /\ IF Head(events[m]) = "end"
     THEN worker' = [worker EXCEPT ![m] = "done"] /\ UNCHANGED tokens
     ELSE tokens' = [tokens EXCEPT ![m].seen = @ + 1] /\ UNCHANGED worker
  /\ UNCHANGED <<inbox, lane, memory, spent, bounds, history>>

\* The wait for the future, or for the next event, is too long: the turn goes on.
Timeout(m) ==
  /\ worker[m] = "waiting"
  /\ m \in Streams => events[m] = <<>>
  /\ worker' = [worker EXCEPT ![m] = "timeout"]
  /\ UNCHANGED <<inbox, lane, memory, spent, events, tokens, bounds, history>>

\* The session of a user gets older than its TTL.
Expire(u) ==
  /\ expiries < MaxExpiries /\ store[u] # 0
  /\ expiries' = expiries + 1
  /\ store' = [store EXCEPT ![u] = 0]
  /\ UNCHANGED <<inbox, lane, rows, spent, http, restarts, outage, history>>

\* The database of the router's statistics cannot be read for a while.
Outage ==
  /\ \/ outage = "none" /\ outage' = "now"
     \/ outage = "now" /\ outage' = "over"
  /\ UNCHANGED <<inbox, lane, memory, spent, http, restarts, expiries, history>>

(* The process dies and starts again: what was in memory is gone.  The     *)
(* databases are there, and the poller begins at row 0.                    *)
Restart ==
  /\ restarts < MaxRestarts
  /\ restarts' = restarts + 1
  /\ queue' = <<>> /\ batch' = <<>> /\ cursor' = 0
  /\ running' = [l \in Lanes |-> None]
  /\ at' = [l \in Lanes |-> "idle"]
  /\ sid' = [l \in Lanes |-> 0]
  /\ calls' = [l \in Lanes |-> 0]
  /\ spent' = [spent EXCEPT !.session = 0]
  /\ worker' = [m \in Requests |-> IF worker[m] = "waiting" THEN "reset" ELSE worker[m]]
  /\ events' = [m \in Requests |-> <<>>]
  /\ UNCHANGED <<received, texts, memory, tokens, expiries, outage, history>>

Next ==
  \/ \E m \in Posts : Webhook(m)
  \/ \E m \in Texts : Text(m)
  \/ \E m \in Requests : Request(m) \/ StreamNext(m) \/ Timeout(m)
  \/ Poll \/ Serve \/ NextText \/ Restart \/ Outage
  \/ \E l \in Lanes : Step(l)
  \/ \E u \in Users : Expire(u)

Spec == Init /\ [][Next]_vars

(***************************************************************************)
(* The loop runs what is ready, and a thread of the API stops waiting.      *)
(* The turns of posts and texts end because the client of a provider       *)
(* gives up in the end; those of requests may hang.  Nobody has to send,   *)
(* and nothing has to fail.                                                *)
(***************************************************************************)
Fairness ==
  /\ WF_vars(Serve) /\ WF_vars(Poll) /\ WF_vars(NextText)
  /\ WF_vars(Step("consumer")) /\ WF_vars(Step("poller"))
  /\ \A m \in Requests : WF_vars(StreamNext(m)) /\ WF_vars(Timeout(m))

FairSpec == Spec /\ Fairness

-----------------------------------------------------------------------------
RangeOf(s) == {s[i] : i \in DOMAIN s}
Sids == 1..Len(rows)

\* Every variable has the values the program can give it.
TypeOK ==
  /\ received \subseteq Messages
  /\ queue \in Seq(Posts) /\ texts \in Seq(Texts) /\ batch \in Seq(Texts)
  /\ cursor \in 0..Len(texts)
  /\ running \in [Lanes -> Messages \cup {None}]
  /\ at \in [Lanes -> {"idle", "inbound", "model", "tools", "reply", "ended"}]
  /\ \A l \in Lanes : at[l] = "idle" <=> running[l] = None
  /\ sid \in [Lanes -> Nat] /\ calls \in [Lanes -> 0..MaxCalls]
  /\ \A l \in Lanes : at[l] \in {"model", "tools", "reply"} => sid[l] \in Sids
  /\ rows \in Seq(Seq(Messages)) /\ store \in [Users -> 0..Len(rows)]
  /\ spent \in [session : Nat, day : Nat]
  /\ worker \in [Requests -> {"none", "waiting", "done", "timeout", "reset"}]
  /\ events \in [Requests -> Seq({"token", "end"})]
  /\ tokens \in [Requests -> [sent : Nat, seen : Nat]]
  /\ restarts \in 0..MaxRestarts /\ expiries \in 0..MaxExpiries /\ outage \in {"none", "now", "over"}
  /\ accepted \in Seq(Posts) /\ times \in [Messages -> Nat] /\ silent \subseteq Messages

\* The caps are checked before a call and charged after it: the spend that is
\* counted goes past a cap by less than one call for each lane, that of the day
\* as long as it could be read.
OverspendIsBounded ==
  /\ spent.session < SessionCap + MaxCost * Cardinality(Lanes)
  /\ outage = "none" => spent.day < DayCap + MaxCost * Cardinality(Lanes)

(* A message is dispatched once, and a text again only after a restart.    *)
(* What was answered 202, or what the cursor has passed, is waiting until  *)
(* then: only a restart loses posts, and none loses texts.                 *)
EachMessageOnce ==
  /\ \A m \in Messages : times[m] <= IF m \in Texts THEN 1 + restarts ELSE 1
  /\ \A m \in RangeOf(accepted) : times[m] = 0 /\ restarts = 0 => m \in RangeOf(queue)
  /\ \A i \in 1..cursor : times[texts[i]] = 0 => texts[i] \in RangeOf(batch)

\* serve awaits each turn before it takes the next message: in a session, the
\* rows of the turns of posts are whole, and in the order of the answers 202.
PostedTurnsStayWhole ==
  \A s \in Sids : \A i, j \in DOMAIN accepted :
    \A k, n \in DOMAIN rows[s] :
      rows[s][k] = accepted[i] /\ rows[s][n] = accepted[j] /\ k < n => i <= j

\* Messages reach a session once and whole, from two threads, a poller and the
\* requests of the API, as long as the process lives.
MessagesAreServedWhole == EachMessageOnce /\ PostedTurnsStayWhole

\* A client that saw the end of its stream saw every token of the turn.
EndMeansAll == \A m \in Streams : worker[m] = "done" => tokens[m].seen = tokens[m].sent

\* A request is answered, in time or with an error, and an accepted post gets
\* its turn unless the consumer has ended.
NobodyWaitsForever ==
  /\ \A m \in Requests : worker[m] = "waiting" ~> worker[m] # "waiting"
  /\ \A m \in Posts : m \in RangeOf(queue) ~> (m \notin RangeOf(queue) \/ at["consumer"] = "ended")

\* router.py:126-127: on_response is called with the response after a dispatch.
HookFollowsDispatch == silent \cap (Posts \cup Texts) = {}
=============================================================================
