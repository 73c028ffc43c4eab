---------------------------- MODULE GatewayProofs ----------------------------
(***************************************************************************)
(* Proofs about Gateway for every set of messages and users, whoever sends *)
(* what, and for every cap, cost and bound.                                *)
(***************************************************************************)
EXTENDS Gateway, FiniteSetTheorems, TLAPS

\* A turn whose reply calls tools has a call left.
CallLeft == \A l \in Lanes : at[l] = "tools" => calls[l] < MaxCalls

LEMMA LaneKinds ==
  /\ Requests \subseteq Lanes /\ "consumer" \in Lanes /\ "poller" \in Lanes
  /\ "consumer" \notin Requests /\ "poller" \notin Requests
  /\ Posts \subseteq Messages /\ Texts \subseteq Messages /\ Requests \subseteq Messages
  /\ None \notin Messages
BY MessagesAssumption DEF Lanes, Messages

-----------------------------------------------------------------------------
(***************************************************************************)
(* Types.                                                                  *)
(***************************************************************************)
TypeInbox ==
  /\ received \subseteq Messages
  /\ queue \in Seq(Posts) /\ texts \in Seq(Texts) /\ batch \in Seq(Texts)
  /\ cursor \in 0..Len(texts)
TypeLane ==
  /\ running \in [Lanes -> Messages \cup {None}]
  /\ at \in [Lanes -> {"idle", "inbound", "model", "tools", "reply", "ended"}]
  /\ \A l \in Lanes : at[l] = "idle" <=> running[l] = None
  /\ sid \in [Lanes -> Nat] /\ calls \in [Lanes -> 0..MaxCalls]
TypeMemory ==
  /\ \A l \in Lanes : at[l] \in {"model", "tools", "reply"} => sid[l] \in Sids
  /\ rows \in Seq(Seq(Messages)) /\ store \in [Users -> 0..Len(rows)]
TypeHttp ==
  /\ worker \in [Requests -> {"none", "waiting", "done", "timeout", "reset"}]
  /\ events \in [Requests -> Seq({"token", "end"})]
  /\ tokens \in [Requests -> [sent : Nat, seen : Nat]]
TypeRest ==
  /\ spent \in [session : Nat, day : Nat]
  /\ restarts \in 0..MaxRestarts /\ expiries \in 0..MaxExpiries /\ outage \in {"none", "now", "over"}
  /\ accepted \in Seq(Posts) /\ times \in [Messages -> Nat] /\ silent \subseteq Messages

LEMMA TypeParts == TypeOK <=> TypeInbox /\ TypeLane /\ TypeMemory /\ TypeHttp /\ TypeRest
BY DEF TypeOK, TypeInbox, TypeLane, TypeMemory, TypeHttp, TypeRest

LEMMA SeqTail == ASSUME NEW S, NEW s \in Seq(S), s # <<>>
                 PROVE  Head(s) \in S /\ Tail(s) \in Seq(S) /\ Len(Tail(s)) = Len(s) - 1
OBVIOUS

LEMMA SeqPart ==
  ASSUME NEW S, NEW s \in Seq(S), NEW i \in 0..Len(s), NEW j \in i..Len(s)
  PROVE  /\ SubSeq(s, i + 1, j) \in Seq(S) /\ Len(SubSeq(s, i + 1, j)) = j - i
         /\ \A k \in 1..j - i : SubSeq(s, i + 1, j)[k] = s[i + k]
OBVIOUS

LEMMA SeqAdd == ASSUME NEW S, NEW s \in Seq(S), NEW x \in S
                PROVE  Append(s, x) \in Seq(S) /\ Len(Append(s, x)) = Len(s) + 1
OBVIOUS

LEMMA SeqSet == ASSUME NEW S, NEW s \in Seq(S), NEW i \in 1..Len(s), NEW x \in S
                PROVE  [s EXCEPT ![i] = x] \in Seq(S) /\ Len([s EXCEPT ![i] = x]) = Len(s)
OBVIOUS

LEMMA Empty == ASSUME NEW S, NEW x \in S PROVE <<>> \in Seq(S) /\ <<x>> \in Seq(S)
OBVIOUS

LEMMA OneMore ==
  ASSUME NEW t \in [sent : Nat, seen : Nat]
  PROVE  /\ [t EXCEPT !.sent = @ + 1] \in [sent : Nat, seen : Nat]
         /\ [t EXCEPT !.seen = @ + 1] \in [sent : Nat, seen : Nat]
         /\ [t EXCEPT !.sent = @ + 1].sent = t.sent + 1 /\ [t EXCEPT !.sent = @ + 1].seen = t.seen
         /\ [t EXCEPT !.seen = @ + 1].seen = t.seen + 1 /\ [t EXCEPT !.seen = @ + 1].sent = t.sent
OBVIOUS

\* What Poll does to the cursor.
LEMMA PollMoves ==
  ASSUME TypeOK, Poll
  PROVE  /\ cursor < cursor' /\ cursor' \in 1..Len(texts)
         /\ batch' \in Seq(Texts) /\ Len(batch') = cursor' - cursor
         /\ \A k \in 1..Len(batch') : batch'[k] = texts[cursor + k]
<1>1. /\ cursor < cursor' /\ cursor' \in 1..Len(texts) /\ batch' = SubSeq(texts, cursor + 1, cursor')
      /\ texts \in Seq(Texts) /\ cursor \in 0..Len(texts) /\ cursor' \in cursor..Len(texts)
  BY BoundsAssumption DEF Poll, TypeOK
<1>2. /\ SubSeq(texts, cursor + 1, cursor') \in Seq(Texts)
      /\ Len(SubSeq(texts, cursor + 1, cursor')) = cursor' - cursor
      /\ \A k \in 1..cursor' - cursor : SubSeq(texts, cursor + 1, cursor')[k] = texts[cursor + k]
  BY <1>1, SeqPart
<1> QED BY <1>1, <1>2

LEMMA InboxTypes == ASSUME TypeOK, Next PROVE TypeInbox'
<1>0. Poll => cursor' \in 0..Len(texts) /\ batch' \in Seq(Texts)
  BY PollMoves
<1> USE LaneKinds DEF TypeOK, TypeInbox
<1>1. ASSUME NEW m \in Posts, Webhook(m) PROVE TypeInbox'
  BY <1>1 DEF Webhook
<1>2. ASSUME NEW m \in Texts, Text(m) PROVE TypeInbox'
  BY <1>2 DEF Text
<1>3. CASE Poll
  <2>1. cursor' \in 0..Len(texts) /\ batch' \in Seq(Texts)
    BY <1>0, <1>3
  <2>2. UNCHANGED <<received, queue, texts>>
    BY <1>3 DEF Poll
  <2> QED BY <2>1, <2>2
<1>4. CASE Serve \/ NextText
  <2>1. CASE Serve
    <3>1. Tail(queue) \in Seq(Posts)
      BY <2>1, SeqTail DEF Serve
    <3> QED BY <2>1, <3>1 DEF Serve, Dispatch
  <2>2. CASE NextText
    <3>1. Tail(batch) \in Seq(Texts)
      BY <2>2, SeqTail DEF NextText
    <3> QED BY <2>2, <3>1 DEF NextText, Dispatch
  <2> QED BY <1>4, <2>1, <2>2
<1>5. CASE Restart
  BY <1>5 DEF Restart
<1>6. ASSUME NEW m \in Requests, Request(m) PROVE TypeInbox'
  BY <1>6 DEF Request, Dispatch
<1>7. CASE \/ \E m \in Requests : StreamNext(m) \/ Timeout(m)
           \/ \E l \in Lanes : Step(l)
           \/ Outage
           \/ \E u \in Users : Expire(u)
  BY <1>7 DEF StreamNext, Timeout, Step, Expire, Outage, Refuse, NoModel, Early, Begin, Raise, CallEnds, NextCall, CallFails,
              Reply, Return, inbox
<1> QED BY <1>1, <1>2, <1>3, <1>4, <1>5, <1>6, <1>7 DEF Next

LEMMA LaneTypes == ASSUME TypeOK, CallLeft, Next PROVE TypeLane' /\ CallLeft'
<1>0. /\ TypeLane /\ CallLeft
      /\ queue # <<>> => Head(queue) \in Messages
      /\ batch # <<>> => Head(batch) \in Messages
  BY LaneKinds, SeqTail DEF TypeOK, TypeLane
<1> USE <1>0, LaneKinds, BoundsAssumption DEF TypeLane, CallLeft
<1>1. ASSUME NEW l \in Lanes, NEW m \in Messages, Dispatch(l, m) PROVE TypeLane' /\ CallLeft'
  BY <1>1 DEF Dispatch
<1>2. ASSUME NEW l \in Lanes, Return(l) PROVE TypeLane' /\ CallLeft'
  <2>1. /\ at' = [at EXCEPT ![l] = "idle"] /\ running' = [running EXCEPT ![l] = None]
        /\ sid' = [sid EXCEPT ![l] = 0] /\ calls' = [calls EXCEPT ![l] = 0]
    BY <1>2 DEF Return
  <2> QED BY <2>1
<1>3. ASSUME NEW l \in Lanes, Begin(l) PROVE TypeLane' /\ CallLeft'
  <2>1. PICK s \in 1..Len(rows) + 1 : sid' = [sid EXCEPT ![l] = s]
    BY <1>3 DEF Begin
  <2>2. /\ at[l] = "inbound" /\ at' = [at EXCEPT ![l] = "model"]
        /\ calls' = [calls EXCEPT ![l] = 1] /\ UNCHANGED running
    BY <1>3 DEF Begin
  <2> QED BY <2>1, <2>2
<1>4. ASSUME NEW l \in Lanes, Raise(l), l = "consumer" PROVE TypeLane' /\ CallLeft'
  BY <1>4 DEF Raise
<1>5. ASSUME NEW l \in Lanes, CallEnds(l) PROVE TypeLane' /\ CallLeft'
  BY <1>5 DEF CallEnds
<1>6. ASSUME NEW l \in Lanes, NextCall(l) \/ CallFails(l) PROVE TypeLane' /\ CallLeft'
  <2>1. CASE NextCall(l)
    <3>1. PICK a \in {"reply", "model"} : at' = [at EXCEPT ![l] = a]
      BY <2>1 DEF NextCall
    <3> QED BY <2>1, <3>1 DEF NextCall
  <2>2. CASE CallFails(l)
    BY <2>2 DEF CallFails
  <2> QED BY <1>6, <2>1, <2>2
<1>7. CASE Restart
  BY <1>7 DEF Restart
<1>8. CASE UNCHANGED lane
  BY <1>8 DEF lane
<1>9. \/ UNCHANGED lane \/ Restart
      \/ \E l \in Lanes : \/ \E m \in Messages : Dispatch(l, m)
                          \/ Return(l) \/ Begin(l) \/ (Raise(l) /\ l = "consumer")
                          \/ CallEnds(l) \/ NextCall(l) \/ CallFails(l)
  <2>1. CASE Serve \/ NextText
    BY <2>1 DEF Serve, NextText
  <2>2. CASE \E m \in Requests : Request(m)
    BY <2>2 DEF Request
  <2>3. CASE \E l \in Lanes : Step(l)
    BY <2>3 DEF Step, Refuse, NoModel, Early, Raise, Reply
  <2> QED BY <2>1, <2>2, <2>3 DEF Next, Webhook, Text, StreamNext, Timeout, Poll, Expire, Outage
<1> QED BY <1>1, <1>2, <1>3, <1>4, <1>5, <1>6, <1>7, <1>8, <1>9

LEMMA MemoryTypes == ASSUME TypeOK, Next PROVE TypeMemory'
<1> DEFINE Rows == rows' \in Seq(Seq(Messages)) /\ Len(rows') >= Len(rows)
           Store == store' \in [Users -> 0..Len(rows')]
           Found(k) == at'[k] \in {"model", "tools", "reply"} => sid'[k] \in 1..Len(rows')
<1>0. /\ rows \in Seq(Seq(Messages)) /\ Len(rows) \in Nat /\ store \in [Users -> 0..Len(rows)]
      /\ \A k \in Lanes : at[k] \in {"model", "tools", "reply"} => sid[k] \in 1..Len(rows)
      /\ at \in [Lanes -> {"idle", "inbound", "model", "tools", "reply", "ended"}] /\ sid \in [Lanes -> Nat]
      /\ \A k \in Lanes : at[k] # "idle" => running[k] \in Messages
  BY DEF TypeOK, Sids
<1>1. ASSUME NEW l \in Lanes, Begin(l) \/ Raise(l) PROVE Rows /\ Store /\ \A k \in Lanes : Found(k)
  <2>1. PICK s \in 1..Len(rows) + 1 :
          /\ Resolve(l, s)
          /\ \/ rows' = IF s > Len(rows) THEN Append(rows, <<running[l]>>)
                        ELSE [rows EXCEPT ![s] = Append(rows[s], running[l])]
             \/ rows' = IF s > Len(rows) THEN Append(rows, <<>>) ELSE rows
          /\ Begin(l) => sid' = [sid EXCEPT ![l] = s]
    BY <1>1 DEF Begin, Raise
  <2>2. running[l] \in Messages
    BY <1>0, <1>1 DEF Begin, Raise
  <2>3. rows' \in Seq(Seq(Messages)) /\ Len(rows') \in {Len(rows), Len(rows) + 1} /\ s \in 1..Len(rows')
    <3>1. CASE s > Len(rows)
      <4>1. <<running[l]>> \in Seq(Messages) /\ <<>> \in Seq(Messages)
        BY <2>2, Empty
      <4>2. s = Len(rows) + 1
        BY <1>0, <3>1
      <4>3. /\ Append(rows, <<running[l]>>) \in Seq(Seq(Messages)) /\ Len(Append(rows, <<running[l]>>)) = Len(rows) + 1
            /\ Append(rows, <<>>) \in Seq(Seq(Messages)) /\ Len(Append(rows, <<>>)) = Len(rows) + 1
        BY <1>0, <4>1, SeqAdd
      <4> HIDE <1>0
      <4>4. rows' = Append(rows, <<running[l]>>) \/ rows' = Append(rows, <<>>)
        BY <2>1, <3>1
      <4>5. Len(rows) \in Nat
        BY <1>0
      <4> QED BY <4>2, <4>3, <4>4, <4>5
    <3>2. CASE ~(s > Len(rows))
      <4>1. s \in 1..Len(rows) /\ rows[s] \in Seq(Messages)
        BY <1>0, <3>2
      <4>2. Append(rows[s], running[l]) \in Seq(Messages)
        BY <2>2, <4>1, SeqAdd
      <4>3. /\ [rows EXCEPT ![s] = Append(rows[s], running[l])] \in Seq(Seq(Messages))
            /\ Len([rows EXCEPT ![s] = Append(rows[s], running[l])]) = Len(rows)
        BY <1>0, <4>1, <4>2, SeqSet
      <4>4. rows' = rows \/ rows' = [rows EXCEPT ![s] = Append(rows[s], running[l])]
        BY <2>1, <3>2
      <4> QED BY <1>0, <4>1, <4>3, <4>4
    <3> QED BY <3>1, <3>2
  <2>4. From[running[l]] \in Users
    BY <2>2, MessagesAssumption
  <2>5. Store
    <3>1. store' = store \/ store' = [store EXCEPT ![From[running[l]]] = s]
      BY <2>1 DEF Resolve
    <3>2. s \in 0..Len(rows') /\ \A u \in Users : store[u] \in 0..Len(rows')
      BY <1>0, <2>3
    <3> QED BY <1>0, <2>4, <3>1, <3>2
  <2>6. ASSUME NEW k \in Lanes, at'[k] \in {"model", "tools", "reply"} PROVE sid'[k] \in 1..Len(rows')
    <3>1. \/ k = l /\ sid'[k] = s
          \/ at'[k] = at[k] /\ sid'[k] = sid[k]
      BY <1>0, <1>1, <2>1, <2>6 DEF Begin, Raise, Return
    <3> QED BY <1>0, <2>3, <2>6, <3>1
  <2> QED BY <1>0, <2>3, <2>5, <2>6
<1>2. ASSUME NEW l \in Lanes, CallEnds(l) PROVE Rows /\ Store /\ \A k \in Lanes : Found(k)
  <2>1. sid[l] \in 1..Len(rows) /\ running[l] \in Messages /\ rows' = [rows EXCEPT ![sid[l]] = Append(rows[sid[l]], running[l])]
    BY <1>0, <1>2 DEF CallEnds
  <2>2. rows[sid[l]] \in Seq(Messages)
    BY <1>0, <2>1
  <2>3. Append(rows[sid[l]], running[l]) \in Seq(Messages)
    BY <2>1, <2>2, SeqAdd
  <2>4. rows' \in Seq(Seq(Messages)) /\ Len(rows') = Len(rows)
    BY <1>0, <2>1, <2>3, SeqSet
  <2>5. store' = store /\ sid' = sid /\ \A k \in Lanes : k # l => at'[k] = at[k]
    BY <1>0, <1>2 DEF CallEnds
  <2> QED BY <1>0, <2>1, <2>4, <2>5
<1>3. ASSUME UNCHANGED memory,
             \A k \in Lanes : \/ at'[k] \in {"idle", "inbound"}
                              \/ sid'[k] = sid[k] /\ at[k] \in {at'[k], "model", "tools"}
      PROVE Rows /\ Store /\ \A k \in Lanes : Found(k)
  BY <1>0, <1>3 DEF memory
<1>4. ASSUME NEW u \in Users, Expire(u) PROVE Rows /\ Store /\ \A k \in Lanes : Found(k)
  BY <1>0, <1>4 DEF Expire, lane
<1>5. \/ \E u \in Users : Expire(u)
      \/ \E l \in Lanes : Begin(l) \/ Raise(l) \/ CallEnds(l)
      \/ /\ UNCHANGED memory
         /\ \A k \in Lanes : \/ at'[k] \in {"idle", "inbound"}
                             \/ sid'[k] = sid[k] /\ at[k] \in {at'[k], "model", "tools"}
  <2>1. CASE Serve \/ NextText
    BY <1>0, <2>1, LaneKinds DEF Serve, NextText, Dispatch
  <2>2. CASE \E m \in Requests : Request(m)
    BY <1>0, <2>2, LaneKinds DEF Request, Dispatch
  <2>3. CASE \E l \in Lanes : Step(l)
    BY <1>0, <2>3 DEF Step, Refuse, NoModel, Early, Return, Reply, NextCall, CallFails, memory
  <2>4. CASE Restart
    BY <1>0, <2>4 DEF Restart
  <2>5. CASE UNCHANGED <<lane, memory>>
    BY <2>5 DEF lane
  <2> QED BY <2>1, <2>2, <2>3, <2>4, <2>5 DEF Next, Webhook, Text, StreamNext, Timeout, Poll, Outage
<1>6. Rows /\ Store /\ \A k \in Lanes : Found(k)
  BY <1>1, <1>2, <1>3, <1>4, <1>5
<1> QED BY <1>6 DEF TypeMemory, Sids

LEMMA EventTypes == ASSUME TypeOK, Next PROVE TypeHttp'
<1>0. TypeHttp
  BY DEF TypeOK, TypeHttp
<1> USE <1>0, LaneKinds DEF TypeHttp
<1>1. ASSUME NEW l \in Lanes, Return(l), UNCHANGED tokens PROVE TypeHttp'
  <2>1. worker' \in [Requests -> {"none", "waiting", "done", "timeout", "reset"}]
    BY <1>1 DEF Return
  <2>2. events' \in [Requests -> Seq({"token", "end"})]
    <3>1. CASE l \in Streams
      <4>1. l \in Requests /\ Append(events[l], "end") \in Seq({"token", "end"})
        BY <3>1, MessagesAssumption
      <4> QED BY <1>1, <3>1, <4>1 DEF Return
    <3>2. CASE l \notin Streams
      BY <1>1, <3>2 DEF Return
    <3> QED BY <3>1, <3>2
  <2> QED BY <1>1, <2>1, <2>2
<1>2. ASSUME NEW l \in Lanes, CallEnds(l) PROVE TypeHttp'
  <2>1. CASE l \in Streams
    <3>1. l \in Requests /\ Append(events[l], "token") \in Seq({"token", "end"})
      BY <2>1, MessagesAssumption
    <3>2. [tokens[l] EXCEPT !.sent = @ + 1] \in [sent : Nat, seen : Nat]
      BY <3>1, OneMore
    <3>3. /\ events' = [events EXCEPT ![l] = Append(events[l], "token")] /\ UNCHANGED worker
          /\ tokens' = [tokens EXCEPT ![l] = [tokens[l] EXCEPT !.sent = @ + 1]]
      BY <1>2, <2>1 DEF CallEnds
    <3> QED BY <3>1, <3>2, <3>3
  <2>2. CASE l \notin Streams
    BY <1>2, <2>2 DEF CallEnds
  <2> QED BY <2>1, <2>2
<1>3. ASSUME NEW m \in Requests, StreamNext(m) PROVE TypeHttp'
  <2>1. Tail(events[m]) \in Seq({"token", "end"})
    BY <1>3, SeqTail DEF StreamNext
  <2>2. [tokens[m] EXCEPT !.seen = @ + 1] \in [sent : Nat, seen : Nat]
    BY OneMore
  <2>3. worker' \in [Requests -> {"none", "waiting", "done", "timeout", "reset"}]
    BY <1>3 DEF StreamNext
  <2>4. events' \in [Requests -> Seq({"token", "end"})]
    BY <1>3, <2>1 DEF StreamNext
  <2>5. tokens' = tokens \/ tokens' = [tokens EXCEPT ![m] = [tokens[m] EXCEPT !.seen = @ + 1]]
    BY <1>3 DEF StreamNext
  <2>6. tokens' \in [Requests -> [sent : Nat, seen : Nat]]
    <3>1. tokens \in [Requests -> [sent : Nat, seen : Nat]]
      OBVIOUS
    <3> QED BY ONLY <2>2, <2>5, <3>1
  <2> QED BY <2>3, <2>4, <2>6
<1>4. ASSUME NEW m \in Requests, Request(m) \/ Timeout(m) PROVE TypeHttp'
  BY <1>4 DEF Request, Timeout
<1>5. CASE Restart
  BY <1>5 DEF Restart
<1>6. CASE UNCHANGED http
  BY <1>6 DEF http
<1>7. \/ UNCHANGED http \/ Restart
      \/ \E m \in Requests : Request(m) \/ Timeout(m) \/ StreamNext(m)
      \/ \E l \in Lanes : (Return(l) /\ UNCHANGED tokens) \/ CallEnds(l)
  <2>1. CASE \E l \in Lanes : Step(l)
    BY <2>1 DEF Step, Refuse, NoModel, Early, Reply, Begin, Raise, NextCall, CallFails, http
  <2> QED BY <2>1 DEF Next, Webhook, Text, Poll, Serve, NextText, Expire, Outage, http
<1> QED BY <1>1, <1>2, <1>3, <1>4, <1>5, <1>6, <1>7

\* What is counted, by whom.
LEMMA SpendMoves ==
  ASSUME TypeOK, Next
  PROVE  \/ spent' = spent
         \/ Restart /\ spent' = [spent EXCEPT !.session = 0]
         \/ \E l \in Lanes, c \in 1..MaxCost :
              CallEnds(l) /\ spent' = [session |-> spent.session + c, day |-> spent.day + c]
<1>1. CASE \E l \in Lanes : Step(l)
  BY <1>1 DEF Step, Refuse, NoModel, Early, Return, Reply, NextCall, CallFails, Begin, Raise, CallEnds, Count
<1>2. CASE \E m \in Requests : Request(m)
  BY <1>2 DEF Request, Dispatch
<1>3. CASE Serve \/ NextText
  BY <1>3 DEF Serve, NextText, Dispatch
<1>4. CASE Restart
  BY <1>4 DEF Restart
<1> QED BY <1>1, <1>2, <1>3, <1>4 DEF Next, Webhook, Text, StreamNext, Timeout, Poll, Expire, Outage

LEMMA RestTypes == ASSUME TypeOK, Next PROVE TypeRest'
<1>0. /\ TypeRest /\ CapsAssumption /\ BoundsAssumption
      /\ \A l \in Lanes : at[l] # "idle" => running[l] \in Messages
  BY CapsAssumption, BoundsAssumption DEF TypeOK, TypeRest
<1>1. spent' \in [session : Nat, day : Nat]
  <2>1. /\ spent.session \in Nat /\ spent.day \in Nat
        /\ [spent EXCEPT !.session = 0] \in [session : Nat, day : Nat]
    BY <1>0 DEF TypeRest
  <2> QED BY SMTT(30), <1>0, <2>1, SpendMoves DEF TypeRest, CapsAssumption
<1> USE DEF TypeRest
<1>2. restarts' \in 0..MaxRestarts /\ expiries' \in 0..MaxExpiries /\ outage' \in {"none", "now", "over"}
  <2>1. CASE \E l \in Lanes : Step(l)
    BY SMTT(30), <1>0, <2>1 DEF Step, Refuse, NoModel, Early, Reply, NextCall, CallFails, Begin, Raise, CallEnds, Resolve,
                      bounds, BoundsAssumption
  <2>2. CASE Serve \/ NextText \/ \E m \in Requests : Request(m)
    BY <1>0, <2>2 DEF Serve, NextText, Request, Dispatch, bounds
  <2>3. CASE Restart \/ Outage \/ \E u \in Users : Expire(u)
    BY <1>0, <2>3 DEF Restart, Outage, Expire, BoundsAssumption
  <2> QED BY <1>0, <2>1, <2>2, <2>3 DEF Next, Webhook, Text, StreamNext, Timeout, Poll, bounds
<1>3. accepted' \in Seq(Posts) /\ times' \in [Messages -> Nat] /\ silent' \subseteq Messages
  <2>1. CASE \E l \in Lanes : Step(l)
    BY <1>0, <2>1 DEF Step, Refuse, NoModel, Early, Reply, Return, NextCall, CallFails, Begin, Raise, CallEnds, history
  <2>2. ASSUME NEW l \in Lanes, NEW m \in Messages, Dispatch(l, m)
        PROVE  accepted' \in Seq(Posts) /\ times' \in [Messages -> Nat] /\ silent' \subseteq Messages
    BY <1>0, <2>2 DEF Dispatch
  <2>3. CASE Serve \/ NextText
    BY <2>2, <2>3, SeqTail, LaneKinds DEF Serve, NextText, TypeOK
  <2>4. CASE \E m \in Requests : Request(m)
    BY <2>2, <2>4, LaneKinds DEF Request
  <2>5. ASSUME NEW m \in Posts, Webhook(m)
        PROVE  accepted' \in Seq(Posts) /\ times' \in [Messages -> Nat] /\ silent' \subseteq Messages
    <3>1. Append(accepted, m) \in Seq(Posts)
      BY <1>0, SeqAdd
    <3> QED BY <1>0, <2>5, <3>1 DEF Webhook
  <2> QED BY <1>0, <2>1, <2>3, <2>4, <2>5 DEF Next, Text, StreamNext, Timeout, Poll, Restart, Expire, Outage, history
<1> QED BY <1>1, <1>2, <1>3

LEMMA InitTypes == Init => TypeOK /\ CallLeft
<1> SUFFICES ASSUME Init PROVE TypeOK /\ CallLeft
  OBVIOUS
<1>1. \A S : <<>> \in Seq(S)
  OBVIOUS
<1>2. Len(<<>>) = 0
  OBVIOUS
<1>3. TypeInbox
  BY <1>1, <1>2 DEF Init, Fresh, TypeInbox
<1>4. TypeLane /\ CallLeft
  BY BoundsAssumption DEF Init, Fresh, TypeLane, CallLeft
<1>5. TypeMemory
  BY <1>1, <1>2 DEF Init, Fresh, TypeMemory
<1>6. TypeHttp
  BY <1>1 DEF Init, Fresh, TypeHttp
<1>7. TypeRest
  BY <1>1, BoundsAssumption DEF Init, Fresh, TypeRest
<1> QED BY <1>3, <1>4, <1>5, <1>6, <1>7, TypeParts

LEMMA TypeStep == TypeOK /\ CallLeft /\ [Next]_vars => TypeOK' /\ CallLeft'
<1> SUFFICES ASSUME TypeOK, CallLeft, [Next]_vars PROVE TypeOK' /\ CallLeft'
  OBVIOUS
<1>1. CASE Next
  <2>1. TypeInbox' /\ TypeLane' /\ TypeMemory' /\ TypeHttp' /\ TypeRest' /\ CallLeft'
    BY <1>1, InboxTypes, LaneTypes, MemoryTypes, EventTypes, RestTypes
  <2> QED BY <2>1 DEF TypeOK, TypeInbox, TypeLane, TypeMemory, TypeHttp, TypeRest
<1>2. CASE UNCHANGED vars
  BY <1>2 DEF vars, inbox, lane, memory, http, bounds, history, TypeOK, CallLeft, Sids
<1> QED BY <1>1, <1>2

\* The types of Gateway hold: among others, the turn of every lane that is past
\* the resolver (router.py:199-210) works on a session that exists.
THEOREM GatewayTypes == Spec => []TypeOK
<1>1. Spec => [](TypeOK /\ CallLeft)
  BY InitTypes, TypeStep, PTL DEF Spec
<1> QED BY <1>1, PTL

-----------------------------------------------------------------------------
(***************************************************************************)
(* Spend.                                                                  *)
(***************************************************************************)
InFlight == {l \in Lanes : at[l] = "model"}

\* The calls that are on their way have room below the bound.
Charged ==
  /\ spent.session + MaxCost * Cardinality(InFlight) < SessionCap + MaxCost * Cardinality(Lanes)
  /\ outage = "none" => spent.day + MaxCost * Cardinality(InFlight) < DayCap + MaxCost * Cardinality(Lanes)

LEMMA LanesAreFew == IsFiniteSet(Lanes) /\ Cardinality(Lanes) \in Nat
<1>1. IsFiniteSet({"consumer"} \cup {"poller"})
  BY FS_Singleton, FS_Union
<1>2. Lanes = Requests \cup ({"consumer"} \cup {"poller"})
  BY DEF Lanes
<1> QED BY <1>1, <1>2, FiniteRequests, FS_Union, FS_CardinalityType

LEMMA Times == ASSUME NEW a \in Nat, NEW b \in Nat, a <= b
               PROVE  /\ MaxCost * a \in Nat /\ MaxCost * a <= MaxCost * b
                      /\ a # b => MaxCost * a + MaxCost <= MaxCost * b
<1>1. MaxCost \in Nat
  BY CapsAssumption
<1>2. PICK d \in Nat : b = a + d
  <2>1. b - a \in Nat /\ b = a + (b - a)
    OBVIOUS
  <2> QED BY <2>1
<1>3. MaxCost * b = MaxCost * a + MaxCost * d /\ MaxCost * d \in Nat /\ MaxCost * a \in Nat
  BY <1>1, <1>2
<1>4. a # b => MaxCost * d >= MaxCost
  <2>1. d # 0 => MaxCost * d = MaxCost + MaxCost * (d - 1) /\ MaxCost * (d - 1) \in Nat
    BY <1>1
  <2> QED BY <1>1, <1>2, <1>3, <2>1
<1> QED BY <1>1, <1>3, <1>4

\* Which lanes have a call on its way after a step.
LEMMA FlightMoves ==
  ASSUME TypeOK, Next
  PROVE  \/ InFlight' \subseteq InFlight
         \/ UNCHANGED spent /\ ~Blocked
<1> USE DEF TypeOK, InFlight
<1>1. ASSUME NEW l \in Lanes, Step(l) PROVE InFlight' \subseteq InFlight \/ (UNCHANGED spent /\ ~Blocked)
  <2>1. CASE Begin(l)
    BY <2>1 DEF Begin
  <2>2. CASE NextCall(l)
    BY <2>2 DEF NextCall
  <2>3. CASE Refuse(l) \/ NoModel(l) \/ Raise(l) \/ CallEnds(l) \/ CallFails(l) \/ Reply(l)
    BY <2>3 DEF Refuse, NoModel, Early, Return, Raise, CallEnds, CallFails, Reply
  <2> QED BY <1>1, <2>1, <2>2, <2>3 DEF Step
<1>2. CASE Serve \/ NextText \/ \E m \in Requests : Request(m)
  BY <1>2, LaneKinds DEF Serve, NextText, Request, Dispatch
<1>3. CASE Restart
  BY <1>3 DEF Restart
<1>4. CASE UNCHANGED at
  BY <1>4
<1> QED BY <1>1, <1>2, <1>3, <1>4 DEF Next, Webhook, Text, StreamNext, Timeout, Poll, Expire, Outage, lane

LEMMA OutageStarts == ASSUME Next, outage' = "none" PROVE outage = "none"
<1>1. CASE \E l \in Lanes : Step(l)
  BY <1>1 DEF Step, Refuse, NoModel, Early, Return, Reply, NextCall, CallFails, Begin, Resolve, Raise, CallEnds, bounds
<1>2. CASE Serve \/ NextText \/ \E m \in Requests : Request(m)
  BY <1>2 DEF Serve, NextText, Request, Dispatch, bounds
<1> QED BY <1>1, <1>2 DEF Next, Webhook, Text, StreamNext, Timeout, Poll, Expire, Outage, Restart, bounds

LEMMA SpendStep == ASSUME TypeOK, Charged, Next PROVE Charged'
<1> DEFINE n == Cardinality(Lanes)
           f == Cardinality(InFlight)
           g == Cardinality(InFlight')
<1>0. /\ InFlight \subseteq Lanes /\ InFlight' \subseteq Lanes
      /\ spent \in [session : Nat, day : Nat] /\ SessionCap \in Nat /\ DayCap \in Nat /\ MaxCost \in Nat
  BY CapsAssumption DEF InFlight, TypeOK
<1>1. IsFiniteSet(InFlight) /\ IsFiniteSet(InFlight') /\ n \in Nat /\ f \in Nat /\ g \in Nat /\ f <= n /\ g <= n
  BY <1>0, LanesAreFew, FS_Subset, FS_CardinalityType
<1>2. /\ MaxCost * f \in Nat /\ MaxCost * g \in Nat /\ MaxCost * n \in Nat
      /\ MaxCost * g <= MaxCost * n
      /\ g <= f => MaxCost * g <= MaxCost * f
      /\ g < f => MaxCost * g + MaxCost <= MaxCost * f
  BY <1>1, Times
<1>3. /\ spent.session + MaxCost * f < SessionCap + MaxCost * n
      /\ outage = "none" => spent.day + MaxCost * f < DayCap + MaxCost * n
  BY DEF Charged
<1>4. spent.session \in Nat /\ spent.day \in Nat
  BY <1>0
<1> HIDE DEF n, f, g
<1>5. SUFFICES /\ spent'.session + MaxCost * g < SessionCap + MaxCost * n
               /\ outage = "none" => spent'.day + MaxCost * g < DayCap + MaxCost * n
  <2>1. outage' = "none" => outage = "none"
    BY OutageStarts
  <2> QED BY <2>1 DEF Charged, g, n
<1>6. CASE UNCHANGED spent /\ ~Blocked
  BY <1>0, <1>2, <1>4, <1>6 DEF Blocked
<1>7. CASE InFlight' \subseteq InFlight
  <2>1. g <= f
    BY <1>1, <1>7, FS_Subset DEF g, f
  <2>2. CASE spent' = spent
    BY <1>0, <1>2, <1>3, <1>4, <2>1, <2>2
  <2>3. CASE spent' = [spent EXCEPT !.session = 0]
    <3>1. spent'.session = 0 /\ spent'.day = spent.day
      BY <1>0, <2>3
    <3> QED BY <1>0, <1>2, <1>3, <1>4, <2>1, <3>1
  <2>4. ASSUME NEW l \in Lanes, NEW c \in 1..MaxCost, CallEnds(l),
               spent' = [session |-> spent.session + c, day |-> spent.day + c]
        PROVE  /\ spent'.session + MaxCost * g < SessionCap + MaxCost * n
               /\ outage = "none" => spent'.day + MaxCost * g < DayCap + MaxCost * n
    <3>1. l \in InFlight /\ l \notin InFlight'
      BY <2>4 DEF CallEnds, InFlight, TypeOK
    <3>2. InFlight' # InFlight
      BY <3>1
    <3>3. g # f
      BY <1>1, <1>7, <3>2, FS_Subset DEF g, f
    <3>4. MaxCost * g + MaxCost <= MaxCost * f
      BY <1>1, <1>2, <2>1, <3>3
    <3>5. spent'.session = spent.session + c /\ spent'.day = spent.day + c /\ c \in Nat /\ c <= MaxCost
      BY <1>0, <2>4
    <3> QED BY <1>0, <1>2, <1>3, <1>4, <3>4, <3>5
  <2> QED BY <2>2, <2>3, <2>4, SpendMoves
<1> QED BY <1>6, <1>7, FlightMoves

\* BudgetEnforcer.check stands before a call (router.py:174, loop.py:229) and
\* add behind it: past a cap there is less than one call for each lane.
THEOREM SpendIsBounded == Spec => []OverspendIsBounded
<1>1. Init => Charged
  <2> SUFFICES ASSUME Init PROVE Charged
    OBVIOUS
  <2>1. InFlight = {} /\ spent.session = 0 /\ spent.day = 0
    BY DEF Init, Fresh, InFlight
  <2>2. Cardinality(InFlight) = 0
    BY <2>1, FS_EmptySet
  <2>3. MaxCost * Cardinality(Lanes) \in Nat /\ MaxCost * 0 = 0
    BY LanesAreFew, CapsAssumption
  <2> QED BY <2>1, <2>2, <2>3, CapsAssumption DEF Charged
<1>2. TypeOK /\ CallLeft /\ Charged /\ [Next]_vars => Charged'
  <2>1. UNCHANGED vars /\ Charged => Charged'
    BY DEF vars, lane, bounds, Charged, InFlight
  <2> QED BY <2>1, SpendStep
<1>3. TypeOK /\ Charged => OverspendIsBounded
  <2> SUFFICES ASSUME TypeOK, Charged PROVE OverspendIsBounded
    OBVIOUS
  <2>1. InFlight \subseteq Lanes /\ spent.session \in Nat /\ spent.day \in Nat
    BY DEF InFlight, TypeOK
  <2>2. Cardinality(InFlight) \in Nat /\ Cardinality(InFlight) <= Cardinality(Lanes) /\ Cardinality(Lanes) \in Nat
    BY <2>1, LanesAreFew, FS_Subset, FS_CardinalityType
  <2>3. MaxCost * Cardinality(InFlight) \in Nat /\ MaxCost * Cardinality(Lanes) \in Nat
    BY <2>2, Times
  <2> QED BY <2>1, <2>3, CapsAssumption DEF Charged, OverspendIsBounded
<1> QED BY <1>1, <1>2, <1>3, InitTypes, TypeStep, PTL DEF Spec

-----------------------------------------------------------------------------
(***************************************************************************)
(* Streams.                                                                *)
(***************************************************************************)
\* While its thread waits, the events of a stream are the tokens it has not
\* seen, with the end behind them as soon as the turn is over.
Waits(m) ==
  /\ \A i \in 1..Len(events[m]) : events[m][i] = "end" <=> running[m] = None /\ i = Len(events[m])
  /\ running[m] = None => tokens[m].sent + 1 = tokens[m].seen + Len(events[m])
  /\ running[m] # None => tokens[m].sent = tokens[m].seen + Len(events[m])
Streamed ==
  \A m \in Streams :
    /\ m \notin received => worker[m] = "none"
    /\ worker[m] = "none" => events[m] = <<>> /\ tokens[m].sent = tokens[m].seen
    /\ running[m] # None => worker[m] \in {"waiting", "timeout"}
    /\ worker[m] = "waiting" => Waits(m)
    /\ worker[m] = "done" => tokens[m].sent = tokens[m].seen

\* What a step of one lane leaves alone.
LEMMA StreamFrame ==
  ASSUME TypeOK, NEW l \in Lanes, NEW m \in Streams, m # l, Step(l)
  PROVE  UNCHANGED <<received, worker[m], events[m], tokens[m], running[m]>>
<1>1. m \in Requests /\ m \in Lanes
  BY MessagesAssumption, LaneKinds
<1> QED BY SMTT(30), <1>1 DEF Step, Refuse, NoModel, Early, Return, Begin, Raise, CallEnds, NextCall, CallFails, Reply,
                    TypeOK, inbox, http

LEMMA AppendEvent ==
  ASSUME NEW q \in Seq({"token", "end"}), NEW x
  PROVE  /\ Len(Append(q, x)) = Len(q) + 1 /\ Append(q, x)[Len(q) + 1] = x
         /\ \A i \in 1..Len(q) : Append(q, x)[i] = q[i]
OBVIOUS

LEMMA TailEvent ==
  ASSUME NEW q \in Seq({"token", "end"}), q # <<>>
  PROVE  /\ Len(Tail(q)) = Len(q) - 1 /\ Head(q) = q[1] /\ Len(q) >= 1
         /\ \A i \in 1..Len(q) - 1 : Tail(q)[i] = q[i + 1]
OBVIOUS

LEMMA StreamReturns ==
  ASSUME TypeOK, Streamed, NEW m \in Streams, Return(m), running[m] # None, UNCHANGED tokens
  PROVE  /\ UNCHANGED <<received, worker[m], tokens[m]>>
         /\ worker[m] = "waiting" => Waits(m)'
<1>1. m \in Requests /\ m \in Lanes
  BY MessagesAssumption, LaneKinds
<1>2. /\ events[m] \in Seq({"token", "end"}) /\ Len(events[m]) \in Nat
      /\ tokens[m].sent \in Nat /\ tokens[m].seen \in Nat
  BY <1>1 DEF TypeOK
<1>3. UNCHANGED <<received, worker[m], tokens[m]>> /\ running'[m] = None /\ events'[m] = Append(events[m], "end")
  BY <1>1 DEF Return, TypeOK, inbox
<1>4. ASSUME worker[m] = "waiting" PROVE Waits(m)'
  <2>1. Waits(m)
    BY <1>4 DEF Streamed
  <2>2. /\ Len(events'[m]) = Len(events[m]) + 1 /\ events'[m][Len(events[m]) + 1] = "end"
        /\ \A i \in 1..Len(events[m]) : events'[m][i] = events[m][i]
    BY <1>2, <1>3, AppendEvent
  <2>3. \A i \in 1..Len(events[m]) : events'[m][i] # "end"
    BY <2>1, <2>2 DEF Waits
  <2>4. tokens'[m].sent + 1 = tokens'[m].seen + Len(events'[m])
    <3>1. tokens[m].sent = tokens[m].seen + Len(events[m])
      BY <2>1 DEF Waits
    <3>2. tokens'[m].sent = tokens[m].sent /\ tokens'[m].seen = tokens[m].seen
      BY <1>3
    <3> QED BY SMTT(30), <1>2, <2>2, <3>1, <3>2
  <2>5. \A i \in 1..Len(events'[m]) : events'[m][i] = "end" <=> running'[m] = None /\ i = Len(events'[m])
    BY <1>2, <1>3, <2>2, <2>3
  <2> QED BY <1>3, <2>4, <2>5 DEF Waits
<1> QED BY <1>3, <1>4

LEMMA StreamStep == ASSUME TypeOK, Streamed, Next PROVE Streamed'
<1> SUFFICES ASSUME NEW m \in Streams
             PROVE  /\ m \notin received' => worker'[m] = "none"
                    /\ worker'[m] = "none" => events'[m] = <<>> /\ tokens'[m].sent = tokens'[m].seen
                    /\ running'[m] # None => worker'[m] \in {"waiting", "timeout"}
                    /\ worker'[m] = "waiting" => Waits(m)'
                    /\ worker'[m] = "done" => tokens'[m].sent = tokens'[m].seen
  BY DEF Streamed
<1>1. m \in Requests /\ m \in Lanes /\ m \in Messages /\ m # None /\ m # "consumer" /\ m # "poller"
  BY MessagesAssumption, LaneKinds
<1>2. /\ m \notin received => worker[m] = "none"
      /\ worker[m] = "none" => events[m] = <<>> /\ tokens[m].sent = tokens[m].seen
      /\ running[m] # None => worker[m] \in {"waiting", "timeout"}
      /\ worker[m] = "waiting" => Waits(m)
      /\ worker[m] = "done" => tokens[m].sent = tokens[m].seen
  BY DEF Streamed
<1>3. /\ events[m] \in Seq({"token", "end"}) /\ Len(events[m]) \in Nat /\ tokens[m] \in [sent : Nat, seen : Nat]
      /\ tokens[m].sent \in Nat /\ tokens[m].seen \in Nat
      /\ (at[m] = "idle" <=> running[m] = None) /\ received \subseteq Messages
  BY <1>1 DEF TypeOK
<1>4. CASE (m \notin received' => m \notin received) /\ UNCHANGED <<worker[m], events[m], tokens[m], running[m]>>
  BY <1>2, <1>4 DEF Waits
<1>5. CASE Request(m)
  <2>1. /\ m \in received' /\ worker[m] = "none" /\ worker'[m] = "waiting" /\ running'[m] = m
        /\ UNCHANGED <<events, tokens>>
    BY <1>1, <1>2, <1>5 DEF Request, Dispatch, TypeOK
  <2>2. events'[m] = <<>> /\ tokens'[m].sent = tokens'[m].seen /\ Len(<<>>) = 0
    BY <1>2, <2>1
  <2>3. Waits(m)'
    BY <1>1, <1>3, <2>1, <2>2 DEF Waits
  <2> QED BY <2>1, <2>3
<1>6. CASE Return(m) /\ running[m] # None /\ UNCHANGED tokens
  <2>1. running'[m] = None
    BY <1>1, <1>6 DEF Return, TypeOK
  <2> QED BY <1>2, <1>6, <2>1, StreamReturns
<1>7. CASE CallEnds(m)
  <2>1. /\ running[m] # None /\ UNCHANGED <<received, worker, running>>
        /\ events'[m] = Append(events[m], "token")
        /\ tokens'[m] = [tokens[m] EXCEPT !.sent = @ + 1]
    BY <1>1, <1>3, <1>7 DEF CallEnds, TypeOK, inbox
  <2>2. /\ Len(events'[m]) = Len(events[m]) + 1 /\ events'[m][Len(events[m]) + 1] = "token"
        /\ \A i \in 1..Len(events[m]) : events'[m][i] = events[m][i]
    BY <1>3, <2>1, AppendEvent
  <2>3. tokens'[m].sent = tokens[m].sent + 1 /\ tokens'[m].seen = tokens[m].seen
    BY <1>3, <2>1, OneMore
  <2>4. ASSUME worker[m] = "waiting" PROVE Waits(m)'
    <3>1. tokens[m].sent = tokens[m].seen + Len(events[m]) /\ \A i \in 1..Len(events[m]) : events[m][i] # "end"
      BY <1>2, <2>1, <2>4 DEF Waits
    <3>2. \A i \in 1..Len(events'[m]) : events'[m][i] # "end"
      <4>1. \A i \in 1..Len(events[m]) : events'[m][i] # "end"
        BY <2>2, <3>1
      <4>2. events'[m][Len(events[m]) + 1] # "end"
        BY <2>2
      <4>3. \A i \in 1..Len(events[m]) + 1 : i \in 1..Len(events[m]) \/ i = Len(events[m]) + 1
        BY <1>3
      <4> QED BY <2>2, <4>1, <4>2, <4>3
    <3> QED BY SMTT(30), <1>3, <2>1, <2>2, <2>3, <3>1, <3>2 DEF Waits
  <2> QED BY <1>2, <2>1, <2>4
<1>8. CASE StreamNext(m)
  <2>1. /\ worker[m] = "waiting" /\ events[m] # <<>> /\ events'[m] = Tail(events[m]) /\ UNCHANGED <<received, running>>
        /\ Waits(m)
        /\ Head(events[m]) = "end" => worker'[m] = "done" /\ UNCHANGED tokens
        /\ Head(events[m]) # "end" => worker'[m] = "waiting" /\ tokens'[m] = [tokens[m] EXCEPT !.seen = @ + 1]
    BY <1>1, <1>2, <1>8 DEF StreamNext, TypeOK, inbox, lane
  <2>2. /\ Len(events'[m]) = Len(events[m]) - 1 /\ Head(events[m]) = events[m][1] /\ Len(events[m]) >= 1
        /\ \A i \in 1..Len(events[m]) - 1 : events'[m][i] = events[m][i + 1]
    BY <1>3, <2>1, TailEvent
  <2>3. CASE Head(events[m]) = "end"
    <3>1. running[m] = None /\ Len(events[m]) = 1
      <4>1. 1 \in 1..Len(events[m]) /\ events[m][1] = "end"
        BY <1>3, <2>2, <2>3
      <4> QED BY <2>1, <4>1 DEF Waits
    <3> QED BY <1>2, <1>3, <2>1, <2>3, <3>1 DEF Waits
  <2>4. CASE Head(events[m]) # "end"
    <3>1. tokens'[m].seen = tokens[m].seen + 1 /\ tokens'[m].sent = tokens[m].sent
      BY <1>3, <2>1, <2>4, OneMore
    <3>2. ASSUME NEW i \in 1..Len(events'[m])
          PROVE  events'[m][i] = "end" <=> running'[m] = None /\ i = Len(events'[m])
      <4>1. i + 1 \in 1..Len(events[m]) /\ events'[m][i] = events[m][i + 1]
        BY <1>3, <2>2
      <4> QED BY <1>3, <2>1, <2>2, <4>1 DEF Waits
    <3>3. Waits(m)'
      <4>1. running'[m] = running[m] /\ running[m] = None => tokens[m].sent + 1 = tokens[m].seen + Len(events[m])
        BY <2>1 DEF Waits
      <4>2. running[m] # None => tokens[m].sent = tokens[m].seen + Len(events[m])
        BY <2>1 DEF Waits
      <4>3. Len(events[m]) = Len(events'[m]) + 1 /\ Len(events'[m]) \in Nat
        BY <1>3, <2>2
      <4>4. running'[m] = running[m]
        BY <2>1
      <4>5. /\ running[m] = None => tokens'[m].sent + 1 = tokens'[m].seen + Len(events'[m])
            /\ running[m] # None => tokens'[m].sent = tokens'[m].seen + Len(events'[m])
        BY SMTT(30), <1>3, <3>1, <4>1, <4>2, <4>3, <4>4
      <4> QED BY <3>2, <4>4, <4>5 DEF Waits
    <3> QED BY <1>2, <2>1, <2>4, <3>3
  <2> QED BY <2>3, <2>4
<1>9. CASE Timeout(m)
  BY <1>1, <1>2, <1>9 DEF Timeout, TypeOK, inbox, lane
<1>10. CASE Restart
  <2>1. /\ worker'[m] = IF worker[m] = "waiting" THEN "reset" ELSE worker[m]
        /\ events'[m] = <<>> /\ running'[m] = None /\ UNCHANGED <<received, tokens>>
    BY <1>1, <1>10 DEF Restart
  <2> QED BY <1>2, <2>1
<1>11. \/ Request(m) \/ StreamNext(m) \/ Timeout(m) \/ Restart \/ CallEnds(m)
       \/ Return(m) /\ running[m] # None /\ UNCHANGED tokens
       \/ (m \notin received' => m \notin received) /\ UNCHANGED <<worker[m], events[m], tokens[m], running[m]>>
  <2>1. ASSUME NEW l \in Lanes, Step(l), l # m
        PROVE  (m \notin received' => m \notin received) /\ UNCHANGED <<worker[m], events[m], tokens[m], running[m]>>
    BY <2>1, StreamFrame
  <2>2. CASE Step(m)
    BY <1>1, <1>3, <2>2 DEF Step, Refuse, NoModel, Early, Reply, Raise, Begin, NextCall, CallFails, inbox, http
  <2>3. ASSUME NEW k \in Requests, k # m, Request(k) \/ StreamNext(k) \/ Timeout(k)
        PROVE  (m \notin received' => m \notin received) /\ UNCHANGED <<worker[m], events[m], tokens[m], running[m]>>
    BY <1>1, <2>3 DEF Request, Dispatch, StreamNext, Timeout, TypeOK, inbox, lane
  <2>4. CASE Serve \/ NextText
    BY <1>1, <2>4 DEF Serve, NextText, Dispatch, TypeOK, http
  <2>5. CASE Poll \/ (\E k \in Posts : Webhook(k)) \/ (\E k \in Texts : Text(k)) \/ Outage \/ \E u \in Users : Expire(u)
    BY <1>1, <2>5 DEF Poll, Webhook, Text, Expire, Outage, inbox, lane, http
  <2> QED BY <1>1, <2>1, <2>2, <2>3, <2>4, <2>5 DEF Next
<1> QED BY <1>4, <1>5, <1>6, <1>7, <1>8, <1>9, <1>10, <1>11

\* The end of a stream (http_api.py:427) is put behind the tokens of the turn:
\* whoever sees it has seen them all.
THEOREM StreamsAreComplete == Spec => []EndMeansAll
<1>1. Init => Streamed
  BY MessagesAssumption, LaneKinds DEF Init, Fresh, Streamed
<1>2. TypeOK /\ CallLeft /\ Streamed /\ [Next]_vars => Streamed'
  <2>1. UNCHANGED vars /\ Streamed => Streamed'
    BY DEF vars, lane, inbox, http, Streamed, Waits
  <2> QED BY <2>1, StreamStep
<1>3. Streamed => EndMeansAll
  BY DEF Streamed, EndMeansAll
<1> QED BY <1>1, <1>2, <1>3, InitTypes, TypeStep, PTL DEF Spec

-----------------------------------------------------------------------------
(***************************************************************************)
(* Messages.                                                               *)
(***************************************************************************)
\* The rows of texts up to here have been dispatched since the last start.
Done == cursor - Len(batch)

Posted ==
  /\ \A m \in Messages \ received : times[m] = 0
  /\ \A m \in Posts \cup Requests : times[m] <= 1
  /\ \A i \in 1..Len(queue) : queue[i] \in received /\ times[queue[i]] = 0
  /\ \A i, j \in 1..Len(queue) : queue[i] = queue[j] => i = j
  /\ \A i \in 1..Len(accepted) :
       times[accepted[i]] = 0 /\ restarts = 0 => \E j \in 1..Len(queue) : queue[j] = accepted[i]

Texted ==
  /\ \A m \in Messages \ received : times[m] = 0
  /\ Done >= 0
  /\ \A k \in 1..Len(batch) : batch[k] = texts[Done + k]
  /\ \A i \in 1..Len(texts) : texts[i] \in received
  /\ \A i, j \in 1..Len(texts) : texts[i] = texts[j] => i = j
  /\ \A m \in Texts \cap received : \E i \in 1..Len(texts) : texts[i] = m
  /\ \A i \in 1..Len(texts) : IF i <= Done THEN times[texts[i]] \in 1..restarts + 1 ELSE times[texts[i]] <= restarts

LEMMA TailIndex ==
  ASSUME NEW S, NEW q \in Seq(S), q # <<>>
  PROVE  /\ Len(q) \in Nat /\ Len(q) >= 1 /\ Len(Tail(q)) = Len(q) - 1 /\ Head(q) = q[1]
         /\ \A i \in 1..Len(Tail(q)) : i + 1 \in 1..Len(q) /\ Tail(q)[i] = q[i + 1]
OBVIOUS

LEMMA AddIndex ==
  ASSUME NEW S, NEW q \in Seq(S), NEW x
  PROVE  /\ Len(q) \in Nat /\ Len(Append(q, x)) = Len(q) + 1 /\ Append(q, x)[Len(q) + 1] = x
         /\ \A i \in 1..Len(q) : Append(q, x)[i] = q[i]
         /\ \A i \in 1..Len(q) + 1 : i \in 1..Len(q) \/ i = Len(q) + 1
OBVIOUS

\* The steps that neither send nor dispatch a message.
LEMMA QuietStep ==
  ASSUME TypeOK, Next
  PROVE  \/ UNCHANGED <<inbox, times, accepted, restarts>>
         \/ Restart \/ Poll \/ Serve \/ NextText \/ (\E m \in Requests : Request(m))
         \/ (\E m \in Posts : Webhook(m)) \/ (\E m \in Texts : Text(m))
<1>1. CASE \E l \in Lanes : Step(l)
  BY <1>1 DEF Step, Refuse, NoModel, Early, Return, Begin, Resolve, Raise, CallEnds, NextCall, CallFails, Reply,
              inbox, bounds, history
<1>2. CASE (\E m \in Requests : StreamNext(m) \/ Timeout(m)) \/ Outage \/ \E u \in Users : Expire(u)
  BY <1>2 DEF StreamNext, Timeout, Expire, Outage, bounds, history
<1> QED BY <1>1, <1>2 DEF Next

LEMMA DispatchCounts ==
  ASSUME TypeOK, NEW l, NEW m \in Messages, Dispatch(l, m)
  PROVE  /\ times'[m] = times[m] + 1 /\ \A k \in Messages : k # m => times'[k] = times[k]
         /\ UNCHANGED <<texts, cursor, restarts, accepted>>
         /\ \A k \in Messages : times[k] \in Nat
BY DEF Dispatch, TypeOK, bounds

LEMMA PostedStep == ASSUME TypeOK, Texted, Posted, Next PROVE Posted'
<1> USE LaneKinds
<1>0. /\ queue \in Seq(Posts) /\ accepted \in Seq(Posts) /\ received \subseteq Messages
      /\ Len(queue) \in Nat /\ Len(accepted) \in Nat /\ restarts \in Nat
      /\ \A i \in 1..Len(queue) : queue[i] \in Posts
      /\ \A i \in 1..Len(accepted) : accepted[i] \in Posts
      /\ \A m \in Messages : times[m] \in Nat
  BY SMTT(30) DEF TypeOK
<1>1. ASSUME NEW m \in Posts, Webhook(m) PROVE Posted'
  <2>1. /\ m \in Messages \ received /\ received' = received \cup {m} /\ queue' = Append(queue, m)
        /\ accepted' = Append(accepted, m) /\ UNCHANGED <<times, restarts>>
    BY <1>1 DEF Webhook, bounds
  <2>2. times[m] = 0 /\ \A i \in 1..Len(queue) : queue[i] # m
    BY <2>1 DEF Posted
  <2>3. /\ Len(queue') = Len(queue) + 1 /\ queue'[Len(queue) + 1] = m
        /\ \A i \in 1..Len(queue) : queue'[i] = queue[i]
        /\ \A i \in 1..Len(queue') : i \in 1..Len(queue) \/ i = Len(queue) + 1
        /\ \A i \in 1..Len(queue) : i \in 1..Len(queue')
        /\ Len(queue) + 1 \in 1..Len(queue')
    BY <1>0, <2>1, AddIndex
  <2>4. /\ accepted'[Len(accepted) + 1] = m /\ \A i \in 1..Len(accepted) : accepted'[i] = accepted[i]
        /\ \A i \in 1..Len(accepted') : i \in 1..Len(accepted) \/ i = Len(accepted) + 1
    BY <1>0, <2>1, AddIndex
  <2>5. \A i \in 1..Len(queue') : queue'[i] \in received' /\ times'[queue'[i]] = 0
    BY <2>1, <2>2, <2>3 DEF Posted
  <2>6. \A i, j \in 1..Len(queue') : queue'[i] = queue'[j] => i = j
    BY <2>2, <2>3 DEF Posted
  <2>7. \A i \in 1..Len(accepted') :
          times'[accepted'[i]] = 0 /\ restarts' = 0 => \E j \in 1..Len(queue') : queue'[j] = accepted'[i]
    BY <2>1, <2>3, <2>4 DEF Posted
  <2> QED BY <2>1, <2>5, <2>6, <2>7 DEF Posted
<1>2. CASE Serve
  <2>1. /\ queue # <<>> /\ Dispatch("consumer", Head(queue)) /\ queue' = Tail(queue) /\ UNCHANGED received
    BY <1>2 DEF Serve
  <2>2. /\ Len(queue) >= 1 /\ Len(queue') = Len(queue) - 1 /\ Head(queue) = queue[1]
        /\ \A i \in 1..Len(queue') : i + 1 \in 1..Len(queue) /\ queue'[i] = queue[i + 1]
    BY <1>0, <2>1, TailIndex
  <2>3. 1 \in 1..Len(queue) /\ queue[1] \in Posts
    BY <1>0, <2>2
  <2>4. /\ times'[queue[1]] = times[queue[1]] + 1 /\ \A k \in Messages : k # queue[1] => times'[k] = times[k]
        /\ UNCHANGED <<accepted, restarts>>
    BY <2>1, <2>2, <2>3, DispatchCounts
  <2>5. \A i \in 1..Len(queue') : queue'[i] # queue[1] /\ queue'[i] \in Posts
    BY <1>0, <2>2, <2>3 DEF Posted
  <2>6. \A i \in 1..Len(queue') : queue'[i] \in received' /\ times'[queue'[i]] = 0
    BY <2>1, <2>2, <2>4, <2>5 DEF Posted
  <2>7. \A i, j \in 1..Len(queue') : queue'[i] = queue'[j] => i = j
    BY <2>2 DEF Posted
  <2>8. queue[1] \in received /\ times[queue[1]] = 0
    BY <2>3 DEF Posted
  <2>9. ASSUME NEW i \in 1..Len(accepted'), times'[accepted'[i]] = 0, restarts' = 0
        PROVE  \E j \in 1..Len(queue') : queue'[j] = accepted'[i]
    <3>1. accepted[i] # queue[1] /\ times[accepted[i]] = 0 /\ i \in 1..Len(accepted)
      BY <1>0, <2>4, <2>8, <2>9
    <3>2. PICK j \in 1..Len(queue) : queue[j] = accepted[i]
      BY <2>4, <2>9, <3>1 DEF Posted
    <3>3. j - 1 \in 1..Len(queue') /\ queue'[j - 1] = queue[j]
      BY <1>0, <2>2, <3>1, <3>2
    <3> QED BY <2>4, <3>2, <3>3
  <2> QED BY <1>0, <2>1, <2>3, <2>4, <2>6, <2>7, <2>8, <2>9 DEF Posted
<1>3. ASSUME NEW l, NEW m \in Messages, Dispatch(l, m), UNCHANGED queue, received' = received \cup {m},
             m \in Texts \/ m \notin received, m \notin Posts
      PROVE  Posted'
  <2>1. /\ times'[m] = times[m] + 1 /\ \A k \in Messages : k # m => times'[k] = times[k]
        /\ UNCHANGED <<accepted, restarts>>
    BY <1>3, DispatchCounts
  <2>2. \A k \in Posts \cup Requests : times'[k] <= 1
    BY <1>0, <1>3, <2>1, MessagesAssumption DEF Posted
  <2>3. \A k \in Posts : times'[k] = times[k]
    BY <1>3, <2>1
  <2> QED BY <1>0, <1>3, <2>1, <2>2, <2>3 DEF Posted
<1>4. CASE NextText
  <2>1. Head(batch) \in Texts
    BY <1>4, SeqTail DEF NextText, TypeOK
  <2>2. Head(batch) \in received
    <3>1. batch # <<>> /\ batch \in Seq(Texts) /\ 1 \in 1..Len(batch) /\ Head(batch) = batch[1]
      BY <1>4, TailIndex DEF NextText, TypeOK
    <3>2. batch[1] = texts[Done + 1] /\ Done + 1 \in 1..Len(texts)
      BY <3>1 DEF Texted, Done, TypeOK
    <3> QED BY <3>1, <3>2 DEF Texted
  <2>3. received \cup {Head(batch)} = received
    BY <2>2
  <2> QED BY <1>3, <1>4, <2>1, <2>3, MessagesAssumption DEF NextText
<1>5. ASSUME NEW m \in Requests, Request(m) PROVE Posted'
  BY <1>3, <1>5, MessagesAssumption DEF Request
<1>6. CASE Restart
  <2>1. queue' = <<>> /\ restarts' = restarts + 1 /\ UNCHANGED <<received, times, accepted>> /\ Len(<<>>) = 0
    BY <1>6 DEF Restart, history
  <2> QED BY <1>0, <2>1 DEF Posted
<1>7. ASSUME UNCHANGED <<queue, times, accepted, restarts>>, received \subseteq received' PROVE Posted'
  BY <1>7 DEF Posted
<1>8. ASSUME NEW m \in Texts, Text(m) PROVE Posted'
  BY <1>7, <1>8 DEF Text, history, bounds
<1>9. CASE Poll
  BY <1>7, <1>9 DEF Poll, history, bounds
<1>10. CASE UNCHANGED <<inbox, times, accepted, restarts>>
  BY <1>7, <1>10 DEF inbox
<1> QED BY <1>1, <1>2, <1>4, <1>5, <1>6, <1>8, <1>9, <1>10, QuietStep

LEMMA TextedStep == ASSUME TypeOK, Texted, Posted, Next PROVE Texted'
<1> USE LaneKinds
<1>0. /\ texts \in Seq(Texts) /\ batch \in Seq(Texts) /\ received \subseteq Messages
      /\ Len(texts) \in Nat /\ Len(batch) \in Nat /\ cursor \in 0..Len(texts) /\ restarts \in Nat
      /\ \A i \in 1..Len(texts) : texts[i] \in Texts
      /\ \A m \in Messages : times[m] \in Nat
  BY DEF TypeOK
<1>1. ASSUME NEW m \in Texts, Text(m) PROVE Texted'
  <2>1. /\ m \in Messages \ received /\ received' = received \cup {m} /\ texts' = Append(texts, m)
        /\ UNCHANGED <<cursor, batch, times, restarts>>
    BY <1>1 DEF Text, bounds, history
  <2>2. times[m] = 0 /\ \A i \in 1..Len(texts) : texts[i] # m
    BY <2>1 DEF Texted
  <2>3. /\ Len(texts') = Len(texts) + 1 /\ texts'[Len(texts) + 1] = m
        /\ \A i \in 1..Len(texts) : texts'[i] = texts[i]
        /\ \A i \in 1..Len(texts') : i \in 1..Len(texts) \/ i = Len(texts) + 1
        /\ \A i \in 1..Len(texts) : i \in 1..Len(texts')
        /\ Len(texts) + 1 \in 1..Len(texts')
    BY <1>0, <2>1, AddIndex
  <2>4. \A k \in 1..Len(batch) : Done + k \in 1..Len(texts)
    BY <1>0 DEF Texted, Done
  <2>5. Done' = Done /\ Done <= Len(texts) /\ Done \in Int
    BY <1>0, <2>1 DEF Done
  <2>6. Done' >= 0 /\ \A k \in 1..Len(batch') : batch'[k] = texts'[Done' + k]
    BY <2>1, <2>3, <2>4, <2>5 DEF Texted
  <2>7. \A i \in 1..Len(texts') : texts'[i] \in received'
    BY <2>1, <2>3 DEF Texted
  <2>8. \A i, j \in 1..Len(texts') : texts'[i] = texts'[j] => i = j
    BY <2>2, <2>3 DEF Texted
  <2>9. \A k \in Texts \cap received' : \E i \in 1..Len(texts') : texts'[i] = k
    BY <2>1, <2>3 DEF Texted
  <2>10. \A i \in 1..Len(texts') : IF i <= Done' THEN times'[texts'[i]] \in 1..restarts' + 1 ELSE times'[texts'[i]] <= restarts'
    BY <1>0, <2>1, <2>2, <2>3, <2>5 DEF Texted
  <2>11. \A k \in Messages \ received' : times'[k] = 0
    BY <2>1 DEF Texted
  <2> QED BY <2>6, <2>7, <2>8, <2>9, <2>10, <2>11 DEF Texted
<1>2. CASE Poll
  <2>1. batch = <<>> /\ Len(<<>>) = 0 /\ Done = cursor
    BY <1>0, <1>2 DEF Poll, Done
  <2>2. /\ cursor < cursor' /\ cursor' \in 1..Len(texts) /\ Len(batch') = cursor' - cursor
        /\ \A k \in 1..Len(batch') : batch'[k] = texts[cursor + k]
    BY <1>2, PollMoves
  <2>3. Done' = Done /\ UNCHANGED <<received, texts, times, restarts>>
    BY <1>0, <1>2, <2>1, <2>2 DEF Poll, Done, bounds, history
  <2> QED BY <2>1, <2>2, <2>3 DEF Texted
<1>3. CASE NextText
  <2>1. /\ batch # <<>> /\ Dispatch("poller", Head(batch)) /\ batch' = Tail(batch) /\ UNCHANGED received
    BY <1>3 DEF NextText
  <2>2. /\ Len(batch) >= 1 /\ Len(batch') = Len(batch) - 1 /\ Head(batch) = batch[1]
        /\ \A i \in 1..Len(batch') : i + 1 \in 1..Len(batch) /\ batch'[i] = batch[i + 1]
    BY <1>0, <2>1, TailIndex
  <2>3. 1 \in 1..Len(batch) /\ batch[1] = texts[Done + 1] /\ Done \in Nat /\ Done + 1 \in 1..Len(texts)
    BY <1>0, <2>2 DEF Texted, Done
  <2>4. /\ times'[batch[1]] = times[batch[1]] + 1 /\ \A k \in Messages : k # batch[1] => times'[k] = times[k]
        /\ UNCHANGED <<texts, cursor, restarts>>
    BY <1>0, <2>1, <2>2, <2>3, DispatchCounts
  <2>5. Done' = Done + 1
    BY <1>0, <2>2, <2>4 DEF Done
  <2>6. ASSUME NEW k \in 1..Len(batch') PROVE batch'[k] = texts'[Done' + k]
    <3>1. k \in Nat /\ k + 1 \in 1..Len(batch) /\ batch'[k] = batch[k + 1]
      BY <1>0, <2>2
    <3>2. batch[k + 1] = texts[Done + (k + 1)]
      BY <3>1 DEF Texted
    <3>3. Done + (k + 1) = Done' + k
      BY <2>3, <2>5, <3>1
    <3> QED BY <2>4, <3>1, <3>2, <3>3
  <2>7. ASSUME NEW i \in 1..Len(texts')
        PROVE IF i <= Done' THEN times'[texts'[i]] \in 1..restarts' + 1 ELSE times'[texts'[i]] <= restarts'
    <3>1. CASE i = Done + 1
      <4>1. times[texts[i]] <= restarts /\ times[texts[i]] \in Nat /\ times'[texts[i]] = times[texts[i]] + 1
        BY <1>0, <2>3, <2>4, <2>7, <3>1 DEF Texted
      <4> QED BY <1>0, <2>4, <2>5, <3>1, <4>1
    <3>2. CASE i # Done + 1
      <4>1. texts[i] # batch[1] /\ texts[i] \in Texts /\ i \in 1..Len(texts)
        BY <1>0, <2>3, <2>4, <2>7, <3>2 DEF Texted
      <4>2. times'[texts'[i]] = times[texts[i]] /\ restarts' = restarts
        BY <2>4, <4>1
      <4>3. IF i <= Done THEN times[texts[i]] \in 1..restarts + 1 ELSE times[texts[i]] <= restarts
        BY <4>1 DEF Texted
      <4> QED BY <1>0, <2>3, <2>5, <3>2, <4>1, <4>2, <4>3
    <3> QED BY <3>1, <3>2
  <2>8. \A k \in Messages \ received' : times'[k] = 0
    <3>1. batch[1] \in received
      BY <2>3 DEF Texted
    <3> QED BY <2>1, <2>4, <3>1 DEF Texted
  <2> QED BY <2>1, <2>3, <2>4, <2>5, <2>6, <2>7, <2>8 DEF Texted
<1>4. ASSUME NEW l, NEW m \in Posts \cup Requests, Dispatch(l, m), UNCHANGED batch, received' = received \cup {m}
      PROVE  Texted'
  <2>1. /\ m \in Messages /\ m \notin Texts
        /\ \A k \in Messages : k # m => times'[k] = times[k]
        /\ UNCHANGED <<texts, cursor, restarts>>
    BY <1>4, MessagesAssumption, DispatchCounts
  <2>2. Done' = Done /\ \A k \in Texts : times'[k] = times[k]
    BY <1>4, <2>1 DEF Done
  <2>3. Texts \cap received' = Texts \cap received
    BY <1>4, <2>1
  <2>4. \A i \in 1..Len(texts) : times'[texts[i]] = times[texts[i]]
    BY <1>0, <2>2
  <2> QED BY <1>0, <1>4, <2>1, <2>2, <2>3, <2>4 DEF Texted
<1>5. CASE Serve
  <2>1. queue # <<>> /\ queue \in Seq(Posts) /\ 1 \in 1..Len(queue) /\ Head(queue) = queue[1] /\ queue[1] \in Posts
    BY <1>5, TailIndex DEF Serve, TypeOK
  <2>2. received \cup {Head(queue)} = received
    BY <2>1 DEF Posted
  <2> QED BY <1>4, <1>5, <2>1, <2>2 DEF Serve
<1>6. ASSUME NEW m \in Requests, Request(m) PROVE Texted'
  BY <1>4, <1>6 DEF Request
<1>7. CASE Restart
  <2>1. /\ batch' = <<>> /\ cursor' = 0 /\ restarts' = restarts + 1 /\ UNCHANGED <<received, texts, times>>
        /\ Len(<<>>) = 0
    BY <1>7 DEF Restart, history
  <2>2. Done' = 0
    <3>1. Done' = cursor' - Len(batch')
      BY DEF Done
    <3>2. Len(batch') = 0
      BY <2>1
    <3>3. cursor' = 0
      BY <2>1
    <3> QED BY ONLY <3>1, <3>2, <3>3
  <2>3. \A i \in 1..Len(texts) : times[texts[i]] <= restarts + 1
    BY <1>0 DEF Texted
  <2> QED BY <1>0, <2>1, <2>2, <2>3 DEF Texted
<1>8. ASSUME NEW m \in Posts, Webhook(m) PROVE Texted'
  <2>1. received' = received \cup {m} /\ UNCHANGED <<texts, cursor, batch, times, restarts>> /\ m \notin Texts
    BY <1>8, MessagesAssumption DEF Webhook, bounds
  <2>2. Texts \cap received' = Texts \cap received /\ Done' = Done
    BY <2>1 DEF Done
  <2> QED BY <2>1, <2>2 DEF Texted
<1>9. CASE UNCHANGED <<inbox, times, accepted, restarts>>
  BY <1>9 DEF inbox, Texted, Done
<1> QED BY <1>1, <1>2, <1>3, <1>5, <1>6, <1>7, <1>8, <1>9, QuietStep

\* A message is dispatched once, a text once more for each restart, and what is
\* accepted waits until then (server.py:156-162, router.py:291-295, imessage.py:176-211).
THEOREM MessagesAreDispatchedOnce == Spec => []EachMessageOnce
<1>1. Init => Posted /\ Texted
  <2> SUFFICES ASSUME Init PROVE Posted /\ Texted
    OBVIOUS
  <2>1. /\ queue = <<>> /\ texts = <<>> /\ batch = <<>> /\ accepted = <<>> /\ cursor = 0 /\ received = {}
        /\ times = [m \in Messages |-> 0] /\ restarts = 0 /\ Len(<<>>) = 0
    BY DEF Init, Fresh
  <2> QED BY <2>1, LaneKinds DEF Posted, Texted, Done
<1>2. TypeOK /\ CallLeft /\ Posted /\ Texted /\ [Next]_vars => Posted' /\ Texted'
  <2>1. UNCHANGED vars /\ Posted /\ Texted => Posted' /\ Texted'
    BY DEF vars, inbox, history, bounds, Posted, Texted, Done
  <2> QED BY <2>1, PostedStep, TextedStep
<1>3. TypeOK /\ Posted /\ Texted => EachMessageOnce
  <2> SUFFICES ASSUME TypeOK, Posted, Texted PROVE EachMessageOnce
    OBVIOUS
  <2>0. /\ texts \in Seq(Texts) /\ batch \in Seq(Texts) /\ cursor \in 0..Len(texts) /\ restarts \in Nat
        /\ Len(texts) \in Nat /\ Len(batch) \in Nat /\ \A m \in Messages : times[m] \in Nat
        /\ DOMAIN queue = 1..Len(queue) /\ DOMAIN accepted = 1..Len(accepted) /\ DOMAIN batch = 1..Len(batch)
        /\ \A i \in 1..Len(texts) : texts[i] \in Messages
    BY LaneKinds DEF TypeOK
  <2>1. ASSUME NEW m \in Messages PROVE times[m] <= IF m \in Texts THEN 1 + restarts ELSE 1
    <3>1. CASE m \notin received
      BY <2>0, <3>1 DEF Posted
    <3>2. CASE m \in received /\ m \in Texts
      <4>1. PICK i \in 1..Len(texts) : texts[i] = m
        BY <3>2 DEF Texted
      <4>2. IF i <= Done THEN times[m] \in 1..restarts + 1 ELSE times[m] <= restarts
        BY <4>1 DEF Texted
      <4> QED BY <2>0, <3>2, <4>2
    <3>3. CASE m \notin Texts
      BY <3>3 DEF Posted, Messages
    <3> QED BY <3>1, <3>2, <3>3
  <2>2. ASSUME NEW m \in RangeOf(accepted), times[m] = 0, restarts = 0 PROVE m \in RangeOf(queue)
    <3>1. PICK i \in 1..Len(accepted) : accepted[i] = m
      BY <2>0 DEF RangeOf
    <3>2. PICK j \in 1..Len(queue) : queue[j] = accepted[i]
      BY <2>2, <3>1 DEF Posted
    <3> QED BY <2>0, <3>1, <3>2 DEF RangeOf
  <2>3. ASSUME NEW i \in 1..cursor, times[texts[i]] = 0 PROVE texts[i] \in RangeOf(batch)
    <3>1. ~(i <= Done) /\ i \in 1..Len(texts)
      BY <2>0, <2>3 DEF Texted
    <3>2. i - Done \in 1..Len(batch) /\ Done + (i - Done) = i
      BY <2>0, <2>3, <3>1 DEF Done
    <3>3. batch[i - Done] = texts[i]
      BY <3>2 DEF Texted
    <3> QED BY <2>0, <3>2, <3>3 DEF RangeOf
  <2> QED BY <2>1, <2>2, <2>3 DEF EachMessageOnce
<1> QED BY <1>1, <1>2, <1>3, InitTypes, TypeStep, PTL DEF Spec

-----------------------------------------------------------------------------
(***************************************************************************)
(* Rows.                                                                   *)
(***************************************************************************)
\* So many posts have left the queue, and the consumer runs the last of them.
Served == Len(accepted) - Len(queue)

InTurn ==
  /\ Served >= 0
  /\ \A k \in 1..Len(queue) : queue[k] = accepted[Served + k]
  /\ \A i \in 1..Len(accepted) : accepted[i] \in received
  /\ \A i, j \in 1..Len(accepted) : accepted[i] = accepted[j] => i = j
  /\ running["consumer"] # None => Served >= 1 /\ running["consumer"] = accepted[Served]
  /\ \A l \in Lanes : l # "consumer" => running[l] \notin Posts

Behind ==
  \A s \in 1..Len(rows) : \A k \in 1..Len(rows[s]) :
    /\ \A i \in 1..Len(accepted) : rows[s][k] = accepted[i] => i <= Served
    /\ rows[s][k] \in Posts => rows[s][k] \in received

Whole ==
  \A s \in 1..Len(rows) : \A k, n \in 1..Len(rows[s]) : \A i, j \in 1..Len(accepted) :
    rows[s][k] = accepted[i] /\ rows[s][n] = accepted[j] /\ k < n => i <= j

LEMMA InTurnStep == ASSUME TypeOK, Texted, Posted, InTurn, Next PROVE InTurn'
<1> USE LaneKinds
<1>0. /\ queue \in Seq(Posts) /\ accepted \in Seq(Posts) /\ received \subseteq Messages
      /\ Len(queue) \in Nat /\ Len(accepted) \in Nat
      /\ \A l \in Lanes : (at[l] = "idle" <=> running[l] = None)
      /\ running \in [Lanes -> Messages \cup {None}]
  BY DEF TypeOK
<1>1. ASSUME NEW m \in Posts, Webhook(m) PROVE InTurn'
  <2>1. /\ m \notin received /\ received' = received \cup {m} /\ queue' = Append(queue, m)
        /\ accepted' = Append(accepted, m) /\ UNCHANGED running
    BY <1>1 DEF Webhook, lane
  <2>2. /\ Len(queue') = Len(queue) + 1 /\ queue'[Len(queue) + 1] = m
        /\ \A i \in 1..Len(queue) : queue'[i] = queue[i]
        /\ \A i \in 1..Len(queue') : i \in 1..Len(queue) \/ i = Len(queue) + 1
    BY <1>0, <2>1, AddIndex
  <2>3. /\ Len(accepted') = Len(accepted) + 1 /\ accepted'[Len(accepted) + 1] = m
        /\ \A i \in 1..Len(accepted) : accepted'[i] = accepted[i]
        /\ \A i \in 1..Len(accepted') : i \in 1..Len(accepted) \/ i = Len(accepted) + 1
    BY <1>0, <2>1, AddIndex
  <2>4. Served' = Served /\ Served \in Nat /\ Served + Len(queue) = Len(accepted)
    BY <1>0, <2>2, <2>3 DEF Served, InTurn
  <2>5. ASSUME NEW k \in 1..Len(queue') PROVE queue'[k] = accepted'[Served' + k]
    <3>1. CASE k \in 1..Len(queue)
      <4>1. Served + k \in 1..Len(accepted) /\ queue[k] = accepted[Served + k]
        BY <1>0, <2>4, <3>1 DEF InTurn
      <4> QED BY <2>2, <2>3, <2>4, <3>1, <4>1
    <3>2. CASE k = Len(queue) + 1
      <4>1. Served + k = Len(accepted) + 1
        BY <1>0, <2>4, <3>2
      <4> QED BY <2>2, <2>3, <2>4, <3>2, <4>1
    <3> QED BY <2>2, <3>1, <3>2
  <2>6. \A i \in 1..Len(accepted) : accepted[i] # m
    BY <2>1 DEF InTurn
  <2>7. \A i, j \in 1..Len(accepted') : accepted'[i] = accepted'[j] => i = j
    BY <2>3, <2>6 DEF InTurn
  <2>8. \A i \in 1..Len(accepted') : accepted'[i] \in received'
    BY <2>1, <2>3 DEF InTurn
  <2>9. running'["consumer"] # None => Served' >= 1 /\ running'["consumer"] = accepted'[Served']
    <3>1. ASSUME running["consumer"] # None PROVE Served \in 1..Len(accepted)
      BY <1>0, <2>4, <3>1 DEF InTurn
    <3> QED BY <2>1, <2>3, <2>4, <3>1 DEF InTurn
  <2> QED BY <2>1, <2>4, <2>5, <2>7, <2>8, <2>9 DEF InTurn
<1>2. CASE Serve
  <2>1. /\ queue # <<>> /\ at["consumer"] = "idle" /\ running' = [running EXCEPT !["consumer"] = Head(queue)]
        /\ queue' = Tail(queue) /\ UNCHANGED <<received, accepted>>
    BY <1>2 DEF Serve, Dispatch
  <2>2. /\ Len(queue) >= 1 /\ Len(queue') = Len(queue) - 1 /\ Head(queue) = queue[1]
        /\ \A i \in 1..Len(queue') : i + 1 \in 1..Len(queue) /\ queue'[i] = queue[i + 1]
    BY <1>0, <2>1, TailIndex
  <2>3. Served' = Served + 1 /\ Served \in Nat
    BY <1>0, <2>1, <2>2 DEF Served, InTurn
  <2>4. 1 \in 1..Len(queue) /\ running'["consumer"] = accepted[Served + 1]
    BY <1>0, <2>1, <2>2 DEF InTurn
  <2>5. ASSUME NEW k \in 1..Len(queue') PROVE queue'[k] = accepted'[Served' + k]
    <3>1. k + 1 \in 1..Len(queue) /\ queue'[k] = queue[k + 1] /\ k \in Nat
      BY <2>2
    <3>2. queue[k + 1] = accepted[Served + (k + 1)] /\ Served + (k + 1) = Served' + k
      BY <2>3, <3>1 DEF InTurn
    <3> QED BY <2>1, <3>1, <3>2
  <2>6. \A l \in Lanes : l # "consumer" => running'[l] = running[l]
    BY <1>0, <2>1
  <2> QED BY <2>1, <2>3, <2>4, <2>5, <2>6 DEF InTurn
<1>3. ASSUME UNCHANGED <<queue, accepted>>, received \subseteq received',
             running'["consumer"] \in {running["consumer"], None},
             \A l \in Lanes : l # "consumer" => running'[l] = running[l] \/ running'[l] \notin Posts
      PROVE  InTurn'
  BY <1>3 DEF InTurn, Served
<1>4. CASE NextText
  <2>1. Head(batch) \in Texts
    BY <1>4, SeqTail DEF NextText, TypeOK
  <2> QED BY <1>0, <1>3, <1>4, <2>1, MessagesAssumption DEF NextText, Dispatch
<1>5. ASSUME NEW m \in Requests, Request(m) PROVE InTurn'
  BY <1>0, <1>3, <1>5, MessagesAssumption DEF Request, Dispatch
<1>6. CASE Restart
  <2>1. /\ queue' = <<>> /\ UNCHANGED <<received, accepted>> /\ running' = [l \in Lanes |-> None]
    BY <1>6 DEF Restart, history
  <2>2. Served' = Len(accepted)
    <3>1. Served' = Len(accepted') - Len(queue')
      BY DEF Served
    <3>2. Len(queue') = 0
      BY <2>1
    <3>3. Len(accepted') = Len(accepted)
      BY <2>1
    <3> QED BY ONLY <1>0, <3>1, <3>2, <3>3
  <2>3. 1..Len(queue') = {}
    BY <2>1
  <2>4. \A l \in Lanes : running'[l] = None
    BY <2>1
  <2> QED BY <1>0, <2>1, <2>2, <2>3, <2>4 DEF InTurn
<1>7. ASSUME NEW l \in Lanes, Step(l) PROVE InTurn'
  <2>1. /\ UNCHANGED <<queue, accepted, received>>
        /\ \A k \in Lanes : running'[k] \in {running[k], None}
    BY <1>0, <1>7 DEF Step, Refuse, NoModel, Early, Return, Begin, Raise, CallEnds, NextCall, CallFails, Reply,
                      inbox, history
  <2> QED BY <1>3, <2>1
<1>8. CASE Poll \/ (\E m \in Texts : Text(m)) \/ (\E m \in Requests : StreamNext(m) \/ Timeout(m)) \/ Outage \/ \E u \in Users : Expire(u)
  <2>1. /\ UNCHANGED <<queue, accepted, running>> /\ received \subseteq received'
    BY <1>8 DEF Poll, Text, StreamNext, Timeout, Expire, Outage, inbox, lane, history
  <2> QED BY <1>3, <2>1
<1> QED BY <1>1, <1>2, <1>4, <1>5, <1>6, <1>7, <1>8 DEF Next

\* A row that a step has put behind the others of its session is one of the lane's message.
LEMMA PutBehind ==
  ASSUME NEW S, NEW q \in Seq(Seq(S)), NEW s \in 1..Len(q), NEW x \in S
  PROVE  LET r == [q EXCEPT ![s] = Append(q[s], x)]
         IN \A t \in 1..Len(r) : \A k \in 1..Len(r[t]) :
              \/ t \in 1..Len(q) /\ k \in 1..Len(q[t]) /\ r[t][k] = q[t][k]
              \/ k = Len(r[t]) /\ r[t][k] = x
<1> DEFINE r == [q EXCEPT ![s] = Append(q[s], x)]
<1>1. q[s] \in Seq(S) /\ \A t \in 1..Len(q) : t # s => r[t] = q[t]
  OBVIOUS
<1>2. r[s] = Append(q[s], x) /\ Append(q[s], x) \in Seq(S)
  BY <1>1, SeqAdd
<1>3. Len(r) = Len(q)
  BY <1>2, SeqSet
<1>4. /\ Len(r[s]) = Len(q[s]) + 1 /\ r[s][Len(q[s]) + 1] = x
      /\ \A i \in 1..Len(q[s]) : r[s][i] = q[s][i]
      /\ \A i \in 1..Len(r[s]) : i \in 1..Len(q[s]) \/ i = Len(q[s]) + 1
  BY <1>1, <1>2, AddIndex
<1> HIDE DEF r
<1> QED BY <1>1, <1>3, <1>4 DEF r

LEMMA PutAlone ==
  ASSUME NEW S, NEW q \in Seq(Seq(S)), NEW x \in S, NEW y \in {<<x>>, <<>>}
  PROVE  LET r == Append(q, y)
         IN \A t \in 1..Len(r) : \A k \in 1..Len(r[t]) :
              \/ t \in 1..Len(q) /\ k \in 1..Len(q[t]) /\ r[t][k] = q[t][k]
              \/ k = Len(r[t]) /\ r[t][k] = x
<1> DEFINE r == Append(q, y)
<1>1. /\ Len(r) = Len(q) + 1 /\ r[Len(q) + 1] = y /\ \A i \in 1..Len(q) : r[i] = q[i]
      /\ \A i \in 1..Len(r) : i \in 1..Len(q) \/ i = Len(q) + 1
  BY AddIndex
<1>2. Len(<<x>>) = 1 /\ <<x>>[1] = x /\ Len(<<>>) = 0
  OBVIOUS
<1>3. \A k \in 1..Len(y) : k = Len(y) /\ y[k] = x
  <2>1. CASE y = <<x>>
    BY <1>2, <2>1
  <2>2. CASE y = <<>>
    BY <2>2
  <2> QED BY <2>1, <2>2
<1> HIDE DEF r
<1> QED BY <1>1, <1>3 DEF r

LEMMA RowsGrow ==
  ASSUME TypeOK, Next
  PROVE  \/ rows' = rows
         \/ /\ UNCHANGED <<received, queue, accepted>>
            /\ \E l \in Lanes :
                 /\ running[l] \in Messages
                 /\ \A s \in 1..Len(rows') : \A k \in 1..Len(rows'[s]) :
                      \/ s \in 1..Len(rows) /\ k \in 1..Len(rows[s]) /\ rows'[s][k] = rows[s][k]
                      \/ k = Len(rows'[s]) /\ rows'[s][k] = running[l]
<1>0. /\ rows \in Seq(Seq(Messages)) /\ \A l \in Lanes : at[l] # "idle" => running[l] \in Messages
      /\ Len(rows) \in Nat /\ \A l \in Lanes : at[l] = "model" => sid[l] \in 1..Len(rows)
  BY DEF TypeOK, Sids
<1>1. ASSUME NEW l \in Lanes, Begin(l) \/ Raise(l) \/ CallEnds(l)
      PROVE  /\ UNCHANGED <<received, queue, accepted>> /\ running[l] \in Messages
             /\ \/ rows' = rows
                \/ \E y \in {<<running[l]>>, <<>>} : rows' = Append(rows, y)
                \/ \E s \in 1..Len(rows) : rows' = [rows EXCEPT ![s] = Append(rows[s], running[l])]
  <2>1. CASE Begin(l) \/ Raise(l)
    <3>1. PICK s \in 1..Len(rows) + 1 :
            \/ rows' = IF s > Len(rows) THEN Append(rows, <<running[l]>>)
                       ELSE [rows EXCEPT ![s] = Append(rows[s], running[l])]
            \/ rows' = IF s > Len(rows) THEN Append(rows, <<>>) ELSE rows
      BY <2>1 DEF Begin, Raise
    <3>2. UNCHANGED <<received, queue, accepted>> /\ running[l] \in Messages
      BY <1>0, <2>1 DEF Begin, Raise, Return, inbox, history
    <3> QED BY SMTT(30), <1>0, <3>1, <3>2
  <2>2. CASE CallEnds(l)
    BY <1>0, <2>2 DEF CallEnds, inbox, history
  <2> QED BY <1>1, <2>1, <2>2
<1>2. CASE \E l \in Lanes : Begin(l) \/ Raise(l) \/ CallEnds(l)
  <2>1. PICK l \in Lanes :
             /\ UNCHANGED <<received, queue, accepted>> /\ running[l] \in Messages
             /\ \/ rows' = rows
                \/ \E y \in {<<running[l]>>, <<>>} : rows' = Append(rows, y)
                \/ \E s \in 1..Len(rows) : rows' = [rows EXCEPT ![s] = Append(rows[s], running[l])]
    BY <1>1, <1>2
  <2>2. CASE \E y \in {<<running[l]>>, <<>>} : rows' = Append(rows, y)
    <3>1. PICK y \in {<<running[l]>>, <<>>} : rows' = Append(rows, y)
      BY <2>2
    <3>2. \A t \in 1..Len(Append(rows, y)) : \A k \in 1..Len(Append(rows, y)[t]) :
            \/ t \in 1..Len(rows) /\ k \in 1..Len(rows[t]) /\ Append(rows, y)[t][k] = rows[t][k]
            \/ k = Len(Append(rows, y)[t]) /\ Append(rows, y)[t][k] = running[l]
      BY ZenonT(30), <1>0, <2>1, PutAlone
    <3> QED BY <2>1, <3>1, <3>2
  <2>3. CASE \E s \in 1..Len(rows) : rows' = [rows EXCEPT ![s] = Append(rows[s], running[l])]
    <3>1. PICK s \in 1..Len(rows) : rows' = [rows EXCEPT ![s] = Append(rows[s], running[l])]
      BY <2>3
    <3> DEFINE r == [rows EXCEPT ![s] = Append(rows[s], running[l])]
    <3>2. \A t \in 1..Len(r) : \A k \in 1..Len(r[t]) :
            \/ t \in 1..Len(rows) /\ k \in 1..Len(rows[t]) /\ r[t][k] = rows[t][k]
            \/ k = Len(r[t]) /\ r[t][k] = running[l]
      BY <1>0, <2>1, PutBehind
    <3> QED BY <2>1, <3>1, <3>2
  <2> QED BY <2>1, <2>2, <2>3
<1>3. CASE \E l \in Lanes : Step(l) /\ ~(Begin(l) \/ Raise(l) \/ CallEnds(l))
  BY <1>3 DEF Step, Refuse, NoModel, Early, NextCall, CallFails, Reply, memory
<1>4. CASE Serve \/ NextText \/ \E m \in Requests : Request(m)
  BY <1>4 DEF Serve, NextText, Request, Dispatch, memory
<1> QED BY <1>2, <1>3, <1>4 DEF Next, Webhook, Text, Poll, StreamNext, Timeout, Expire, Restart, Outage, memory

LEMMA WholeStep == ASSUME TypeOK, Texted, Posted, InTurn, Behind, Whole, Next PROVE Behind' /\ Whole'
<1>0. /\ queue \in Seq(Posts) /\ accepted \in Seq(Posts)
      /\ Len(queue) \in Nat /\ Len(accepted) \in Nat /\ Served \in Int
      /\ \A i \in 1..Len(accepted) : accepted[i] \in Posts
  BY DEF TypeOK, Served
<1>1. CASE rows' = rows
  <2>1. ASSUME UNCHANGED accepted, Served' >= Served, received \subseteq received' PROVE Behind' /\ Whole'
    <3>1. Served' \in Int
      BY <2>1 DEF TypeOK, Served
    <3>2. ASSUME NEW t \in 1..Len(rows), NEW k \in 1..Len(rows[t])
          PROVE  /\ \A i \in 1..Len(accepted) : rows[t][k] = accepted[i] => i <= Served'
                 /\ rows[t][k] \in Posts => rows[t][k] \in received'
      BY SMTT(30), <1>0, <2>1, <3>1 DEF Behind
    <3>3. Behind'
      BY <1>1, <2>1, <3>2 DEF Behind
    <3>4. Whole'
      BY <1>1, <2>1 DEF Whole
    <3> QED BY <3>3, <3>4
  <2>2. ASSUME NEW m \in Posts, Webhook(m) PROVE Behind' /\ Whole'
    <3>1. /\ m \notin received /\ received' = received \cup {m} /\ queue' = Append(queue, m)
          /\ accepted' = Append(accepted, m)
      BY <2>2 DEF Webhook
    <3>2. /\ Len(accepted') = Len(accepted) + 1 /\ accepted'[Len(accepted) + 1] = m
          /\ \A i \in 1..Len(accepted) : accepted'[i] = accepted[i]
          /\ \A i \in 1..Len(accepted') : i \in 1..Len(accepted) \/ i = Len(accepted) + 1
      BY <1>0, <3>1, AddIndex
    <3>3. Len(queue') = Len(queue) + 1
      BY <1>0, <3>1, AddIndex
    <3>4. Served' = Served
      BY <1>0, <3>2, <3>3 DEF Served
    <3>5. \A s \in 1..Len(rows) : \A k \in 1..Len(rows[s]) : rows[s][k] # m
      BY <2>2, <3>1 DEF Behind
    <3>6. Behind'
      BY <1>1, <3>1, <3>2, <3>4, <3>5 DEF Behind
    <3>7. Whole'
      <4>1. ASSUME NEW t \in 1..Len(rows), NEW k \in 1..Len(rows[t]), NEW n \in 1..Len(rows[t]),
                   NEW i \in 1..Len(accepted'), NEW j \in 1..Len(accepted'),
                   rows[t][k] = accepted'[i], rows[t][n] = accepted'[j], k < n
            PROVE  i <= j
        <5>1. i \in 1..Len(accepted) /\ j \in 1..Len(accepted)
          BY <3>2, <3>5, <4>1
        <5>2. accepted'[i] = accepted[i] /\ accepted'[j] = accepted[j]
          BY <3>2, <5>1
        <5> QED BY <4>1, <5>1, <5>2 DEF Whole
      <4> QED BY <1>1, <4>1 DEF Whole
    <3> QED BY <3>6, <3>7
  <2>3. CASE Serve
    <3>1. UNCHANGED <<accepted, received>> /\ Len(queue') = Len(queue) - 1
      BY <1>0, <2>3, TailIndex DEF Serve, Dispatch
    <3> QED BY <1>0, <2>1, <3>1 DEF Served
  <2>4. CASE Restart
    <3>1. UNCHANGED <<accepted, received>> /\ queue' = <<>>
      BY <2>4 DEF Restart, history
    <3>2. Served' = Len(accepted') - Len(queue') /\ Len(accepted') = Len(accepted)
      BY <3>1 DEF Served
    <3>3. Len(queue') = 0
      BY <3>1
    <3> QED BY <1>0, <2>1, <3>1, <3>2, <3>3 DEF Served
  <2>5. CASE UNCHANGED <<accepted, queue>> /\ received \subseteq received'
    BY <1>0, <2>1, <2>5 DEF Served
  <2>6. \/ (\E m \in Posts : Webhook(m)) \/ Serve \/ Restart
        \/ UNCHANGED <<accepted, queue>> /\ received \subseteq received'
    <3>1. CASE \E l \in Lanes : Step(l)
      BY <3>1 DEF Step, Refuse, NoModel, Early, Return, Begin, Raise, CallEnds, NextCall, CallFails, Reply,
                  inbox, history
    <3>2. CASE NextText \/ \E m \in Requests : Request(m)
      BY <3>2 DEF NextText, Request, Dispatch
    <3> QED BY <3>1, <3>2 DEF Next, Text, Poll, StreamNext, Timeout, Expire, Outage, inbox, history
  <2> QED BY <2>2, <2>3, <2>4, <2>5, <2>6
<1>2. ASSUME NEW l \in Lanes, running[l] \in Messages, UNCHANGED <<received, queue, accepted>>,
             \A s \in 1..Len(rows') : \A k \in 1..Len(rows'[s]) :
                \/ s \in 1..Len(rows) /\ k \in 1..Len(rows[s]) /\ rows'[s][k] = rows[s][k]
                \/ k = Len(rows'[s]) /\ rows'[s][k] = running[l]
      PROVE  Behind' /\ Whole'
  <2>1. Served' = Served
    BY <1>2 DEF Served
  <2>2. running[l] \in Posts => Served \in 1..Len(accepted) /\ running[l] = accepted[Served]
    <3>1. running[l] # None
      BY <1>2, LaneKinds
    <3> QED BY <1>0, <3>1, LaneKinds DEF InTurn, Served
  <2>3. \A i \in 1..Len(accepted) : running[l] = accepted[i] => i = Served
    BY <1>0, <2>2 DEF InTurn
  <2>4. running[l] \in Posts => running[l] \in received
    BY <2>2 DEF InTurn
  <2>5. Behind'
    BY <1>0, <1>2, <2>1, <2>3, <2>4 DEF Behind
  <2>6. ASSUME NEW s \in 1..Len(rows'), NEW k \in 1..Len(rows'[s]), NEW n \in 1..Len(rows'[s]),
               NEW i \in 1..Len(accepted), NEW j \in 1..Len(accepted),
               rows'[s][k] = accepted[i], rows'[s][n] = accepted[j], k < n
        PROVE  i <= j
    <3>1. k # Len(rows'[s])
      BY <2>6
    <3>2. s \in 1..Len(rows) /\ k \in 1..Len(rows[s]) /\ rows[s][k] = accepted[i]
      BY <1>2, <2>6, <3>1
    <3>3. CASE n \in 1..Len(rows[s]) /\ rows'[s][n] = rows[s][n]
      BY <2>6, <3>2, <3>3 DEF Whole
    <3>4. CASE rows'[s][n] = running[l]
      <4>1. j = Served
        BY <2>3, <2>6, <3>4
      <4>2. i <= Served
        BY <3>2 DEF Behind
      <4> QED BY <4>1, <4>2
    <3> QED BY <1>2, <2>6, <3>3, <3>4
  <2>7. Whole'
    BY <1>2, <2>6 DEF Whole
  <2> QED BY <2>5, <2>7
<1> QED BY <1>1, <1>2, RowsGrow

\* serve dispatches one post after the other (router.py:291-295): in no session
\* do the rows of two of their turns mix, or come in another order.
THEOREM PostedTurnsAreWhole == Spec => []PostedTurnsStayWhole
<1>1. Init => Posted /\ Texted /\ InTurn /\ Behind /\ Whole
  <2> SUFFICES ASSUME Init PROVE Posted /\ Texted /\ InTurn /\ Behind /\ Whole
    OBVIOUS
  <2>1. /\ queue = <<>> /\ texts = <<>> /\ batch = <<>> /\ accepted = <<>> /\ cursor = 0 /\ received = {}
        /\ times = [m \in Messages |-> 0] /\ restarts = 0 /\ Len(<<>>) = 0
        /\ rows = <<>> /\ running = [l \in Lanes |-> None]
    BY DEF Init, Fresh
  <2> QED BY <2>1, LaneKinds DEF Posted, Texted, Done, InTurn, Served, Behind, Whole
<1>2. TypeOK /\ CallLeft /\ Posted /\ Texted /\ InTurn /\ Behind /\ Whole /\ [Next]_vars
        => Posted' /\ Texted' /\ InTurn' /\ Behind' /\ Whole'
  <2>1. UNCHANGED vars /\ Posted /\ Texted /\ InTurn /\ Behind /\ Whole
          => Posted' /\ Texted' /\ InTurn' /\ Behind' /\ Whole'
    BY DEF vars, inbox, lane, memory, history, bounds, Posted, Texted, Done, InTurn, Served, Behind, Whole
  <2> QED BY <2>1, PostedStep, TextedStep, InTurnStep, WholeStep
<1>3. TypeOK /\ Whole => PostedTurnsStayWhole
  <2> SUFFICES ASSUME TypeOK, Whole PROVE PostedTurnsStayWhole
    OBVIOUS
  <2>1. /\ DOMAIN accepted = 1..Len(accepted) /\ Sids = 1..Len(rows)
        /\ \A s \in 1..Len(rows) : DOMAIN rows[s] = 1..Len(rows[s])
    BY DEF TypeOK, Sids
  <2> QED BY <2>1 DEF Whole, PostedTurnsStayWhole
<1> QED BY <1>1, <1>2, <1>3, InitTypes, TypeStep, PTL DEF Spec
\* Posts and texts reach a session once and whole, whatever else is served.
THEOREM MessagesAreWhole == Spec => []MessagesAreServedWhole
<1>1. EachMessageOnce /\ PostedTurnsStayWhole => MessagesAreServedWhole
  BY DEF MessagesAreServedWhole
<1> QED BY <1>1, MessagesAreDispatchedOnce, PostedTurnsAreWhole, PTL
=============================================================================
