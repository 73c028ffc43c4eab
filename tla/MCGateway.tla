------------------------------ MODULE MCGateway ------------------------------
\* Gateway for TLC: what the messages are and who sends them.
EXTENDS Gateway

SomePayload == [m \in Posts \cup Texts |->
  CASE m \in Texts -> [platform |-> "imessage", kind |-> "text", signed |-> FALSE]
    [] m = "p1" -> [platform |-> "discord", kind |-> "slash", signed |-> TRUE]
    [] m = "p2" -> [platform |-> "slack", kind |-> "button", signed |-> FALSE]
    [] OTHER -> [platform |-> "discord", kind |-> "text", signed |-> FALSE]]

\* One person posts and uses the API, another one texts.
SomeUser == [m \in Messages |-> IF m \in Texts THEN "v" ELSE "u"]

(* Which messages are never sent, and how many of the restarts and of the  *)
(* expiries, and whether the outage, are used up: all of them at once are  *)
(* more than TLC can visit.                                                *)
Cases == {
  [absent |-> {"t1", "t2"}, restarts |-> 1, expiries |-> 1, outage |-> "over"],
  [absent |-> {"t2", "s1"}, restarts |-> 0, expiries |-> 1, outage |-> "over"],
  [absent |-> {"p2", "s1"}, restarts |-> 0, expiries |-> 1, outage |-> "over"],
  [absent |-> {"p2", "t2", "s1"}, restarts |-> 0, expiries |-> 1, outage |-> "none"],
  [absent |-> {"t1", "t2", "s1"}, restarts |-> 0, expiries |-> 0, outage |-> "none"],
  [absent |-> {"p2", "t1", "t2"}, restarts |-> 0, expiries |-> 0, outage |-> "over"]}

MCInit ==
  /\ Fresh
  /\ \E c \in Cases : received = c.absent /\ restarts = c.restarts /\ expiries = c.expiries /\ outage = c.outage
MCSpec == MCInit /\ [][Next]_vars /\ Fairness
=============================================================================
