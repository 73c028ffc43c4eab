------------------------------ MODULE Routing -------------------------------
(* llm/failover.py, bandit.py and router_stats.py around the calls of the     *)
(* turns that overlap in one process: a bandit picks a profile,               *)
(* the chain behind it goes from provider to provider, every call that ends   *)
(* leaves a row, and the turn that ends moves the profile's arm.              *)
EXTENDS Integers, Sequences

CONSTANTS
  Turns,
  Profiles,         \* each with a chain, and a model, of its own
  ChainLength,      \* providers 1..ChainLength
  MaxPassed,        \* bound of the chunks of one call
  MaxRows           \* bound of the rows of the statistics

ASSUME RoutingAssumption ==
  /\ ChainLength \in Nat \ {0} /\ MaxPassed \in Nat /\ MaxRows \in Nat

VARIABLES
  flow,             \* of a turn, its profile, its provider, what it has passed on
  arms,             \* of a profile, what was added to its prior, by kind
  rows,             \* router_calls, by profile and kind
  ended,            \* history: turns of a profile that ended in this process
  seeded            \* history: rows this process has put into the arms

routingVars == <<flow, arms, rows, ended, seeded>>

Kinds == {"chat", "tool"}
Waiting == [phase |-> "waiting", profile |-> 0, at |-> 1, passed |-> <<>>, failed |-> <<>>]
Zero == [p \in Profiles |-> [k \in Kinds |-> 0]]

-----------------------------------------------------------------------------

(* ThompsonBandit.pick: a sample may favour any profile.                      *)
Picks(t) ==
  /\ flow[t].phase = "waiting"
  /\ \E p \in Profiles : flow' = [flow EXCEPT ![t] = [Waiting EXCEPT !.phase = "calling", !.profile = p]]
  /\ UNCHANGED <<arms, rows, ended, seeded>>

(* FailoverChain.stream hands on what the provider sends.                     *)
Passes(t) ==
  /\ flow[t].phase = "calling" /\ Len(flow[t].passed) < MaxPassed
  /\ flow' = [flow EXCEPT ![t].passed = Append(@, flow[t].at)]
  /\ UNCHANGED <<arms, rows, ended, seeded>>

(* Mutant of NextProvider: it goes past the provider it has announced.        *)
NextProviderSkipped(i) == i + 2

NextProvider(i) == i + 1

(* A provider fails: an event that names it and the next, which starts anew   *)
(* behind the chunks that were handed on. A full context is for the caller.   *)
ProviderFails(t) ==
  LET i == flow[t].at
      next == IF i < ChainLength THEN i + 1 ELSE 0 IN
  /\ flow[t].phase = "calling"
  /\ \/ flow' = [flow EXCEPT ![t].phase = "failed"]
     \/ flow' = [flow EXCEPT ![t].failed = Append(@, [primary |-> i, fallback |-> next]),
                             ![t].at = IF next = 0 THEN i ELSE NextProvider(i),
                             ![t].phase = IF next = 0 THEN "failed" ELSE @]
  /\ UNCHANGED <<arms, rows, ended, seeded>>

(* record_call: only a call that has ended well gets here, and the row names  *)
(* the first provider of the chain. A call with tools is followed by another. *)
CallEnds(t) ==
  LET p == flow[t].profile IN
  /\ flow[t].phase = "calling" /\ rows[p]["chat"] + rows[p]["tool"] < MaxRows
  /\ \E k \in Kinds :
       /\ rows' = [rows EXCEPT ![p][k] = @ + 1]
       /\ flow' = [flow EXCEPT ![t] = IF k = "tool" THEN [Waiting EXCEPT !.phase = "calling", !.profile = p]
                                      ELSE [@ EXCEPT !.phase = "answered"]]
  /\ UNCHANGED <<arms, ended, seeded>>

(* reward_signal: success, in time and within the cost.                       *)
Rewards(phase) == {phase = "answered", FALSE}

(* update, under the kind of the event, which is the gateway's, not the call's.*)
TurnRewarded(t) ==
  LET p == flow[t].profile IN
  /\ flow[t].phase \in {"answered", "failed"}
  /\ \E good \in Rewards(flow[t].phase) :
       arms' = IF good THEN [arms EXCEPT ![p].good["chat"] = @ + 1]
               ELSE [arms EXCEPT ![p].bad["chat"] = @ + 1]
  /\ ended' = [ended EXCEPT ![p] = @ + 1]
  /\ flow' = [flow EXCEPT ![t] = [Waiting EXCEPT !.phase = "done"]]
  /\ UNCHANGED <<rows, seeded>>

NoArm == [good |-> [k \in Kinds |-> 0], bad |-> [k \in Kinds |-> 0]]

(* The process starts again: turns in flight and the arms are gone.           *)
RoutingRestarts ==
  /\ flow' = [t \in Turns |-> Waiting]
  /\ arms' = [p \in Profiles |-> NoArm] /\ ended' = [p \in Profiles |-> 0] /\ seeded' = Zero
  /\ UNCHANGED rows

(* p50_table: the rows by profile and kind, of which each is a success.       *)
P50Table == rows

(* seed_from_stats. Before the first turn; once more would count rows twice.  *)
Seeds ==
  /\ seeded = Zero /\ \A t \in Turns : flow[t].phase = "waiting"
  /\ rows # Zero
  /\ arms' = [p \in Profiles |-> [arms[p] EXCEPT !.good = [k \in Kinds |-> @[k] + P50Table[p][k]]]]
  /\ seeded' = P50Table
  /\ UNCHANGED <<flow, rows, ended>>

RoutingInit ==
  /\ flow = [t \in Turns |-> Waiting]
  /\ arms = [p \in Profiles |-> NoArm] /\ rows = Zero
  /\ ended = [p \in Profiles |-> 0] /\ seeded = Zero

RoutingNext ==
  \/ \E t \in Turns : Picks(t) \/ Passes(t) \/ ProviderFails(t) \/ CallEnds(t) \/ TurnRewarded(t)
  \/ RoutingRestarts \/ Seeds

RoutingSpec == RoutingInit /\ [][RoutingNext]_routingVars

-----------------------------------------------------------------------------

(* However turns overlap, the arm of a profile holds the turns of that        *)
(* profile and the rows it was seeded with; what a call has handed on comes   *)
(* from the providers in their order, from more than one only when those      *)
(* before it have failed; every provider before the present one has an event, *)
(* and the event names the provider that was tried next.                      *)
RoutingIsBooked ==
  /\ \A p \in Profiles :
       arms[p].good["chat"] + arms[p].bad["chat"] + arms[p].good["tool"] + arms[p].bad["tool"]
         = ended[p] + seeded[p]["chat"] + seeded[p]["tool"]
  /\ \A t \in Turns :
       LET f == flow[t] IN
       /\ \A i, j \in DOMAIN f.passed : i < j => f.passed[i] <= f.passed[j]
       /\ \A i \in DOMAIN f.passed : f.passed[i] <= f.at
       /\ f.phase = "calling" =>
            /\ Len(f.failed) = f.at - 1
            /\ \A i \in DOMAIN f.failed : f.failed[i] = [primary |-> i, fallback |-> i + 1]
=============================================================================
