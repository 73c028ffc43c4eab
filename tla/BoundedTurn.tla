----------------------------- MODULE BoundedTurn -----------------------------
(***************************************************************************)
(* What a caller of the agent may rely on, whatever happens inside a turn: *)
(* once started, the turn makes at most Limit requests to the model it was *)
(* given, its own and those of every subagent together, retries and        *)
(* summaries included, and it comes to an end.  What its tools ask of      *)
(* other models is no part of the promise.                                 *)
(* AgentTurn is shown to implement this specification.                     *)
(***************************************************************************)
EXTENDS Naturals

CONSTANT Limit      \* requests one turn may make, a natural number

VARIABLES phase,    \* "running" while a turn is in progress, else "idle"
          left      \* the requests it may still make

vars == <<phase, left>>

Init == phase = "idle" /\ left = Limit

\* A turn starts with a fresh allowance.
Start ==
  /\ phase = "idle"
  /\ phase' = "running"
  /\ left' = Limit

\* One request to the model.
Ask ==
  /\ phase = "running"
  /\ left > 0
  /\ left' = left - 1
  /\ UNCHANGED phase

\* The turn returns, fails, is interrupted or dies with its process.
Stop ==
  /\ phase = "running"
  /\ phase' = "idle"
  /\ UNCHANGED left

Next == Start \/ Ask \/ Stop

Safe == Init /\ [][Next]_vars

\* Every turn ends.
Ends == phase = "running" ~> phase = "idle"

Spec == Safe /\ Ends
=============================================================================
