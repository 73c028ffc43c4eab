---------------------------- MODULE ContextView ----------------------------
(* What a model call is shown of a session: compact_session as the agent loop *)
(* uses it, at one ratio of the budget and, after a ContextOverflow, at a     *)
(* lower one. A message is its role, its tokens and, of an assistant, the     *)
(* number of its tool calls. No session has rows of the role "system".        *)
EXTENDS Integers, FiniteSetsExt, SequencesExt

CONSTANTS
  Sizes,          \* tokens of a message
  Threshold,      \* budget times compaction_target_ratio
  LowThreshold,   \* budget times compaction_aggressive_ratio
  TailBudget,     \* budget times tail_ratio
  MinToCompact,   \* min_messages_to_compact
  MaxToolCalls,      \* bound of the tool calls of a reply
  MaxMessages     \* bound of the session

ASSUME ViewAssumption ==
  Sizes \subseteq Nat \ {0} /\ MaxToolCalls \in Nat /\ MaxMessages \in Nat

VARIABLES
  messages,     \* the rows of the session
  view,         \* what the model call under way is given
  cut,          \* that view is the last three rows, for want of a tail
  attempt       \* 0 when there is no call, 1, and 2 after a ContextOverflow

viewVars == <<messages, view, cut, attempt>>

Message(role, size, calls) == [role |-> role, size |-> size, calls |-> calls]
SummaryRow == Message("assistant", 1, 0)
Tokens(s) == MapThenSumSet(LAMBDA i : s[i].size, DOMAIN s)
From(s, i) == SubSeq(s, i, Len(s))

(* The tool rows directly behind a row.                                       *)
Results(s, i) ==
  LET ends == {j \in (i + 1)..Len(s) : s[j].role # "tool"} \cup {Len(s) + 1}
  IN Min(ends) - i - 1

(* What a provider accepts: each call has its result, each result its call.   *)
Accepted(s) ==
  \A i \in DOMAIN s :
    /\ s[i].role # "tool" => Results(s, i) = s[i].calls
    /\ i = 1 => s[i].role # "tool"

(* The last rows that fit, and at least one.                                  *)
TailStart(s) ==
  Min({i \in DOMAIN s : Tokens(From(s, i)) <= TailBudget} \cup {Len(s)})

(* Tool rows at the start of the tail stay (mutant).                          *)
TailStartAsItFits(s) == TailStart(s)

(* Without the tool rows whose call is before them; 0 for an empty tail.      *)
RepairedStart(s) ==
  LET left == {i \in TailStart(s)..Len(s) : s[i].role # "tool"}
  IN IF left = {} THEN 0 ELSE Min(left)

(* A first row with unanswered calls loses them.                              *)
Stripped(s) ==
  IF s[1].role = "assistant" /\ Results(s, 1) < s[1].calls
  THEN [s EXCEPT ![1].calls = 0] ELSE s

Compacts(s, threshold) == Len(s) >= MinToCompact /\ Tokens(s) > threshold

(* compact_session, and whether it fell back to the last three rows.          *)
Compacted(s, threshold) ==
  LET start == RepairedStart(s)
      from == IF start = 0 THEN Max({1, Len(s) - 2}) ELSE start
      kept == From(s, from) IN
  IF ~Compacts(s, threshold) \/ from = 1
  THEN [rows |-> s, cut |-> FALSE]
  ELSE [rows |-> <<SummaryRow>> \o IF start = 0 THEN kept ELSE Stripped(kept),
        cut |-> start = 0]

-----------------------------------------------------------------------------

Idle == attempt = 0
LastRow == Last(messages)
Unanswered == IF messages = <<>> THEN 0
           ELSE LET i == Max({j \in DOMAIN messages : messages[j].role # "tool"})
                IN messages[i].calls - Results(messages, i)
Adds(row) == Len(messages) < MaxMessages /\ messages' = Append(messages, row)

(* A turn begins; the one before may have broken off with calls unanswered.   *)
UserSays(n) ==
  /\ Idle
  /\ Adds(Message("user", n, 0))
  /\ UNCHANGED <<view, cut, attempt>>

(* run_turn builds the view when every call is answered.                      *)
BuildView ==
  LET v == Compacted(messages, Threshold) IN
  /\ Idle /\ messages # <<>> /\ Unanswered = 0
  /\ LastRow.role # "assistant"
  /\ view' = v.rows /\ cut' = v.cut
  /\ attempt' = 1
  /\ UNCHANGED messages

(* The first ContextOverflow builds a second view from the same rows.         *)
ContextOverflow ==
  LET v == Compacted(messages, LowThreshold) IN
  /\ attempt = 1
  /\ view' = v.rows /\ cut' = v.cut
  /\ attempt' = 2
  /\ UNCHANGED messages

(* A second one, or any other failure of the model or of the summary, ends    *)
(* the turn.                                                                  *)
CallEnds ==
  /\ ~Idle
  /\ attempt' = 0 /\ view' = <<>> /\ cut' = FALSE
  /\ UNCHANGED messages

ReplyStored(n, k) ==
  /\ ~Idle
  /\ Adds(Message("assistant", n, k))
  /\ attempt' = 0 /\ view' = <<>> /\ cut' = FALSE

ResultStored(n) ==
  /\ Idle /\ Unanswered > 0
  /\ Adds(Message("tool", n, 0))
  /\ UNCHANGED <<view, cut, attempt>>

ViewInit == messages = <<>> /\ view = <<>> /\ cut = FALSE /\ attempt = 0

ViewNext ==
  \/ \E n \in Sizes :
       \/ UserSays(n) \/ ResultStored(n)
       \/ \E k \in 0..MaxToolCalls : ReplyStored(n, k)
  \/ BuildView \/ ContextOverflow \/ CallEnds

ViewSpec == ViewInit /\ [][ViewNext]_viewVars

-----------------------------------------------------------------------------

ViewTypes ==
  /\ \A s \in {messages, view} : \A i \in DOMAIN s :
       /\ s[i].role \in {"user", "assistant", "tool"}
       /\ s[i].size \in Sizes \cup {1} /\ s[i].calls \in 0..MaxToolCalls
  /\ cut \in BOOLEAN
  /\ attempt \in 0..2

(* When a provider accepts the rows of a session it accepts what compaction   *)
(* makes of them, wherever the tail begins and at either ratio; except where  *)
(* no tail was left and the last three rows are taken as they are.            *)
ViewIsAccepted == ~Idle /\ Accepted(messages) /\ ~cut => Accepted(view)
=============================================================================
