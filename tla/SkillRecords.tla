---------------------------- MODULE SkillRecords ----------------------------
(* What is recorded of skills. skills/scoring.py: the counters of the skills  *)
(* and the score that keeps the bad ones out of the suggestions. Every record *)
(* is one increment in one transaction, so the calls of several processes add *)
(* up; shares are held here as fractions, in thousandths of the score.        *)
(* skills/git.py: a change of a skill is staged, compared with the last       *)
(* commit and committed by three runs of git; processes that do so at once    *)
(* share one index, and a commit takes everything that is staged.             *)
(* curator/meta.py: at most MaxProposals skill proposals are accepted per     *)
(* sliding window of Window ticks; the rest is dropped.                       *)
EXTENDS SkillShelf, Sequences

CONSTANTS
  Scored,           \* names of skills
  MaxCount          \* bound of each counter

ASSUME ScoreAssumption == MaxCount \in Nat

VARIABLE scores

Counters == {"invocations", "successes", "failures", "thumbs_up", "thumbs_down"}

(* _upsert: the counter of the skill, and no other. Nothing ties an outcome   *)
(* to an invocation: each is recorded by a call of its own.                   *)
Record(n, c) ==
  /\ scores[n][c] < MaxCount
  /\ scores' = [scores EXCEPT ![n][c] = @ + 1]

-----------------------------------------------------------------------------

(* quality_score as numerator and denominator: seven tenths of the share of   *)
(* successes, three tenths of the share of thumbs up, at most one.            *)
Calls(s) == IF s.invocations = 0 THEN 1 ELSE s.invocations
Won(s) == IF s.invocations = 0 THEN 1 ELSE s.successes
Thumbs(s) == IF s.thumbs_up + s.thumbs_down = 0 THEN 2 ELSE 2 * (s.thumbs_up + s.thumbs_down)
Liked(s) == IF s.thumbs_up + s.thumbs_down = 0 THEN 1 ELSE 2 * s.thumbs_up

Whole(s) == 10 * Calls(s) * Thumbs(s)
Quality(s) ==
  LET q == 7 * Won(s) * Thumbs(s) + 3 * Liked(s) * Calls(s) IN
  IF q > Whole(s) THEN Whole(s) ELSE q

(* Mutant of Suggested: a score at the threshold is below it.                 *)
SuggestedAbove(s) == 100 * Quality(s) > 35 * Whole(s)

(* should_suggest, at DEFAULT_SUGGEST_THRESHOLD.                              *)
Suggested(s) == 100 * Quality(s) >= 35 * Whole(s)

-----------------------------------------------------------------------------

ScoresInit == scores = [n \in Scored |-> [c \in Counters |-> 0]]

ScoresNext == \E n \in Scored, c \in Counters : Record(n, c)

ScoresSpec == ScoresInit /\ [][ScoresNext]_scores

(* Only failing is demoted: half the calls are enough for a skill, whatever   *)
(* its thumbs say; without a single success no number of thumbs helps; and a  *)
(* skill nobody has called is demoted by nothing. In between the thumbs       *)
(* decide, and one more of them never works against its direction.            *)
DemotionIsEarned ==
  \A n \in Scored :
    LET s == scores[n] IN
    /\ 2 * s.successes >= s.invocations => Suggested(s)
    /\ s.invocations > 0 /\ s.successes = 0 => ~Suggested(s)
    /\ Suggested(s) => /\ Suggested([s EXCEPT !.thumbs_up = @ + 1])
                       /\ Suggested([s EXCEPT !.successes = @ + 1])
    /\ ~Suggested(s) /\ s.thumbs_up + s.thumbs_down > 0 =>
         ~Suggested([s EXCEPT !.thumbs_down = @ + 1])

-----------------------------------------------------------------------------
\* skills/git.py

CONSTANTS
  Committers,       \* callers of commit_skill_change
  Tracked,          \* names of skills
  MaxVersions       \* bound of the edits

ASSUME HistoryAssumption == MaxVersions \in Nat

VARIABLES
  text,             \* of a skill, the version of its file, 0 if none
  index,            \* of a skill, the version git has staged
  commits,          \* the log, oldest first
  committer,        \* of a caller, where it is, and the commit it was told
  adder,            \* history: who staged the version in the index
  mixed             \* history: skills one call staged while another was under way

historyVars == <<text, index, commits, committer, adder, mixed>>

Idle == [phase |-> "idle", skill |-> 0, added |-> 0, told |-> 0]

(* The version of a skill in the last commit that touches it.                 *)
Touching(n) == {i \in DOMAIN commits : commits[i].versions[n] # 0}
LastTouching(n) == CHOOSE i \in Touching(n) : \A j \in Touching(n) : j <= i
AtHead(n) == IF Touching(n) = {} THEN 0 ELSE commits[LastTouching(n)].versions[n]

Busy == {c \in Committers : committer[c].phase # "idle"}

-----------------------------------------------------------------------------

(* Somebody writes the file of a skill.                                       *)
Edited(n) ==
  /\ text[n] < MaxVersions
  /\ text' = [text EXCEPT ![n] = @ + 1]
  /\ UNCHANGED <<index, commits, committer, adder, mixed>>

(* ensure_repo, and git add. It fails when another git holds the index.       *)
Add(c, n) ==
  /\ committer[c].phase = "idle" /\ text[n] # 0
  /\ index' = [index EXCEPT ![n] = text[n]]
  /\ adder' = IF index[n] = text[n] THEN adder ELSE [adder EXCEPT ![n] = c]
  /\ committer' = [committer EXCEPT ![c] =
                     [phase |-> "added", skill |-> n, added |-> text[n], told |-> 0]]
  /\ mixed' = IF Busy = {} THEN mixed ELSE mixed \cup {n} \cup {committer[b].skill : b \in Busy}
  /\ UNCHANGED <<text, commits>>

(* Mutant of Differs: git diff without --cached, the file against the index.  *)
DiffersFromFile(n) == index[n] # text[n]

(* git diff --cached                                                          *)
Differs(n) == index[n] # AtHead(n)

Checked(c) ==
  /\ committer[c].phase = "added"
  /\ committer' = [committer EXCEPT ![c] =
                     IF Differs(committer[c].skill) THEN [@ EXCEPT !.phase = "differs"] ELSE Idle]
  /\ UNCHANGED <<text, index, commits, adder, mixed>>

(* git commit: everything staged, under this caller's name, and an error if   *)
(* another call has committed it meanwhile.                                   *)
Staged == {n \in Tracked : index[n] # AtHead(n)}

Commit(c) ==
  /\ committer[c].phase = "differs"
  /\ IF Staged = {}
     THEN UNCHANGED commits /\ committer' = [committer EXCEPT ![c] = Idle]
     ELSE /\ commits' = Append(commits, [by |-> c, versions |->
                                 [n \in Tracked |-> IF n \in Staged THEN index[n] ELSE 0]])
          /\ committer' = [committer EXCEPT ![c].phase = "committed"]
  /\ UNCHANGED <<text, index, adder, mixed>>

(* skill_log, limit 1: the newest commit of the skill, whoever made it.       *)
Logged(c) ==
  /\ committer[c].phase = "committed"
  /\ committer' = [committer EXCEPT ![c] = [Idle EXCEPT !.skill = committer[c].skill,
                                              !.added = committer[c].added,
                                              !.told = LastTouching(committer[c].skill)]]
  /\ UNCHANGED <<text, index, commits, adder, mixed>>

(* A git command fails, on the lock of another one, or the process dies.      *)
GivesUp(c) ==
  /\ committer[c].phase \in {"added", "differs"}
  /\ committer' = [committer EXCEPT ![c] = Idle]
  /\ mixed' = mixed \cup {committer[c].skill}
  /\ UNCHANGED <<text, index, commits, adder>>

HistoryInit ==
  /\ text = [n \in Tracked |-> 0] /\ index = text /\ commits = <<>>
  /\ committer = [c \in Committers |-> Idle]
  /\ adder = [n \in Tracked |-> CHOOSE c \in Committers : TRUE] /\ mixed = {}

HistoryNext ==
  \/ \E n \in Tracked : Edited(n) \/ \E c \in Committers : Add(c, n)
  \/ \E c \in Committers : Checked(c) \/ Commit(c) \/ Logged(c) \/ GivesUp(c)

HistorySpec == HistoryInit /\ [][HistoryNext]_historyVars

-----------------------------------------------------------------------------

(* With nobody under way, and no call broken off, what was staged is in the   *)
(* log; a call that is told of a commit finds its own version there or a      *)
(* later one; the versions of a skill in the log only go up; and a change is  *)
(* under the name of the call that staged it, unless another call staged      *)
(* something at the same time or was broken off and left it in the index.     *)
EditsReachTheLog ==
  /\ Busy = {} => Staged \subseteq mixed
  /\ \A c \in Committers :
       LET told == committer[c].told IN
       told # 0 => commits[told].versions[committer[c].skill] >= committer[c].added
  /\ \A n \in Tracked : \A i, j \in Touching(n) :
       i < j => commits[i].versions[n] < commits[j].versions[n]
  /\ \A n \in Tracked \ mixed :
       Touching(n) # {} /\ n \notin Staged => commits[LastTouching(n)].by = adder[n]

-----------------------------------------------------------------------------

CONSTANTS
  MaxProposals, Window,
  MaxTick         \* bound on the clock

ASSUME LimitAssumption ==
  MaxProposals \in Nat \ {0} /\ Window \in Nat \ {0} /\ MaxTick \in Nat   \* MetaCurator.__init__

VARIABLES
  tick,           \* the clock; it never goes back
  stamps,         \* _timestamps, each as its number among the accepted ones
  admitted,       \* the instants of all that was accepted, in order
  refused         \* a proposal is dropped at this instant
limitVars == <<tick, stamps, admitted, refused>>

(* Mutant: the window is open at its old end.                                 *)
Pruned_Open(held) == {i \in held : admitted[i] > tick - Window}

(* _prune: the window is closed at its old end.                               *)
Pruned(held) == {i \in held : admitted[i] >= tick - Window}

(* accept, proposal by proposal; the stamp reads the clock again.             *)
Takes ==
  /\ Cardinality(Pruned(stamps)) < MaxProposals
  /\ tick' \in tick..tick + 1 /\ tick' <= MaxTick
  /\ admitted' = Append(admitted, tick')
  /\ stamps' = Pruned(stamps) \cup {Len(admitted) + 1}
  /\ refused' = FALSE

Drops ==
  /\ Cardinality(Pruned(stamps)) >= MaxProposals
  /\ stamps' = Pruned(stamps) /\ refused' = TRUE /\ UNCHANGED <<tick, admitted>>

(* is_throttled, remaining, accepted_count prune as well.                     *)
Look ==
  /\ stamps' = Pruned(stamps) /\ UNCHANGED <<tick, admitted, refused>>

ResetLimit ==
  /\ stamps' = {} /\ admitted' = <<>> /\ refused' = FALSE
  /\ UNCHANGED tick

TickPasses ==
  /\ tick < MaxTick /\ tick' = tick + 1
  /\ refused' = FALSE /\ UNCHANGED <<stamps, admitted>>

LimitInit ==
  /\ tick = 0 /\ stamps = {} /\ admitted = <<>> /\ refused = FALSE

LimitNext == Takes \/ Drops \/ Look \/ ResetLimit \/ TickPasses

LimitSpec == LimitInit /\ [][LimitNext]_limitVars

-----------------------------------------------------------------------------
(* No window of that length, wherever it begins, has more than MaxProposals   *)
(* accepted proposals in it, whatever was pruned in between; and a proposal   *)
(* is dropped only when the window that ends now is full.                     *)
ProposalsAreLimited ==
  /\ \A i \in DOMAIN admitted :
       i + MaxProposals \in DOMAIN admitted =>
         admitted[i + MaxProposals] - admitted[i] > Window
  /\ refused => Cardinality({i \in DOMAIN admitted : admitted[i] >= tick - Window}) = MaxProposals

-----------------------------------------------------------------------------
(* What the records of skills promise: the shelf and its day-by-day           *)
(* demotions, the scores, the history of edits and the limit on proposals.    *)
SkillRecordsHold ==
  /\ ShelfIsKept /\ DemotionIsEarned /\ EditsReachTheLog /\ ProposalsAreLimited
=============================================================================
