----------------------------- MODULE SkillShelf -----------------------------
(* skills/lifecycle.py and ab.py: the rows that say whether a skill is        *)
(* pinned, active, stale or archived, and the matches that archive the weaker *)
(* of two. Every call is a transaction but sweep, which selects before its    *)
(* transaction begins, and a match, which replays before it writes.           *)
EXTENDS Integers, FiniteSets

CONSTANTS
  Shelved,          \* names of skills
  StaleAfter, ArchiveAfter,
  MaxDay,           \* bound of the clock
  MaxCalls,         \* bound of the calls
  NoSkillRow

ASSUME ShelfAssumption ==
  /\ StaleAfter \in Nat /\ ArchiveAfter \in Nat /\ StaleAfter <= ArchiveAfter
  /\ MaxDay \in Nat /\ MaxCalls \in Nat
  /\ NoSkillRow \notin [state : {"active", "stale", "archived"}, used : 0..MaxDay,
                        pinned : BOOLEAN, verified : BOOLEAN]

VARIABLES
  day,
  shelf,            \* of a skill, its row or NoSkillRow
  sweeping,         \* the sweep between its selection and its update, with its day
  match,            \* the match between its replays and its verdict
  archivedByUser,   \* history: archived and not revived since
  overtaken,        \* history: skills that changed while a sweep was under way
  shelfCalls

shelfVars == <<day, shelf, sweeping, match, archivedByUser, overtaken, shelfCalls>>

NoSweep == [on |-> FALSE, at |-> 0, stale |-> {}, proposed |-> {}]
NoMatch == [on |-> FALSE, winner |-> 0, loser |-> 0, best |-> 0, worst |-> 0]

-----------------------------------------------------------------------------

FreshRow == [state |-> "active", used |-> day, pinned |-> FALSE, verified |-> TRUE]

(* Skills change: those a sweep has selected, and those it had proposed.      *)
Overtakes(ns) ==
  /\ overtaken' = IF sweeping.on THEN overtaken \cup (ns \cap sweeping.stale) ELSE overtaken
  /\ sweeping' = [sweeping EXCEPT !.proposed = @ \ ns]

(* A call of one transaction: row becomes the row of the skill.               *)
Writes(n, row) ==
  /\ shelfCalls < MaxCalls /\ shelfCalls' = shelfCalls + 1
  /\ shelf' = [shelf EXCEPT ![n] = row]
  /\ Overtakes({n})
Known(n) == IF shelf[n] = NoSkillRow THEN FreshRow ELSE shelf[n]

(* touch: used now, and active again unless archived.                         *)
Touched(n) ==
  [Known(n) EXCEPT !.used = day, !.state = IF @ = "archived" THEN @ ELSE "active"]

Touch(n) ==
  /\ Writes(n, Touched(n))
  /\ UNCHANGED <<day, match, archivedByUser>>

Archived(n) == [Known(n) EXCEPT !.state = "archived", !.pinned = FALSE]

Archive(n) ==
  /\ Writes(n, Archived(n))
  /\ archivedByUser' = archivedByUser \cup {n}
  /\ UNCHANGED <<day, match>>

(* revive: nothing for a name without a row.                                  *)
Revive(n) ==
  /\ shelf[n] # NoSkillRow
  /\ Writes(n, [shelf[n] EXCEPT !.state = "active", !.used = day])
  /\ archivedByUser' = archivedByUser \ {n}
  /\ UNCHANGED <<day, match>>

Pin(n) ==
  /\ Writes(n, [Known(n) EXCEPT !.pinned = TRUE])
  /\ UNCHANGED <<day, match, archivedByUser>>

Unpin(n) ==
  /\ shelf[n] # NoSkillRow
  /\ Writes(n, [shelf[n] EXCEPT !.pinned = FALSE])
  /\ UNCHANGED <<day, match, archivedByUser>>

MarkCandidate(n) ==
  /\ Writes(n, [Known(n) EXCEPT !.verified = FALSE])
  /\ UNCHANGED <<day, match, archivedByUser>>

(* state_of: what a row means today.                                          *)
StateOf(n) ==
  LET row == shelf[n] IN
  CASE row = NoSkillRow -> "active"
    [] row # NoSkillRow /\ row.pinned -> "pinned"
    [] row # NoSkillRow /\ ~row.pinned /\ row.state = "archived" -> "archived"
    [] OTHER -> IF day - row.used >= StaleAfter THEN "stale" ELSE "active"

(* sweep: the rows it selects, and what it will propose to archive. It reads  *)
(* the clock once, for both.                                                  *)
SweepSelects ==
  /\ ~sweeping.on /\ shelfCalls < MaxCalls
  /\ shelfCalls' = shelfCalls + 1
  /\ sweeping' =
       [on |-> TRUE, at |-> day,
        stale |-> {n \in Shelved : /\ shelf[n] # NoSkillRow /\ ~shelf[n].pinned
                                   /\ shelf[n].state = "active"
                                   /\ shelf[n].used <= day - StaleAfter},
        proposed |-> {}]
  /\ UNCHANGED <<day, shelf, match, archivedByUser, overtaken>>

(* Mutant of Proposable: the pin is forgotten.                                *)
ProposablePinned(n) ==
  /\ shelf[n] # NoSkillRow
  /\ shelf[n].state # "archived" /\ shelf[n].used <= sweeping.at - ArchiveAfter

Proposable(n) ==
  /\ shelf[n] # NoSkillRow /\ ~shelf[n].pinned
  /\ shelf[n].state # "archived" /\ shelf[n].used <= sweeping.at - ArchiveAfter

(* The update goes by the name alone. Only then is there a transaction.       *)
SweepUpdates ==
  /\ sweeping.on
  /\ shelf' = [n \in Shelved |-> IF n \in sweeping.stale
                                 THEN [shelf[n] EXCEPT !.state = "stale"] ELSE shelf[n]]
  /\ sweeping' = [sweeping EXCEPT !.on = FALSE, !.proposed = {n \in Shelved : Proposable(n)}]
  /\ UNCHANGED <<day, match, archivedByUser, overtaken, shelfCalls>>

-----------------------------------------------------------------------------

(* compute_verdict: more replays passed, then the lower cost, then the first. *)
Wins(a, b) == a.passed > b.passed \/ (a.passed = b.passed /\ a.cost <= b.cost)

(* run_ab, and decide_and_persist unless no case passed.                      *)
Replayed(m, n, a, b) ==
  /\ ~match.on /\ m # n /\ shelfCalls < MaxCalls
  /\ shelfCalls' = shelfCalls + 1
  /\ match' = IF a.passed = 0 /\ b.passed = 0 THEN NoMatch
              ELSE IF Wins(a, b)
              THEN [on |-> TRUE, winner |-> m, loser |-> n, best |-> a.passed, worst |-> b.passed]
              ELSE [on |-> TRUE, winner |-> n, loser |-> m, best |-> b.passed, worst |-> a.passed]
  /\ UNCHANGED <<day, shelf, sweeping, archivedByUser, overtaken>>

(* verify of the winner, then archive of the loser; the process may die in    *)
(* between.                                                                   *)
Decided ==
  /\ match.on
  /\ \E finished \in BOOLEAN :
       shelf' = [n \in Shelved |->
         CASE n = match.winner -> [Known(n) EXCEPT !.verified = TRUE]
           [] n = match.loser /\ finished -> Archived(n)
           [] OTHER -> shelf[n]]
  /\ Overtakes({match.winner, match.loser})
  /\ match' = NoMatch
  /\ UNCHANGED <<day, archivedByUser, shelfCalls>>

-----------------------------------------------------------------------------

DayPasses ==
  /\ day < MaxDay /\ day' = day + 1
  /\ UNCHANGED <<shelf, sweeping, match, archivedByUser, overtaken, shelfCalls>>

ShelfInit ==
  /\ day = 0
  /\ shelf = [n \in Shelved |-> NoSkillRow]
  /\ sweeping = NoSweep /\ match = NoMatch
  /\ archivedByUser = {} /\ overtaken = {} /\ shelfCalls = 0

Results == [passed : 0..1, cost : 0..1]

ShelfNext ==
  \/ \E n \in Shelved :
       \/ Touch(n) \/ Archive(n) \/ Revive(n) \/ Pin(n) \/ Unpin(n) \/ MarkCandidate(n)
       \/ \E m \in Shelved, a, b \in Results : Replayed(m, n, a, b)
  \/ SweepSelects \/ SweepUpdates \/ Decided \/ DayPasses

ShelfSpec == ShelfInit /\ [][ShelfNext]_shelfVars

-----------------------------------------------------------------------------

(* What the user archived stays out of sight until it is revived or pinned,   *)
(* unless a sweep had selected it before; what a sweep proposes to archive is *)
(* stale, for long enough, neither pinned nor archived, until somebody uses   *)
(* or changes it; and a match never archives the better of two skills.        *)
ShelfIsKept ==
  /\ \A n \in archivedByUser \ overtaken : StateOf(n) \in {"archived", "pinned"}
  /\ \A n \in sweeping.proposed : StateOf(n) = "stale" /\ day - shelf[n].used >= ArchiveAfter
  /\ match.on => match.best >= match.worst
=============================================================================
