---------------------------- MODULE SkillWorkshop ----------------------------
(***************************************************************************)
(* Skills of one workspace: the Skill Workshop's proposals                 *)
(* (sera/skills/workshop.py), the package it writes (scaffold.py), the     *)
(* replay gate (verify.py), the lifecycle rows (lifecycle.py), the A/B     *)
(* harness (ab.py) and the registries that serve skills to turns           *)
(* (loader.py, gateway/router.py).                                         *)
(*                                                                         *)
(* Commands run in processes of their own: each of their steps is one      *)
(* transaction or one file operation, and a command may die between two.   *)
(* A rewritten manifest gets a new mtime.  The rows of the lifecycle that   *)
(* nothing here calls (pin, unpin, revive, sweep) are in SkillShelf.       *)
(***************************************************************************)
EXTENDS Integers, Sequences, FiniteSets

CONSTANTS
  Names,         \* skill names
  Bodies,        \* contents of a SKILL.md
  Risky,         \* the bodies _classify_risk calls high
  DefaultBody,   \* what `sera skills scaffold` writes
  UserSkills,    \* skills that are there from the start, written by the user
  Passes(_, _),  \* Passes(b, r): body b passes the replay derived from body r
  None,          \* no file
  Torn,          \* a file that is open for writing, and empty
  Workers,       \* processes that run a command
  Runtimes,      \* processes that run turns
  MaxProposals,  \* bound: rows of the proposal store
  MaxJobs,       \* bound: commands in all
  MaxCrashes     \* bound: commands that die

ASSUME BodiesAssumption ==
  /\ Risky \subseteq Bodies /\ DefaultBody \in Bodies \ Risky
  /\ None \notin Bodies /\ Torn \notin Bodies /\ None # Torn
ASSUME NamesAssumption == Names # {} /\ UserSkills \subseteq Names
ASSUME BoundsAssumption == MaxProposals \in Nat /\ MaxJobs \in Nat /\ MaxCrashes \in Nat

VARIABLES
  proposals,  \* the proposal store: [name, body, status] by id
  disk,       \* disk[n]: the SKILL.md of n
  mtime,      \* mtime[n]: its modification time
  replay,     \* replay[n]: the body its replay.yaml was derived from
  verified,   \* names whose row is verified, or that have no row
  archived,   \* names whose row is archived
  job,        \* job[w]: the command worker w runs, and where it is
  jobs,       \* commands started so far
  crashes,    \* commands that died so far
  scan,       \* scan[r]: what discover_skills of runtime r has loaded
  scanning,   \* runtimes between discover_skills and the registration
  live,       \* live[r][n]: the body that skill n serves in r, and the mtime tracked
  mixed,      \* history: names trusted by something else than one undisturbed apply
  raced       \* history: [runtime, name] registered across a rewrite

store == <<proposals, verified, archived>>
files == <<disk, mtime, replay>>
runtime == <<scan, scanning, live, raced>>
commands == <<job, jobs, crashes>>
vars == <<store, files, runtime, commands, mixed>>

Idle == [at |-> "idle", id |-> 0, name |-> CHOOSE n \in Names : TRUE, body |-> DefaultBody, passed |-> "no"]
Nothing == [n \in Names |-> [body |-> None, at |-> 0]]

\* No skill has a row yet.
Init ==
  /\ proposals = <<>>
  /\ disk = [n \in Names |-> IF n \in UserSkills THEN DefaultBody ELSE None]
  /\ mtime = [n \in Names |-> 1]
  /\ replay = [n \in Names |-> None]
  /\ verified = Names
  /\ archived = {}
  /\ job = [w \in Workers |-> Idle]
  /\ jobs = 0
  /\ crashes = 0
  /\ scan = [r \in Runtimes |-> Nothing]
  /\ scanning = {}
  /\ live = [r \in Runtimes |-> Nothing]
  /\ mixed = UserSkills
  /\ raced = {}

-----------------------------------------------------------------------------
(***************************************************************************)
(* The proposal store.                                                     *)
(***************************************************************************)
\* Its unique index: one row for each content and status.
Taken(n, b, s) == \E i \in DOMAIN proposals : proposals[i] = [name |-> n, body |-> b, status |-> s]

(* suggest, from the command line or at the end of a turn.  The title and  *)
(* the reason can be risky too.  A row that is there already is returned.  *)
Suggest(n, b) ==
  /\ Len(proposals) < MaxProposals
  /\ \E s \in IF b \in Risky THEN {"quarantined"} ELSE {"pending", "quarantined"} :
       /\ ~Taken(n, b, s)
       /\ proposals' = Append(proposals, [name |-> n, body |-> b, status |-> s])
  /\ UNCHANGED <<verified, archived, files, runtime, commands, mixed>>

\* update_status, whatever the status was; a second row of the kind raises.
SetStatus(i, s) ==
  IF Taken(proposals[i].name, proposals[i].body, s)
  THEN UNCHANGED proposals
  ELSE proposals' = [proposals EXCEPT ![i].status = s]

Reject(i) ==
  /\ proposals[i].status # "rejected"
  /\ SetStatus(i, "rejected")
  /\ UNCHANGED <<verified, archived, files, runtime, commands, mixed>>

-----------------------------------------------------------------------------
(***************************************************************************)
(* apply, and `sera skills scaffold`: they may be run with --force, so     *)
(* that a directory which exists is no reason to stop.                     *)
(***************************************************************************)
At(w, label) == job[w].at = label
GoTo(w, label) == job' = [job EXCEPT ![w].at = label] /\ UNCHANGED <<jobs, crashes>>
Ends(w) == job' = [job EXCEPT ![w] = Idle] /\ UNCHANGED <<jobs, crashes>>

Started(w, record) ==
  /\ At(w, "idle") /\ jobs < MaxJobs
  /\ jobs' = jobs + 1
  /\ job' = [job EXCEPT ![w] = record]
  /\ UNCHANGED <<store, files, runtime, crashes>>

Busy(n) == \E w \in Workers : ~At(w, "idle") /\ job[w].name = n

(* (mutant) whatever the status of the proposal is. *)
ApplyAny(w, i) ==
  /\ Started(w, [at |-> "open", id |-> i, name |-> proposals[i].name, body |-> proposals[i].body, passed |-> "no"])
  /\ mixed' = mixed \union {n \in {proposals[i].name} : Busy(n)}

Apply(w, i) ==
  /\ proposals[i].status = "pending"
  /\ Started(w, [at |-> "open", id |-> i, name |-> proposals[i].name, body |-> proposals[i].body, passed |-> "no"])
  /\ mixed' = mixed \union {n \in {proposals[i].name} : Busy(n)}

Scaffold(w, n) ==
  /\ Started(w, [at |-> "open", id |-> 0, name |-> n, body |-> DefaultBody, passed |-> "no"])
  /\ mixed' = mixed \union {n}

\* scaffold_skill: write_text truncates SKILL.md, ...
Open(w) ==
  LET n == job[w].name IN
  /\ At(w, "open")
  /\ disk' = [disk EXCEPT ![n] = Torn]
  /\ mtime' = [mtime EXCEPT ![n] = @ + 1]
  /\ GoTo(w, "write")
  /\ UNCHANGED <<store, replay, runtime, mixed>>

\* ... writes it, ...
Write(w) ==
  LET n == job[w].name IN
  /\ At(w, "write")
  /\ disk' = [disk EXCEPT ![n] = job[w].body]
  /\ mtime' = [mtime EXCEPT ![n] = @ + 1]
  /\ GoTo(w, "replay")
  /\ UNCHANGED <<store, replay, runtime, mixed>>

\* ... and replay.yaml.
WriteReplay(w) ==
  /\ At(w, "replay")
  /\ replay' = [replay EXCEPT ![job[w].name] = job[w].body]
  /\ IF job[w].id = 0 THEN Ends(w) ELSE GoTo(w, "mark")
  /\ UNCHANGED <<store, disk, mtime, runtime, mixed>>

(* (mutant) the skill is not marked as a candidate. *)
MarkNot(w) ==
  /\ At(w, "mark")
  /\ UNCHANGED verified
  /\ GoTo(w, "load")
  /\ UNCHANGED <<proposals, archived, files, runtime, mixed>>

MarkCandidate(w) ==
  /\ At(w, "mark")
  /\ verified' = verified \ {job[w].name}
  /\ GoTo(w, "load")
  /\ UNCHANGED <<proposals, archived, files, runtime, mixed>>

\* load_skill, which raises on an empty file, and the replay of its cases.
Replay(w) ==
  LET n == job[w].name IN
  /\ At(w, "load")
  /\ IF disk[n] = Torn
     THEN Ends(w)
     ELSE /\ job' = [job EXCEPT ![w].at = "verify",
                                ![w].passed = IF Passes(disk[n], replay[n]) THEN "yes" ELSE "no"]
          /\ UNCHANGED <<jobs, crashes>>
  /\ UNCHANGED <<store, files, runtime, mixed>>

\* verify_via_replay: a failure leaves the row alone.
Verify(w) ==
  /\ At(w, "verify")
  /\ verified' = IF job[w].passed = "yes" THEN verified \union {job[w].name} ELSE verified
  /\ GoTo(w, "refresh")
  /\ UNCHANGED <<proposals, archived, files, runtime, mixed>>

\* The registry of the command's own process; an empty manifest raises.
TornFile == \E n \in Names : disk[n] = Torn
Refresh(w) ==
  /\ At(w, "refresh")
  /\ IF TornFile THEN Ends(w) ELSE GoTo(w, "finish")
  /\ UNCHANGED <<store, files, runtime, mixed>>

Finish(w) ==
  /\ At(w, "finish")
  /\ SetStatus(job[w].id, "applied")
  /\ Ends(w)
  /\ UNCHANGED <<verified, archived, files, runtime, mixed>>

\* A command is killed.
Die(w) ==
  /\ ~At(w, "idle") /\ crashes < MaxCrashes
  /\ crashes' = crashes + 1
  /\ job' = [job EXCEPT ![w] = Idle]
  /\ mixed' = mixed \union {job[w].name}
  /\ UNCHANGED <<store, files, runtime, jobs>>

-----------------------------------------------------------------------------
(***************************************************************************)
(* decide_and_persist, once a variant passed a case: verify the winner,    *)
(* then archive the loser.  Both variants may have one name.               *)
(***************************************************************************)
Compare(w, winner, loser) ==
  /\ At(w, "idle") /\ jobs < MaxJobs
  /\ jobs' = jobs + 1
  /\ job' = [job EXCEPT ![w] = [Idle EXCEPT !.at = "archive", !.name = loser]]
  /\ verified' = verified \union {winner}
  /\ mixed' = mixed \union {winner, loser}
  /\ UNCHANGED <<proposals, archived, files, runtime, crashes>>

Archive(w) ==
  /\ At(w, "archive")
  /\ archived' = archived \union {job[w].name}
  /\ Ends(w)
  /\ UNCHANGED <<proposals, verified, files, runtime, mixed>>

-----------------------------------------------------------------------------
(***************************************************************************)
(* refresh in a process that runs turns: get_default_registry was called   *)
(* without a lifecycle there, so every skill is eligible.                  *)
(***************************************************************************)
\* discover_skills loads every manifest; an empty one raises, and the turn fails.
Discover(r) ==
  /\ r \notin scanning /\ ~TornFile
  /\ scanning' = scanning \union {r}
  /\ scan' = [scan EXCEPT ![r] = [n \in Names |-> [body |-> disk[n], at |-> mtime[n]]]]
  /\ UNCHANGED <<store, files, commands, live, mixed, raced>>

\* The skills whose mtime, read now, is not the one tracked.
Changed(r) == {n \in Names : scan[r][n].body # None /\ live[r][n].at # mtime[n]}

(* (mutant) only new skills are registered. *)
RegisterNew(r) ==
  /\ r \in scanning
  /\ scanning' = scanning \ {r}
  /\ live' = [live EXCEPT ![r] = [n \in Names |->
       IF scan[r][n].body # None /\ live[r][n].at = 0
       THEN [body |-> scan[r][n].body, at |-> mtime[n]] ELSE live[r][n]]]
  /\ raced' = {x \in raced : x[1] # r \/ x[2] \notin Changed(r)}
                \union {<<r, n>> : n \in {n \in Changed(r) : scan[r][n].at # mtime[n]}}
  /\ scan' = [scan EXCEPT ![r] = Nothing]
  /\ UNCHANGED <<store, files, commands, mixed>>

(* (mutant) the tool of a changed skill is not registered again. *)
RegisterOnce(r) ==
  /\ r \in scanning
  /\ scanning' = scanning \ {r}
  /\ live' = [live EXCEPT ![r] = [n \in Names |->
       IF n \in Changed(r)
       THEN [body |-> IF live[r][n].at = 0 THEN scan[r][n].body ELSE live[r][n].body, at |-> mtime[n]]
       ELSE live[r][n]]]
  /\ raced' = {x \in raced : x[1] # r \/ x[2] \notin Changed(r)}
                \union {<<r, n>> : n \in {n \in Changed(r) : scan[r][n].at # mtime[n]}}
  /\ scan' = [scan EXCEPT ![r] = Nothing]
  /\ UNCHANGED <<store, files, commands, mixed>>

Register(r) ==
  /\ r \in scanning
  /\ scanning' = scanning \ {r}
  /\ live' = [live EXCEPT ![r] = [n \in Names |->
       IF n \in Changed(r) THEN [body |-> scan[r][n].body, at |-> mtime[n]] ELSE live[r][n]]]
  /\ raced' = {x \in raced : x[1] # r \/ x[2] \notin Changed(r)}
                \union {<<r, n>> : n \in {n \in Changed(r) : scan[r][n].at # mtime[n]}}
  /\ scan' = [scan EXCEPT ![r] = Nothing]
  /\ UNCHANGED <<store, files, commands, mixed>>

Step(w) ==
  \/ Open(w) \/ Write(w) \/ WriteReplay(w) \/ MarkCandidate(w) \/ Replay(w)
  \/ Verify(w) \/ Refresh(w) \/ Finish(w) \/ Archive(w)

Next ==
  \/ \E n \in Names, b \in Bodies : Suggest(n, b)
  \/ \E i \in DOMAIN proposals : Reject(i) \/ \E w \in Workers : Apply(w, i)
  \/ \E w \in Workers : \/ Step(w) \/ Die(w)
                        \/ \E n \in Names : Scaffold(w, n)
                        \/ \E m, n \in Names : Compare(w, m, n)
  \/ \E r \in Runtimes : Discover(r) \/ Register(r)

(***************************************************************************)
(* A command runs to its end, messages keep coming, and a turn gets from   *)
(* discover_skills to the registration, which is the same call.            *)
(***************************************************************************)
Fairness == /\ \A w \in Workers : WF_vars(Step(w))
            /\ \A r \in Runtimes : WF_vars(Discover(r)) /\ WF_vars(Register(r))

Spec == Init /\ [][Next]_vars /\ Fairness

-----------------------------------------------------------------------------
Proposals == [name : Names, body : Bodies, status : {"pending", "quarantined", "applied", "rejected"}]
Jobs == [at : {"idle", "open", "write", "replay", "mark", "load", "verify", "refresh", "finish", "archive"},
         id : Nat, name : Names, body : Bodies, passed : {"yes", "no"}]
Views == [Names -> [body : Bodies \union {None}, at : Nat]]

TypeOK ==
  /\ proposals \in Seq(Proposals)
  /\ disk \in [Names -> Bodies \union {None, Torn}] /\ mtime \in [Names -> Nat]
  /\ replay \in [Names -> Bodies \union {None}]
  /\ verified \subseteq Names /\ archived \subseteq Names /\ mixed \subseteq Names
  /\ job \in [Workers -> Jobs] /\ jobs \in Nat /\ crashes \in Nat
  /\ \A w \in Workers : job[w].id \in DOMAIN proposals \union {0}
  /\ scan \in [Runtimes -> Views] /\ live \in [Runtimes -> Views]
  /\ scanning \subseteq Runtimes /\ raced \subseteq Runtimes \X Names

(***************************************************************************)
(* workshop.py:244: what was quarantined when it was suggested is never    *)
(* served, whatever is rejected, retried, forced or killed.                *)
(***************************************************************************)
QuarantineHolds == \A r \in Runtimes, n \in Names : live[r][n].body \notin Risky

(***************************************************************************)
(* loader.py:202: a runtime whose tracked mtime is that of the manifest    *)
(* serves the manifest, unless the file was rewritten between its load and *)
(* its stat.                                                               *)
(***************************************************************************)
StaleOnlyFromRace ==
  \A r \in Runtimes, n \in Names :
    live[r][n].at = mtime[n] /\ disk[n] # Torn /\ <<r, n>> \notin raced => live[r][n].body = disk[n]

(***************************************************************************)
(* verify.py:8 "flips the lifecycle row to verified iff every case         *)
(* passes": a trusted skill has passed the replay that is on the disk,     *)
(* unless its commands overlapped, died, or were not apply, or one is      *)
(* between the write of the manifest and the mark.                         *)
(***************************************************************************)
TrustNeedsReplay ==
  \A n \in verified \ mixed :
    disk[n] \in Bodies /\ (\A w \in Workers : job[w].name = n => job[w].at \notin {"replay", "mark"})
      => Passes(disk[n], replay[n])

(***************************************************************************)
(* What a runtime serves is never quarantined, no older than its manifest, *)
(* and trusted only for its replay: whoever races, dies or forces an apply.*)
(***************************************************************************)
ServedSkillsAreSound == QuarantineHolds /\ StaleOnlyFromRace /\ TrustNeedsReplay

(***************************************************************************)
(* Hot reload: once the commands are over, a runtime serves what is on the *)
(* disk, unless it raced, or a dead command left an empty manifest, which  *)
(* fails every turn.                                                       *)
(***************************************************************************)
Settled == /\ ~TornFile
           /\ \A w \in Workers : At(w, "idle")
CatchesUp ==
  \A r \in Runtimes, n \in Names :
    []<>(~Settled \/ <<r, n>> \in raced \/ live[r][n].body = disk[n])

(***************************************************************************)
(* lifecycle.py:218 "Candidates are excluded from runtime registration     *)
(* until a replay-verification pass calls verify(name)", no command being  *)
(* at work on the skill.                                                   *)
(***************************************************************************)
CandidatesStayOut ==
  [][\A r \in Runtimes, n \in Names :
       live'[r][n] # live[r][n] => n \in verified \/ Busy(n)]_vars
=============================================================================
