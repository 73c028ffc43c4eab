------------------------- MODULE SkillWorkshopProofs -------------------------
(***************************************************************************)
(* Proofs about SkillWorkshop for every set of names, bodies, commands and *)
(* runtimes, whatever a replay accepts, and for every bound.               *)
(***************************************************************************)
EXTENDS SkillWorkshop, TLAPS

\* Nothing on its way from a proposal to a turn is risky.
Clean ==
  /\ \A i \in DOMAIN proposals : proposals[i].status = "pending" => proposals[i].body \notin Risky
  /\ \A w \in Workers : job[w].body \notin Risky
  /\ \A n \in Names : disk[n] \notin Risky
  /\ \A r \in Runtimes, n \in Names : scan[r][n].body \notin Risky /\ live[r][n].body \notin Risky

\* An mtime stands for a content: what was read with the present one is present.
Tracked ==
  \A r \in Runtimes, n \in Names :
    /\ scan[r][n].at <= mtime[n] /\ live[r][n].at <= mtime[n]
    /\ r \in scanning /\ scan[r][n].at = mtime[n] => scan[r][n].body = disk[n]

\* How far the only command at work on a name has come.
Alone ==
  \A w \in Workers : job[w].name \notin mixed /\ ~At(w, "idle") =>
    /\ job[w].id # 0 /\ ~At(w, "archive")
    /\ \A v \in Workers : job[v].name = job[w].name /\ ~At(v, "idle") => v = w
    /\ At(w, "write") => disk[job[w].name] = Torn
    /\ At(w, "load") \/ At(w, "verify") => job[w].name \notin verified
    /\ At(w, "verify") /\ job[w].passed = "yes" => Passes(disk[job[w].name], replay[job[w].name])

IInv == TypeOK /\ Clean /\ Tracked /\ StaleOnlyFromRace /\ Alone /\ TrustNeedsReplay

LEMMA IdleJob == Idle \in Jobs /\ Idle.at = "idle" /\ Idle.body = DefaultBody /\ Idle.id = 0
BY BodiesAssumption, NamesAssumption DEF Idle, Jobs

LEMMA NothingView == Nothing \in Views
BY DEF Nothing, Views

LEMMA Plain == None \notin Risky /\ Torn \notin Risky /\ DefaultBody \notin Risky /\ DefaultBody \in Bodies
BY BodiesAssumption

LEMMA InitIInv == Init => IInv
<1> SUFFICES ASSUME Init PROVE IInv
  OBVIOUS
<1> USE IdleJob, NothingView, Plain DEF Init
<1>1. TypeOK
  <2>1. DOMAIN proposals = {} /\ proposals \in Seq(Proposals)
    OBVIOUS
  <2> QED BY <2>1, NamesAssumption, BodiesAssumption DEF TypeOK, Idle
<1>2. Clean
  BY DEF Clean, Nothing
<1>3. Tracked /\ StaleOnlyFromRace
  BY DEF Tracked, StaleOnlyFromRace, Nothing
<1>4. Alone
  BY DEF Alone, At
<1>5. TrustNeedsReplay
  BY BodiesAssumption DEF TrustNeedsReplay
<1> QED BY <1>1, <1>2, <1>3, <1>4, <1>5 DEF IInv

-----------------------------------------------------------------------------
(***************************************************************************)
(* Types.                                                                  *)
(***************************************************************************)
Labels == {"idle", "open", "write", "replay", "mark", "load", "verify", "refresh", "finish", "archive"}

\* A step of a command keeps its name and its body, or ends it.
LEMMA StepJob ==
  ASSUME TypeOK, NEW w \in Workers, Step(w) \/ Die(w)
  PROVE  /\ job' \in [Workers -> Jobs] /\ jobs' \in Nat /\ crashes' \in Nat
         /\ \A v \in Workers \ {w} : job'[v] = job[v]
         /\ \/ job'[w] = Idle
            \/ job'[w].name = job[w].name /\ job'[w].body = job[w].body /\ job'[w].id = job[w].id
<1> USE DEF TypeOK
<1> DEFINE Good == /\ job' \in [Workers -> Jobs] /\ jobs' \in Nat /\ crashes' \in Nat
                   /\ \A v \in Workers \ {w} : job'[v] = job[v]
                   /\ \/ job'[w] = Idle
                      \/ job'[w].name = job[w].name /\ job'[w].body = job[w].body /\ job'[w].id = job[w].id
<1>1. ASSUME NEW label \in Labels, GoTo(w, label) PROVE Good
  <2>1. [job[w] EXCEPT !.at = label] \in Jobs
    BY DEF Jobs, Labels
  <2> QED BY <1>1, <2>1 DEF GoTo, Jobs
<1>2. CASE Ends(w) \/ Die(w)
  BY SMTT(40), <1>2, IdleJob DEF Ends, Die
<1>3. CASE Replay(w)
  <2>1. CASE disk[job[w].name] = Torn
    BY <1>2, <1>3, <2>1 DEF Replay
  <2>2. CASE disk[job[w].name] # Torn
    <3>1. PICK p \in {"yes", "no"} : job' = [job EXCEPT ![w].at = "verify", ![w].passed = p]
      BY <1>3, <2>2 DEF Replay
    <3>2. [job[w] EXCEPT !.at = "verify", !.passed = p] \in Jobs
      BY DEF Jobs
    <3>3. job'[w] = [job[w] EXCEPT !.at = "verify", !.passed = p]
      BY <3>1
    <3>4. \A v \in Workers \ {w} : job'[v] = job[v]
      BY <3>1
    <3>5. job' \in [Workers -> Jobs]
      BY <3>1, <3>2
    <3>6. job'[w].name = job[w].name /\ job'[w].body = job[w].body /\ job'[w].id = job[w].id
      BY <3>3 DEF Jobs
    <3>7. jobs' \in Nat /\ crashes' \in Nat
      BY <1>3, <2>2 DEF Replay
    <3> QED BY <3>4, <3>5, <3>6, <3>7
  <2> QED BY <2>1, <2>2
<1>4. \/ Ends(w) \/ Die(w) \/ Replay(w)
      \/ \E label \in Labels : GoTo(w, label)
  BY DEF Step, Open, Write, WriteReplay, MarkCandidate, Verify, Refresh, Finish, Archive, Labels
<1> QED BY <1>1, <1>2, <1>3, <1>4

\* update_status keeps the rows and their number.
LEMMA StatusTypes ==
  ASSUME TypeOK, NEW i, NEW s \in {"applied", "rejected"}, SetStatus(i, s)
  PROVE  /\ proposals' \in Seq(Proposals) /\ DOMAIN proposals' = DOMAIN proposals
         /\ \A j \in DOMAIN proposals :
              proposals'[j].body = proposals[j].body /\ proposals'[j].status \in {proposals[j].status, s}
<1>1. CASE UNCHANGED proposals
  BY <1>1 DEF TypeOK
<1>2. CASE proposals' = [proposals EXCEPT ![i].status = s]
  <2>1. \A j \in DOMAIN proposals : proposals[j] \in Proposals
    BY DEF TypeOK
  <2>2. \A j \in DOMAIN proposals : proposals'[j] \in Proposals
    BY <1>2, <2>1 DEF Proposals
  <2>3. DOMAIN proposals = 1 .. Len(proposals) /\ Len(proposals) \in Nat
    BY DEF TypeOK
  <2>4. DOMAIN proposals' = DOMAIN proposals /\ proposals' = [j \in DOMAIN proposals |-> proposals'[j]]
    BY <1>2
  <2>5. proposals' \in [1 .. Len(proposals) -> Proposals]
    BY <2>2, <2>3, <2>4
  <2>6. proposals' \in Seq(Proposals)
    BY <2>3, <2>5
  <2>7. \A j \in DOMAIN proposals :
          proposals'[j].body = proposals[j].body /\ proposals'[j].status \in {proposals[j].status, s}
    BY <1>2, <2>1 DEF Proposals
  <2> QED BY <2>4, <2>6, <2>7
<1> QED BY <1>1, <1>2 DEF SetStatus

LEMMA TypeStep == TypeOK /\ [Next]_vars => TypeOK'
<1> SUFFICES ASSUME TypeOK, [Next]_vars PROVE TypeOK'
  OBVIOUS
<1> USE DEF TypeOK, store, files, runtime, commands
<1>1. ASSUME NEW n \in Names, NEW b \in Bodies, Suggest(n, b)
      PROVE  TypeOK'
  <2>1. proposals' \in Seq(Proposals) /\ DOMAIN proposals \subseteq DOMAIN proposals'
    <3>1. PICK t \in {"pending", "quarantined"} : proposals' = Append(proposals, [name |-> n, body |-> b, status |-> t])
      BY <1>1 DEF Suggest
    <3>2. [name |-> n, body |-> b, status |-> t] \in Proposals
      BY DEF Proposals
    <3> QED BY <3>1, <3>2
  <2> QED BY <1>1, <2>1 DEF Suggest
<1>2. ASSUME NEW i \in DOMAIN proposals, Reject(i)
      PROVE  TypeOK'
  <2>1. proposals' \in Seq(Proposals) /\ DOMAIN proposals' = DOMAIN proposals
    BY <1>2, StatusTypes DEF Reject
  <2> QED BY <1>2, <2>1 DEF Reject
<1>3. ASSUME NEW w \in Workers, NEW i \in DOMAIN proposals, Apply(w, i)
      PROVE  TypeOK'
  <2>1. proposals[i] \in Proposals /\ i \in Nat
    OBVIOUS
  <2>2. [at |-> "open", id |-> i, name |-> proposals[i].name, body |-> proposals[i].body, passed |-> "no"] \in Jobs
    BY <2>1 DEF Jobs, Proposals
  <2>3. proposals[i].name \in Names
    BY <2>1 DEF Proposals
  <2> QED BY <1>3, <2>2, <2>3 DEF Apply, Started
<1>4. ASSUME NEW w \in Workers, NEW n \in Names, Scaffold(w, n)
      PROVE  TypeOK'
  <2>1. [at |-> "open", id |-> 0, name |-> n, body |-> DefaultBody, passed |-> "no"] \in Jobs
    BY Plain DEF Jobs
  <2> QED BY <1>4, <2>1 DEF Scaffold, Started
<1>5. ASSUME NEW w \in Workers, Step(w) \/ Die(w) PROVE TypeOK'
  <2>1. job[w] \in Jobs /\ job[w].name \in Names /\ job[w].body \in Bodies
    BY DEF Jobs
  <2>2. proposals' \in Seq(Proposals) /\ DOMAIN proposals' = DOMAIN proposals
    <3>1. CASE Finish(w)
      BY <3>1, StatusTypes DEF Finish
    <3>2. CASE ~Finish(w)
      BY <1>5, <3>2
      DEF Step, Open, Write, WriteReplay, MarkCandidate, Replay, Verify, Refresh, Archive, Die
    <3> QED BY <3>1, <3>2
  <2>3. /\ job' \in [Workers -> Jobs] /\ jobs' \in Nat /\ crashes' \in Nat
        /\ \A v \in Workers : job'[v].id \in DOMAIN proposals' \union {0}
    BY <1>5, <2>2, StepJob, IdleJob
  <2>4. /\ disk' \in [Names -> Bodies \union {None, Torn}] /\ mtime' \in [Names -> Nat]
        /\ replay' \in [Names -> Bodies \union {None}]
    <3>0. ASSUME NEW n \in Names PROVE mtime[n] + 1 \in Nat
      OBVIOUS
    <3>1. CASE Open(w) \/ Write(w)
      <4>1. PICK b \in Bodies \union {Torn} : /\ disk' = [disk EXCEPT ![job[w].name] = b]
                                             /\ mtime' = [mtime EXCEPT ![job[w].name] = mtime[job[w].name] + 1]
                                             /\ UNCHANGED replay
        BY <2>1, <3>1 DEF Open, Write
      <4> QED BY <2>1, <3>0, <4>1
    <3>2. CASE WriteReplay(w)
      BY <2>1, <3>2 DEF WriteReplay
    <3>3. CASE ~Open(w) /\ ~Write(w) /\ ~WriteReplay(w)
      BY <1>5, <3>3 DEF Step, MarkCandidate, Replay, Verify, Refresh, Finish, Archive, Die
    <3> QED BY <3>1, <3>2, <3>3
  <2>5. /\ verified' \subseteq Names /\ archived' \subseteq Names /\ mixed' \subseteq Names
        /\ UNCHANGED runtime
    BY <1>5, <2>1
    DEF Step, Open, Write, WriteReplay, MarkCandidate, Replay, Verify, Refresh, Finish, Archive, Die
  <2> QED BY <2>2, <2>3, <2>4, <2>5
<1>6. ASSUME NEW w \in Workers, NEW m \in Names, NEW n \in Names, Compare(w, m, n)
      PROVE  TypeOK'
  <2>1. [Idle EXCEPT !.at = "archive", !.name = n] \in Jobs
    BY IdleJob DEF Jobs
  <2>2. [Idle EXCEPT !.at = "archive", !.name = n].id = 0
    BY DEF Idle
  <2> QED BY <1>6, <2>1, <2>2 DEF Compare
<1>7. ASSUME NEW r \in Runtimes, Discover(r) PROVE TypeOK'
  <2>1. [n \in Names |-> [body |-> disk[n], at |-> mtime[n]]] \in Views
    BY <1>7 DEF Discover, TornFile, Views
  <2> QED BY <1>7, <2>1 DEF Discover
<1>8. ASSUME NEW r \in Runtimes, Register(r) PROVE TypeOK'
  <2>1. [n \in Names |-> IF n \in Changed(r) THEN [body |-> scan[r][n].body, at |-> mtime[n]] ELSE live[r][n]] \in Views
    BY DEF Views
  <2>2. Changed(r) \subseteq Names
    BY DEF Changed
  <2> QED BY <1>8, <2>1, <2>2, NothingView DEF Register
<1>9. CASE UNCHANGED vars
  BY <1>9 DEF vars
<1> QED BY <1>1, <1>2, <1>3, <1>4, <1>5, <1>6, <1>7, <1>8, <1>9 DEF Next

-----------------------------------------------------------------------------
(***************************************************************************)
(* What is quarantined stays in the store.                                 *)
(***************************************************************************)
LEMMA CleanStep ==
  ASSUME TypeOK, Clean, [Next]_vars
  PROVE  Clean'
<1> USE Plain DEF Clean, store, files, runtime, commands
<1>1. ASSUME NEW n \in Names, NEW b \in Bodies, Suggest(n, b) PROVE Clean'
  <2>1. PICK t \in {"pending", "quarantined"} :
          /\ proposals' = Append(proposals, [name |-> n, body |-> b, status |-> t])
          /\ t = "pending" => b \notin Risky
    BY <1>1 DEF Suggest
  <2>2. \A i \in DOMAIN proposals' : proposals'[i].status = "pending" => proposals'[i].body \notin Risky
    <3>1. proposals \in Seq(Proposals)
      BY DEF TypeOK
    <3>2. ASSUME NEW i \in DOMAIN proposals'
          PROVE  \/ i \in DOMAIN proposals /\ proposals'[i] = proposals[i]
                 \/ proposals'[i] = [name |-> n, body |-> b, status |-> t]
      BY <2>1, <3>1, <3>2
    <3> QED BY <2>1, <3>2
  <2> QED BY <1>1, <2>2 DEF Suggest
<1>2. ASSUME NEW i \in DOMAIN proposals, Reject(i) PROVE Clean'
  BY <1>2, StatusTypes DEF Reject
<1>3. ASSUME NEW w \in Workers, NEW i \in DOMAIN proposals, Apply(w, i) PROVE Clean'
  <2>1. proposals[i].body \notin Risky
    BY <1>3 DEF Apply
  <2> QED BY <1>3, <2>1 DEF Apply, Started, TypeOK
<1>4. ASSUME NEW w \in Workers, NEW n \in Names, Scaffold(w, n) PROVE Clean'
  BY <1>4 DEF Scaffold, Started, TypeOK
<1>5. ASSUME NEW w \in Workers, Step(w) \/ Die(w) PROVE Clean'
  <2>1. \A v \in Workers : job'[v].body \notin Risky
    BY <1>5, StepJob, IdleJob
  <2>2. \A n \in Names : disk'[n] \notin Risky
    <3>1. CASE Open(w) \/ Write(w)
      BY <3>1 DEF Open, Write, TypeOK
    <3>2. CASE ~Open(w) /\ ~Write(w)
      BY <1>5, <3>2 DEF Step, WriteReplay, MarkCandidate, Replay, Verify, Refresh, Finish, Archive, Die
    <3> QED BY <3>1, <3>2
  <2>3. \A i \in DOMAIN proposals' : proposals'[i].status = "pending" => proposals'[i].body \notin Risky
    <3>1. CASE Finish(w)
      BY <3>1, StatusTypes DEF Finish
    <3>2. CASE ~Finish(w)
      BY <1>5, <3>2
      DEF Step, Open, Write, WriteReplay, MarkCandidate, Replay, Verify, Refresh, Archive, Die
    <3> QED BY <3>1, <3>2
  <2>4. UNCHANGED runtime
    BY <1>5
    DEF Step, Open, Write, WriteReplay, MarkCandidate, Replay, Verify, Refresh, Finish, Archive, Die
  <2> QED BY <2>1, <2>2, <2>3, <2>4
<1>6. ASSUME NEW w \in Workers, NEW m \in Names, NEW n \in Names, Compare(w, m, n) PROVE Clean'
  <2>1. [Idle EXCEPT !.at = "archive", !.name = n].body = DefaultBody
    BY DEF Idle
  <2> QED BY <1>6, <2>1 DEF Compare, TypeOK
<1>7. ASSUME NEW r \in Runtimes, Discover(r) PROVE Clean'
  BY <1>7 DEF Discover, TypeOK
<1>8. ASSUME NEW r \in Runtimes, Register(r) PROVE Clean'
  BY <1>8 DEF Register, TypeOK, Nothing
<1>9. CASE UNCHANGED vars
  BY <1>9 DEF vars
<1> QED BY <1>1, <1>2, <1>3, <1>4, <1>5, <1>6, <1>7, <1>8, <1>9 DEF Next

(***************************************************************************)
(* Only scaffold_skill changes a manifest, and then its mtime grows.       *)
(***************************************************************************)
LEMMA FilesStep ==
  ASSUME TypeOK, [Next]_vars, ~\E r \in Runtimes : Discover(r) \/ Register(r)
  PROVE  /\ UNCHANGED runtime
         /\ \A n \in Names : \/ mtime'[n] = mtime[n] /\ disk'[n] = disk[n]
                             \/ mtime'[n] = mtime[n] + 1
<1> USE DEF store, files, runtime, commands
<1>1. ASSUME NEW w \in Workers, Open(w) \/ Write(w)
      PROVE  /\ UNCHANGED runtime
             /\ \A n \in Names : \/ mtime'[n] = mtime[n] /\ disk'[n] = disk[n]
                                 \/ mtime'[n] = mtime[n] + 1
  BY <1>1 DEF Open, Write, TypeOK
<1>2. CASE ~\E w \in Workers : Open(w) \/ Write(w)
  <2>1. UNCHANGED <<runtime, disk, mtime>>
    BY <1>2 DEF Next, Step, Suggest, Reject, Apply, Scaffold, Started, Compare, WriteReplay,
               MarkCandidate, Replay, Verify, Refresh, Finish, Archive, Die, vars
  <2> QED BY <2>1
<1> QED BY <1>1, <1>2

LEMMA TrackedStep ==
  ASSUME TypeOK, Tracked, StaleOnlyFromRace, [Next]_vars
  PROVE  Tracked' /\ StaleOnlyFromRace'
<1>0. \A r \in Runtimes, n \in Names : scan[r][n].at \in Nat /\ live[r][n].at \in Nat /\ mtime[n] \in Nat
  BY DEF TypeOK, Views
<1>1. CASE ~\E r \in Runtimes : Discover(r) \/ Register(r)
  BY <1>0, <1>1, FilesStep DEF Tracked, StaleOnlyFromRace, runtime
<1>2. ASSUME NEW r \in Runtimes, Discover(r) PROVE Tracked' /\ StaleOnlyFromRace'
  <2>1. UNCHANGED <<disk, mtime, live, raced>> /\ scanning' = scanning \union {r}
    BY <1>2 DEF Discover, files
  <2>2. \A n \in Names : scan'[r][n].at = mtime[n] /\ scan'[r][n].body = disk[n]
    BY <1>2 DEF Discover, TypeOK
  <2>3. \A s \in Runtimes \ {r} : scan'[s] = scan[s]
    BY <1>2 DEF Discover, TypeOK
  <2>4. Tracked'
    BY <1>0, <2>1, <2>2, <2>3 DEF Tracked
  <2> QED BY <2>1, <2>4 DEF StaleOnlyFromRace
<1>3. ASSUME NEW r \in Runtimes, Register(r) PROVE Tracked' /\ StaleOnlyFromRace'
  <2>1. UNCHANGED <<disk, mtime>> /\ \A s \in Runtimes \ {r} : live'[s] = live[s] /\ scan'[s] = scan[s]
    BY <1>3 DEF Register, files, TypeOK
  <2>2. scanning' = scanning \ {r} /\ \A n \in Names : scan'[r][n].at = 0
    BY <1>3 DEF Register, TypeOK, Nothing
  <2>3. /\ \A n \in Names : n \in Changed(r) =>
              live'[r][n].body = scan[r][n].body /\ live'[r][n].at = mtime[n]
        /\ \A n \in Names : n \notin Changed(r) => live'[r][n] = live[r][n]
    BY <1>3 DEF Register, TypeOK
  <2>4. Tracked'
    <3> SUFFICES ASSUME NEW s \in Runtimes, NEW n \in Names
                 PROVE  /\ scan'[s][n].at <= mtime[n] /\ live'[s][n].at <= mtime[n]
                        /\ s \in scanning' /\ scan'[s][n].at = mtime[n] => scan'[s][n].body = disk[n]
      BY <2>1 DEF Tracked
    <3>1. CASE s # r
      BY <2>1, <2>2, <3>1 DEF Tracked
    <3>2. CASE s = r
      <4>1. live'[r][n].at = mtime[n] \/ live'[r][n] = live[r][n]
        BY <2>3
      <4>2. live'[r][n].at <= mtime[n]
        BY <1>0, <4>1 DEF Tracked
      <4> QED BY <1>0, <2>2, <3>2, <4>2
    <3> QED BY <3>1, <3>2
  <2>5. \A s \in Runtimes \ {r}, n \in Names : <<s, n>> \in raced => <<s, n>> \in raced'
    BY <1>3 DEF Register
  <2>6. \A n \in Names \ Changed(r) : <<r, n>> \in raced => <<r, n>> \in raced'
    BY <1>3 DEF Register
  <2>7. \A n \in Changed(r) : scan[r][n].at # mtime[n] => <<r, n>> \in raced'
    BY <1>3 DEF Register
  <2>8. StaleOnlyFromRace'
    <3> SUFFICES ASSUME NEW s \in Runtimes, NEW n \in Names,
                        live'[s][n].at = mtime[n], disk[n] # Torn, <<s, n>> \notin raced'
                 PROVE  live'[s][n].body = disk[n]
      BY <2>1 DEF StaleOnlyFromRace
    <3>1. CASE s # r
      BY <2>1, <2>5, <3>1 DEF StaleOnlyFromRace
    <3>2. CASE s = r /\ n \notin Changed(r)
      BY <2>3, <2>6, <3>2 DEF StaleOnlyFromRace
    <3>3. CASE s = r /\ n \in Changed(r)
      <4>1. live'[r][n].body = scan[r][n].body /\ <<r, n>> \notin raced'
        BY <2>3, <3>3 DEF Changed
      <4>2. scan[r][n].at = mtime[n] /\ r \in scanning
        BY <1>3, <2>7, <3>3, <4>1 DEF Register
      <4> QED BY <3>3, <4>1, <4>2 DEF Tracked
    <3> QED BY <3>1, <3>2, <3>3
  <2> QED BY <2>4, <2>8
<1> QED BY <1>1, <1>2, <1>3

-----------------------------------------------------------------------------
(***************************************************************************)
(* A command that is alone with its skill trusts what it replayed.         *)
(***************************************************************************)
LEMMA StepFrame ==
  ASSUME TypeOK, NEW w \in Workers, Step(w)
  PROVE  /\ mixed' = mixed /\ ~At(w, "idle")
         /\ \A n \in Names \ {job[w].name} :
              disk'[n] = disk[n] /\ replay'[n] = replay[n] /\ (n \in verified' <=> n \in verified)
<1> USE DEF TypeOK, store, files
<1>1. CASE Open(w) \/ Write(w) \/ WriteReplay(w)
  BY <1>1 DEF Open, Write, WriteReplay, At
<1>2. CASE MarkCandidate(w) \/ Verify(w)
  BY <1>2 DEF MarkCandidate, Verify, At
<1>3. CASE Replay(w) \/ Refresh(w) \/ Finish(w) \/ Archive(w)
  BY <1>3 DEF Replay, Refresh, Finish, Archive, At
<1> QED BY <1>1, <1>2, <1>3 DEF Step

\* What Alone says of one command.
AloneAt(w) ==
  job[w].name \notin mixed /\ ~At(w, "idle") =>
    /\ job[w].id # 0 /\ ~At(w, "archive")
    /\ \A v \in Workers : job[v].name = job[w].name /\ ~At(v, "idle") => v = w
    /\ At(w, "write") => disk[job[w].name] = Torn
    /\ At(w, "load") \/ At(w, "verify") => job[w].name \notin verified
    /\ At(w, "verify") /\ job[w].passed = "yes" => Passes(disk[job[w].name], replay[job[w].name])

\* A step of a command is seen by no other command that is alone.
LEMMA OthersStayAlone ==
  ASSUME TypeOK, Alone, NEW w \in Workers, Step(w), NEW v \in Workers \ {w}
  PROVE  AloneAt(v)'
<1>1. job'[v] = job[v]
  BY StepJob
<1>2. CASE job[v].name \in mixed \/ At(v, "idle")
  BY <1>1, <1>2, StepFrame DEF AloneAt, At
<1>3. CASE job[v].name \notin mixed /\ ~At(v, "idle")
  <2>1. job[w].name # job[v].name /\ job[v].name \in Names
    BY <1>3, StepFrame DEF Alone, TypeOK, Jobs
  <2>2. /\ disk'[job[v].name] = disk[job[v].name] /\ replay'[job[v].name] = replay[job[v].name]
        /\ job[v].name \in verified' <=> job[v].name \in verified
    BY <2>1, StepFrame
  <2>3. \A u \in Workers : job'[u].name = job[v].name /\ job'[u].at # "idle" => u = v
    <3> SUFFICES ASSUME NEW u \in Workers, job'[u].name = job[v].name, job'[u].at # "idle" PROVE u = v
      OBVIOUS
    <3>1. CASE u = w
      BY <2>1, <3>1, StepJob, IdleJob
    <3>2. CASE u # w
      BY <1>3, <3>2, StepJob DEF Alone, At
    <3> QED BY <3>1, <3>2
  <2> QED BY <1>1, <1>3, <2>2, <2>3 DEF AloneAt, Alone, At
<1> QED BY <1>2, <1>3

\* The steps of an apply, one after the other.
LEMMA StepStaysAlone ==
  ASSUME TypeOK, Alone, NEW w \in Workers, Step(w)
  PROVE  AloneAt(w)'
<1>1. SUFFICES ASSUME job'[w].at # "idle", job[w].name \notin mixed
               PROVE  AloneAt(w)'
  <2>1. job'[w].at # "idle" => job'[w].name = job[w].name
    BY StepJob, IdleJob
  <2> QED BY <2>1, StepFrame DEF AloneAt, At
<1> USE DEF TypeOK, store, files, commands, At, GoTo, Jobs
<1>2. job'[w].name = job[w].name /\ job'[w].id = job[w].id /\ job[w].id # 0
  BY <1>1, StepFrame, StepJob, IdleJob DEF Alone
<1>3. \A v \in Workers : job'[v].name = job'[w].name /\ job'[v].at # "idle" => v = w
  BY <1>1, <1>2, StepFrame, StepJob DEF Alone
<1>4. /\ job'[w].at # "archive"
      /\ job'[w].at = "write" => disk'[job[w].name] = Torn
      /\ job'[w].at \in {"load", "verify"} => job[w].name \notin verified'
      /\ job'[w].at = "verify" /\ job'[w].passed = "yes" => Passes(disk'[job[w].name], replay'[job[w].name])
  <2>1. CASE Open(w)
    BY <2>1 DEF Open
  <2>2. CASE Write(w)
    BY <2>2 DEF Write
  <2>3. CASE WriteReplay(w)
    BY <1>2, <2>3 DEF WriteReplay
  <2>4. CASE MarkCandidate(w)
    BY <2>4 DEF MarkCandidate
  <2>5. CASE Replay(w)
    <3>1. disk[job[w].name] # Torn
      BY <1>1, <2>5, IdleJob DEF Replay, Ends
    <3>2. job'[w].passed = "yes" => Passes(disk[job[w].name], replay[job[w].name])
      BY <2>5, <3>1 DEF Replay
    <3>3. job'[w].at = "verify" /\ UNCHANGED <<disk, replay, verified>>
      BY <2>5, <3>1 DEF Replay
    <3>4. job[w].name \notin verified
      BY <1>1, <2>5 DEF Replay, Alone
    <3> QED BY <3>2, <3>3, <3>4
  <2>6. CASE Verify(w)
    BY <2>6 DEF Verify
  <2>7. CASE Refresh(w)
    BY <1>1, <2>7, IdleJob DEF Refresh, Ends
  <2>8. CASE Finish(w) \/ Archive(w)
    BY <1>1, <2>8, IdleJob DEF Finish, Archive, Ends
  <2> QED BY <2>1, <2>2, <2>3, <2>4, <2>5, <2>6, <2>7, <2>8 DEF Step
<1> QED BY <1>1, <1>2, <1>3, <1>4, StepFrame DEF AloneAt

\* A step of a command leaves the trusted skills trusted for a reason.
LEMMA StepTrust ==
  ASSUME TypeOK, TypeOK', Alone, TrustNeedsReplay, NEW w \in Workers, Step(w)
  PROVE  TrustNeedsReplay'
<1>0. verified' \subseteq Names
  BY DEF TypeOK
<1>1. SUFFICES ASSUME NEW n \in Names \ mixed, n \in verified', disk'[n] \in Bodies,
                      \A v \in Workers : job'[v].name = n => job'[v].at \notin {"replay", "mark"}
               PROVE  Passes(disk'[n], replay'[n])
  BY <1>0, StepFrame DEF TrustNeedsReplay
<1> USE DEF TypeOK, store, files, commands, At, GoTo, Jobs
<1>2. CASE job[w].name # n
  <2>1. \A v \in Workers : job[v].name = n => job[v].at \notin {"replay", "mark"}
    <3>1. \A v \in Workers \ {w} : job'[v] = job[v]
      BY ONLY TypeOK, w \in Workers, Step(w), StepJob
    <3> QED BY <1>1, <1>2, <3>1
  <2>2. n \in Names /\ n \notin mixed /\ n # job[w].name
    BY <1>1, <1>2
  <2>3. disk'[n] = disk[n] /\ replay'[n] = replay[n] /\ (n \in verified' <=> n \in verified)
    BY ONLY TypeOK, w \in Workers, Step(w), <2>2, StepFrame
  <2>4. n \in verified \ mixed /\ disk[n] \in Bodies
    BY <1>1, <2>2, <2>3
  <2>5. Passes(disk[n], replay[n])
    BY ONLY TrustNeedsReplay, <2>1, <2>4 DEF TrustNeedsReplay
  <2> QED BY ONLY <2>3, <2>5
<1>3. CASE job[w].name = n
  <2>1. \A v \in Workers \ {w} : job[v].name = n => job[v].at = "idle"
    BY <1>1, <1>3, StepFrame DEF Alone
  <2>2. Passes(disk[n], replay[n]) \/ n \notin verified \/ disk[n] \notin Bodies \/ job[w].at \in {"replay", "mark"}
    BY <1>1, <1>3, <2>1 DEF TrustNeedsReplay
  <2>3. CASE Open(w)
    BY <1>1, <1>3, <2>3, BodiesAssumption DEF Open
  <2>4. CASE Write(w)
    BY <1>1, <1>3, <2>4 DEF Write
  <2>5. CASE WriteReplay(w)
    <3>1. job[w].id # 0
      BY <1>1, <1>3, StepFrame DEF Alone
    <3> QED BY <1>1, <1>3, <2>5, <3>1 DEF WriteReplay
  <2>6. CASE MarkCandidate(w)
    BY <1>1, <1>3, <2>6 DEF MarkCandidate
  <2>7. CASE Replay(w) \/ Refresh(w) \/ Finish(w) \/ Archive(w)
    BY <1>1, <1>3, <2>2, <2>7 DEF Replay, Refresh, Finish, Archive
  <2>8. CASE Verify(w)
    <3>1. job[w].passed = "yes" => Passes(disk[n], replay[n])
      BY <1>1, <1>3, <2>8 DEF Verify, Alone
    <3> QED BY <1>1, <1>3, <2>2, <2>8, <3>1 DEF Verify
  <2> QED BY <2>3, <2>4, <2>5, <2>6, <2>7, <2>8 DEF Step
<1> QED BY <1>2, <1>3

\* A new command is alone, or its skill is mixed from now on.
LEMMA StartKeepsTrust ==
  ASSUME TypeOK, Alone, TrustNeedsReplay, NEW w \in Workers, NEW record,
         At(w, "idle"), job' = [job EXCEPT ![w] = record],
         UNCHANGED <<disk, replay>>,
         \A n \in Names \ mixed' : n \in verified' => n \in verified,
         mixed \subseteq mixed', mixed' \subseteq Names, verified' \subseteq Names,
         \/ record.at = "idle"
         \/ record.name \in mixed'
         \/ record.at = "open" /\ record.id # 0 /\ ~Busy(record.name)
  PROVE  Alone' /\ TrustNeedsReplay'
<1>1. job'[w] = record /\ \A v \in Workers \ {w} : job'[v] = job[v]
  BY DEF TypeOK
<1>2. ASSUME NEW v \in Workers \ {w} PROVE AloneAt(v)'
  <2> SUFFICES ASSUME job[v].name \notin mixed', job[v].at # "idle" PROVE AloneAt(v)'
    BY <1>1 DEF AloneAt, At
  <2>1. record.at # "idle" => record.name # job[v].name
    BY DEF Busy, At
  <2>2. job[v].name \in Names \ mixed'
    BY DEF TypeOK, Jobs
  <2>3. job[v].name \in verified' => job[v].name \in verified
    BY <2>2
  <2>4. \A u \in Workers : job'[u].name = job[v].name /\ job'[u].at # "idle" => u = v
    BY <1>1, <2>1 DEF Alone, At
  <2> QED BY <1>1, <2>3, <2>4 DEF AloneAt, Alone, At
<1>3. AloneAt(w)'
  BY <1>1 DEF AloneAt, At, Busy
<1>4. Alone'
  <2>1. \A v \in Workers : AloneAt(v)'
    BY <1>2, <1>3
  <2> QED BY <2>1 DEF Alone, AloneAt
<1>5. TrustNeedsReplay'
  <2> SUFFICES ASSUME NEW n \in Names \ mixed', n \in verified', disk[n] \in Bodies,
                      \A v \in Workers : job'[v].name = n => job'[v].at \notin {"replay", "mark"}
               PROVE  Passes(disk[n], replay[n])
    BY DEF TrustNeedsReplay
  <2>1. \A v \in Workers : job[v].name = n => job[v].at \notin {"replay", "mark"}
    BY <1>1 DEF At
  <2> QED BY <2>1 DEF TrustNeedsReplay
<1> QED BY <1>4, <1>5

LEMMA TrustStep ==
  ASSUME TypeOK, TypeOK', Alone, TrustNeedsReplay, [Next]_vars
  PROVE  Alone' /\ TrustNeedsReplay'
<1>1. ASSUME NEW w \in Workers, Step(w) PROVE Alone' /\ TrustNeedsReplay'
  <2>1. \A v \in Workers : AloneAt(v)'
    BY <1>1, OthersStayAlone, StepStaysAlone
  <2>2. Alone'
    BY <2>1 DEF Alone, AloneAt
  <2> QED BY <1>1, <2>2, StepTrust
<1>2. ASSUME NEW w \in Workers, NEW i \in DOMAIN proposals, Apply(w, i) PROVE Alone' /\ TrustNeedsReplay'
  <2> DEFINE record == [at |-> "open", id |-> i, name |-> proposals[i].name, body |-> proposals[i].body, passed |-> "no"]
  <2>1. i # 0 /\ record.id = i /\ record.at = "open" /\ record.name = proposals[i].name
    BY DEF TypeOK
  <2>2. /\ At(w, "idle") /\ job' = [job EXCEPT ![w] = record]
        /\ UNCHANGED <<disk, replay, verified>>
        /\ mixed' = mixed \union {n \in {proposals[i].name} : Busy(n)}
    BY <1>2 DEF Apply, Started, store, files
  <2>3. mixed' \subseteq Names /\ verified' \subseteq Names
    BY DEF TypeOK
  <2>4. record.name \in mixed' \/ ~Busy(record.name)
    BY <2>1, <2>2
  <2> HIDE DEF record
  <2> QED BY <2>1, <2>2, <2>3, <2>4, StartKeepsTrust
<1>3. ASSUME NEW w \in Workers, NEW n \in Names, Scaffold(w, n) PROVE Alone' /\ TrustNeedsReplay'
  <2> DEFINE record == [at |-> "open", id |-> 0, name |-> n, body |-> DefaultBody, passed |-> "no"]
  <2>1. record.name = n
    OBVIOUS
  <2>2. /\ At(w, "idle") /\ job' = [job EXCEPT ![w] = record]
        /\ UNCHANGED <<disk, replay, verified>>
        /\ mixed' = mixed \union {n}
    BY <1>3 DEF Scaffold, Started, store, files
  <2>3. mixed' \subseteq Names /\ verified' \subseteq Names
    BY DEF TypeOK
  <2> HIDE DEF record
  <2> QED BY <2>1, <2>2, <2>3, StartKeepsTrust
<1>4. ASSUME NEW w \in Workers, NEW m \in Names, NEW n \in Names, Compare(w, m, n)
      PROVE  Alone' /\ TrustNeedsReplay'
  <2> DEFINE record == [Idle EXCEPT !.at = "archive", !.name = n]
  <2>1. record.name = n
    BY DEF Idle
  <2>2. /\ At(w, "idle") /\ job' = [job EXCEPT ![w] = record]
        /\ UNCHANGED <<disk, replay>> /\ verified' = verified \union {m}
        /\ mixed' = mixed \union {m, n}
    BY <1>4 DEF Compare, files
  <2>3. mixed' \subseteq Names /\ verified' \subseteq Names
    BY DEF TypeOK
  <2> HIDE DEF record
  <2> QED BY <2>1, <2>2, <2>3, StartKeepsTrust
<1>5. ASSUME NEW w \in Workers, Die(w) PROVE Alone' /\ TrustNeedsReplay'
  <2>1. job'[w] = Idle /\ (\A v \in Workers \ {w} : job'[v] = job[v])
    BY <1>5, StepJob DEF Die, TypeOK
  <2>2. mixed' = mixed \union {job[w].name} /\ UNCHANGED <<disk, replay, verified>>
    BY <1>5 DEF Die, store, files
  <2>3. Alone'
    BY <2>1, <2>2, IdleJob DEF Alone, At
  <2>4. TrustNeedsReplay'
    BY <2>1, <2>2 DEF TrustNeedsReplay
  <2> QED BY <2>3, <2>4
<1>6. CASE \/ \E n \in Names, b \in Bodies : Suggest(n, b)
           \/ \E i \in DOMAIN proposals : Reject(i)
           \/ \E r \in Runtimes : Discover(r) \/ Register(r)
           \/ UNCHANGED vars
  <2>1. UNCHANGED <<disk, replay, verified, job, mixed>>
    BY <1>6 DEF Suggest, Reject, Discover, Register, vars, store, files, commands
  <2> QED BY <2>1 DEF Alone, TrustNeedsReplay, At
<1> QED BY <1>1, <1>2, <1>3, <1>4, <1>5, <1>6 DEF Next

LEMMA StepIInv == IInv /\ [Next]_vars => IInv'
BY TypeStep, CleanStep, TrackedStep, TrustStep DEF IInv

LEMMA Invariant == Spec => []IInv
BY InitIInv, StepIInv, PTL DEF Spec

-----------------------------------------------------------------------------
(***************************************************************************)
(* Proposals, files, rows, commands and registries stay well formed        *)
(* (workshop.py, lifecycle.py, loader.py): an empty manifest is never      *)
(* loaded.                                                                 *)
(***************************************************************************)
THEOREM WorkshopTypes == Spec => []TypeOK
<1>1. IInv => TypeOK
  BY DEF IInv
<1> QED BY <1>1, Invariant, PTL

(***************************************************************************)
(* What suggest quarantined (workshop.py:244) is never served by a         *)
(* runtime.                                                                *)
(***************************************************************************)
THEOREM QuarantinedIsNeverServed == Spec => []QuarantineHolds
<1>1. IInv => QuarantineHolds
  BY DEF IInv, Clean, QuarantineHolds
<1> QED BY <1>1, Invariant, PTL

(***************************************************************************)
(* A registry that tracks the present mtime (loader.py:202) serves the     *)
(* present manifest, unless it was rewritten between its load and its stat.*)
(***************************************************************************)
THEOREM RegistryIsFresh == Spec => []StaleOnlyFromRace
<1>1. IInv => StaleOnlyFromRace
  BY DEF IInv
<1> QED BY <1>1, Invariant, PTL

(***************************************************************************)
(* A skill that only undisturbed applies touched is trusted only if it     *)
(* passed the replay on the disk (verify.py:8).                            *)
(***************************************************************************)
THEOREM TrustIsEarned == Spec => []TrustNeedsReplay
<1>1. IInv => TrustNeedsReplay
  BY DEF IInv
<1> QED BY <1>1, Invariant, PTL
(***************************************************************************)
(* What a runtime serves is never quarantined, no older than its manifest, *)
(* and trusted only for its replay (loader.py:202, verify.py:8).           *)
(***************************************************************************)
THEOREM RuntimesServeSoundSkills == Spec => []ServedSkillsAreSound
<1>1. QuarantineHolds /\ StaleOnlyFromRace /\ TrustNeedsReplay => ServedSkillsAreSound
  BY DEF ServedSkillsAreSound
<1> QED BY <1>1, QuarantinedIsNeverServed, RegistryIsFresh, TrustIsEarned, PTL
=============================================================================
