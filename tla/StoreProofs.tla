------------------------------ MODULE StoreProofs -----------------------------
(* Proofs about the stores: migrations, the audit log, identities, the vault  *)
(* with the gate, and the queue of the curator. Every part states its         *)
(* inductive invariant first, then what each step does to it.                 *)
EXTENDS Identities, VaultStore, AuditChain, Migrations, CuratorQueue, TLAPS

-----------------------------------------------------------------------------
\* The migrations

(* A call has made the changes it has looked at, and nothing above the change *)
(* being made is there.                                                       *)
RunRecords == [pc : {"loop", "book"}, already : SUBSET Versions, target : Versions, last : 0..Latest]
RunKeeps(x) ==
  x # NoRun =>
    /\ x \in RunRecords
    /\ x.already \subseteq applied
    /\ x.pc = "loop" => 1..x.last \subseteq applied
    /\ x.pc = "book" => x.last \in schema /\ 1..(x.last - 1) \subseteq applied
MigrationInv ==
  /\ MigrationTypes
  /\ DOMAIN runs = Runners
  /\ \A r \in Runners : RunKeeps(runs[r])
  /\ ForwardOnly

(* The next record of a run.                                                  *)
LEMMA NextRun ==
  ASSUME NEW S, NEW T, NEW L,
         NEW y \in [pc : {"loop", "book"}, already : S, target : T, last : L], NEW v \in L
  PROVE  [y EXCEPT !.pc = "book", !.last = v]
            \in [pc : {"loop", "book"}, already : S, target : T, last : L]
OBVIOUS

(* A run makes the changes in their order: all below the next one are made.   *)
LEMMA NextVersion ==
  ASSUME MigrationInv, NEW r \in Runners, runs[r].pc = "loop", NEW v \in Versions,
         v \in Pending(runs[r])
  PROVE  1..(v - 1) \subseteq applied /\ runs[r] \in RunRecords
<1>1. runs[r] # NoRun /\ RunKeeps(runs[r])
  BY DEF MigrationInv, NoRun
<1>2. runs[r] \in RunRecords /\ runs[r].already \subseteq applied /\ 1..runs[r].last \subseteq applied
  BY <1>1 DEF RunKeeps
<1>3. Latest \in Nat /\ v \in 1..Latest /\ runs[r].last \in 0..Latest /\ runs[r].target \in 1..Latest
  BY <1>2, MigrationAssumption DEF RunRecords, Versions
<1>4. ASSUME NEW u \in 1..(v - 1), u > runs[r].last PROVE u \in runs[r].already
  BY <1>3, <1>4 DEF Pending, Versions
<1>5. ASSUME NEW u \in 1..(v - 1) PROVE u \in applied
  BY <1>2, <1>3, <1>4, <1>5
<1> QED
  BY <1>2, <1>5

(* Every step of a process keeps the order of the changes                     *)
(* (memory/migrations/runner.py).                                             *)
LEMMA MigrationStep == MigrationInv /\ [MigrationNext]_migrationVars => MigrationInv'
<1> SUFFICES ASSUME MigrationInv, [MigrationNext]_migrationVars PROVE MigrationInv'
  OBVIOUS
<1> USE MigrationAssumption DEF Versions
<1>1. ASSUME NEW r \in Runners, NEW t \in Versions, Migrate(r, t) PROVE MigrationInv'
  BY <1>1 DEF Migrate, RunsOn, MigrationInv, MigrationTypes, RunKeeps, RunRecords, NoRun, ForwardOnly
<1>2. ASSUME NEW r \in Runners, NEW v \in Versions, Up(r, v) PROVE MigrationInv'
  <2>1. 1..(v - 1) \subseteq applied /\ runs[r] \in RunRecords
    BY <1>2, NextVersion DEF Up
  <2> DEFINE x == [runs[r] EXCEPT !.pc = "book", !.last = v]
  <2>2. /\ x \in RunRecords /\ x.pc = "book" /\ x.last = v /\ x.already = runs[r].already
    <3>1. v \in 0..Latest
      BY DEF Versions
    <3>2. x \in RunRecords
      BY <2>1, <3>1, NextRun DEF RunRecords
    <3> QED
      BY <2>1, <3>2 DEF RunRecords
  <2>3. runs[r].already \subseteq applied
    BY <1>2 DEF Up, MigrationInv, RunKeeps, NoRun
  <2>4. /\ schema' = schema \cup {v} /\ applied' = applied /\ migrates' = migrates
        /\ runs' = [runs EXCEPT ![r] = x]
    BY <1>2 DEF Up, RunsOn
  <2> HIDE DEF x
  <2>5. ASSUME NEW q \in Runners PROVE RunKeeps(runs[q])'
    <3>1. CASE q = r
      BY <2>1, <2>2, <2>3, <2>4, <3>1 DEF MigrationInv, RunKeeps
    <3>2. CASE q # r
      BY <2>4, <3>2 DEF MigrationInv, RunKeeps
    <3> QED
      BY <3>1, <3>2
  <2>6. MigrationTypes' /\ DOMAIN runs' = Runners
    BY <2>4 DEF MigrationInv, MigrationTypes
  <2>7. ForwardOnly'
    BY <2>1, <2>4 DEF MigrationInv, MigrationTypes, ForwardOnly
  <2> QED
    BY <2>5, <2>6, <2>7 DEF MigrationInv
<1>3. ASSUME NEW r \in Runners, NEW v \in Versions, UpFails(r, v) PROVE MigrationInv'
  <2>1. 1..(v - 1) \subseteq applied /\ runs[r] \in RunRecords
    BY <1>3, NextVersion DEF UpFails
  <2> QED
    BY <1>3, <2>1 DEF UpFails, RunsOn, MigrationInv, MigrationTypes, RunKeeps, NoRun, ForwardOnly
<1>4. ASSUME NEW r \in Runners, Book(r) PROVE MigrationInv'
  BY <1>4 DEF Book, RunsOn, MigrationInv, MigrationTypes, RunKeeps, RunRecords, NoRun, ForwardOnly
<1>5. ASSUME NEW r \in Runners, Migrated(r) \/ RunnerDies(r) PROVE MigrationInv'
  BY <1>5 DEF Migrated, RunnerDies, RunsOn, MigrationInv, MigrationTypes, RunKeeps, NoRun, ForwardOnly
<1>6. CASE UNCHANGED migrationVars
  BY <1>6 DEF migrationVars, MigrationInv, MigrationTypes, RunKeeps, ForwardOnly
<1> QED
  BY <1>1, <1>2, <1>3, <1>4, <1>5, <1>6 DEF MigrationNext

(* Whatever processes migrate one database, and wherever they stop, a change  *)
(* is remembered only when it and all below it were made, and the schema has  *)
(* every change below one it has (memory/migrations/runner.py); and every     *)
(* variable has its type.                                                     *)
THEOREM MigrationsGoForward == MigrationSpec => [](MigrationTypes /\ ForwardOnly)
<1>1. MigrationInit => MigrationInv
  BY MigrationAssumption DEF MigrationInit, MigrationInv, MigrationTypes, RunKeeps, NoRun, ForwardOnly, Versions
<1>2. MigrationInv => MigrationTypes /\ ForwardOnly
  BY DEF MigrationInv
<1> QED
  BY <1>1, <1>2, MigrationStep, PTL DEF MigrationSpec

-----------------------------------------------------------------------------
\* The audit log

(* A line is made of its four fields; its hash is over its number, the        *)
(* payload that was written and the hash before; and unless writers clashed,  *)
(* that is the hash of the line before.                                       *)
Line(l) == l = [seq |-> l.seq, payload |-> l.payload, prev |-> l.prev, hash |-> l.hash]
PrevOf(i) == IF i = 1 THEN GenesisHash ELSE log[i - 1].hash
Chained ==
  \A i \in DOMAIN log :
    /\ Line(log[i])
    /\ log[i].hash = <<log[i].seq, written[i], log[i].prev>>
    /\ ~clashed => log[i].prev = PrevOf(i)
(* A writer that is to append has the last hash, unless writers clashed.      *)
Appending(a) ==
  /\ a # NoAppend => a.pc \in {"seq", "write"}
  /\ a.pc \in {"seq", "write"} => a.payload \in Payloads /\ (~clashed => a.prev = LastHash)
  /\ a.pc = "write" => a.seq \in Nat
(* Without a clash one writer appends at a time.                              *)
AuditInv ==
  /\ AuditTypes
  /\ (\E S : log \in Seq(S)) /\ (\E S : written \in Seq(S))
  /\ Chained
  /\ DOMAIN appends = Writers
  /\ \A w \in Writers : Appending(appends[w])
  /\ (tail # "ended" => torn) /\ (unread => tail = "broken")
  /\ ~clashed => \A v, w \in Writers : v # w => appends[v] = NoAppend \/ appends[w] = NoAppend

(* A line behind a sequence.                                                  *)
LEMMA AppendTo ==
  ASSUME NEW S, NEW s \in Seq(S), NEW e
  PROVE  /\ Append(s, e) \in Seq(S \cup {e}) /\ Len(Append(s, e)) = Len(s) + 1
         /\ DOMAIN s = 1..Len(s) /\ Len(s) \in Nat
         /\ DOMAIN Append(s, e) = 1..(Len(s) + 1) /\ Append(s, e) # <<>>
         /\ \A i \in DOMAIN s : Append(s, e)[i] = s[i]
         /\ Append(s, e)[Len(s) + 1] = e
OBVIOUS

(* Two intervals that begin alike and are the same end alike.                 *)
LEMMA SameEnd ==
  ASSUME NEW m \in Nat, NEW n \in Nat, 1..m = 1..n
  PROVE  m = n
<1>1. m < n => n \in 1..n /\ n \notin 1..m
  OBVIOUS
<1>2. n < m => m \in 1..m /\ m \notin 1..n
  OBVIOUS
<1>3. m < n \/ n < m \/ m = n
  OBVIOUS
<1> QED
  BY <1>1, <1>2, <1>3

(* The log, its lines and the one hash a next line would be chained to.       *)
LEMMA LinesEnd ==
  ASSUME AuditInv
  PROVE  /\ DOMAIN log = 1..Len(log) /\ DOMAIN written = 1..Len(log) /\ Len(log) \in Nat /\ Len(written) = Len(log)
         /\ log = <<>> <=> Len(log) = 0
         /\ LastHash = PrevOf(Len(log) + 1)
         /\ NextSeq \in Nat
<1>1. PICK S, T : log \in Seq(S) /\ written \in Seq(T)
  BY DEF AuditInv
<1>2. DOMAIN log = 1..Len(log) /\ DOMAIN written = 1..Len(written) /\ Len(log) \in Nat /\ Len(written) \in Nat
      /\ (log = <<>> <=> Len(log) = 0)
  BY <1>1
<1>3. Len(written) = Len(log)
  <2>1. 1..Len(log) = 1..Len(written)
    BY <1>2 DEF AuditInv, AuditTypes
  <2> QED
    BY <1>2, <2>1, SameEnd
<1>4. log # <<>> => Len(log) \in DOMAIN log
  BY <1>2
<1>5. LastHash = PrevOf(Len(log) + 1)
  <2>1. CASE Len(log) = 0
    BY <1>2, <2>1 DEF LastHash, PrevOf
  <2>2. CASE Len(log) # 0
    <3>1. Len(log) + 1 # 1 /\ (Len(log) + 1) - 1 = Len(log) /\ log # <<>>
      BY <1>2, <2>2
    <3> QED
      BY <3>1 DEF LastHash, PrevOf
  <2> QED
    BY <2>1, <2>2
<1>6. NextSeq \in Nat
  <2>1. CASE log = <<>>
    BY <2>1 DEF NextSeq
  <2>2. CASE log # <<>>
    <3>1. log[Len(log)].seq \in Nat
      BY <1>4, <2>2 DEF AuditInv, AuditTypes
    <3> QED
      BY <2>2, <3>1 DEF NextSeq
  <2> QED
    BY <2>1, <2>2
<1> QED
  BY <1>2, <1>3, <1>5, <1>6

(* A line is added behind the others by the only writer.                      *)
LEMMA LineAdded ==
  ASSUME AuditInv, NEW w \in Writers, appends[w].pc = "write",
         log' = Append(log, [seq |-> appends[w].seq, payload |-> appends[w].payload, prev |-> appends[w].prev,
                  hash |-> EntryHash(appends[w].seq, appends[w].payload, appends[w].prev)]),
         written' = Append(written, appends[w].payload),
         tail' \in {"ended", "unended", "broken"}, UNCHANGED <<edits, clashed>>,
         torn' \in BOOLEAN, unread' \in BOOLEAN
  PROVE  /\ AuditTypes' /\ Chained' /\ (\E S : log \in Seq(S))' /\ (\E S : written \in Seq(S))'
<1> DEFINE a == appends[w]
           e == [seq |-> a.seq, payload |-> a.payload, prev |-> a.prev, hash |-> EntryHash(a.seq, a.payload, a.prev)]
<1>1. PICK S, T : log \in Seq(S) /\ written \in Seq(T)
  BY DEF AuditInv
<1>2. a.payload \in Payloads /\ a.seq \in Nat /\ (~clashed => a.prev = LastHash)
  BY DEF AuditInv, Appending
<1>3. Line(e) /\ e.seq = a.seq /\ e.payload = a.payload /\ e.prev = a.prev /\ e.hash = <<e.seq, a.payload, e.prev>>
  BY DEF Line, EntryHash
<1> HIDE DEF e, a
<1>4. log' = Append(log, e) /\ written' = Append(written, a.payload)
  BY DEF e, a
<1>5. /\ DOMAIN log' = 1..(Len(log) + 1) /\ log'[Len(log) + 1] = e /\ \A i \in 1..Len(log) : log'[i] = log[i]
      /\ log' \in Seq(S \cup {e})
  BY <1>1, <1>4, AppendTo
<1>6. /\ DOMAIN written' = 1..(Len(log) + 1) /\ written'[Len(log) + 1] = a.payload /\ \A i \in 1..Len(log) : written'[i] = written[i]
      /\ written' \in Seq(T \cup {a.payload})
  <2>1. Len(written) = Len(log)
    BY LinesEnd
  <2> HIDE DEF e
  <2> QED
    BY <1>1, <1>4, <2>1, AppendTo
<1>7. AuditTypes'
  BY <1>2, <1>3, <1>5, <1>6, LinesEnd DEF AuditInv, AuditTypes
<1>8. ASSUME NEW i \in 1..(Len(log) + 1) PROVE
        /\ Line(log'[i])
        /\ log'[i].hash = <<log'[i].seq, written'[i], log'[i].prev>>
        /\ ~clashed => log'[i].prev = PrevOf(i)'
  <2>1. CASE i \in 1..Len(log)
    <3>1. PrevOf(i)' = PrevOf(i)
      BY <1>5, <2>1, LinesEnd DEF PrevOf
    <3> QED
      BY <1>5, <1>6, <2>1, <3>1, LinesEnd DEF AuditInv, Chained
  <2>2. CASE i = Len(log) + 1
    <3>1. PrevOf(i)' = PrevOf(i)
      <4>1. CASE i = 1
        BY <4>1 DEF PrevOf
      <4>2. CASE i # 1
        <5>1. i - 1 \in 1..Len(log)
          BY <2>2, <4>2, LinesEnd
        <5> QED
          BY <1>5, <4>2, <5>1 DEF PrevOf
      <4> QED
        BY <4>1, <4>2
    <3> QED
      BY <1>2, <1>3, <1>5, <1>6, <2>2, <3>1, LinesEnd
  <2> QED
    BY <2>1, <2>2, LinesEnd
<1> QED
  BY <1>5, <1>6, <1>7, <1>8 DEF Chained

(* Every step of a writer, and every edit of the file, keeps the chain as far *)
(* as it was kept (safety/audit.py).                                          *)
LEMMA AuditStep == AuditInv /\ [AuditNext]_auditVars => AuditInv'
<1> SUFFICES ASSUME AuditInv, [AuditNext]_auditVars PROVE AuditInv'
  OBVIOUS
<1>1. ASSUME NEW w \in Writers, NEW x \in Payloads, ReadLastHash(w, x) PROVE AuditInv'
  BY <1>1 DEF ReadLastHash, GoesOn, NoAppend, AuditInv, AuditTypes, Chained, PrevOf, Appending, LastHash
<1>2. ASSUME NEW w \in Writers, ReadNextSeq(w) PROVE AuditInv'
  <2>1. NextSeq \in Nat
    BY LinesEnd
  <2> QED
    BY <1>2, <2>1 DEF ReadNextSeq, GoesOn, NoAppend, AuditInv, AuditTypes, Chained, PrevOf, Appending, LastHash
<1>3. ASSUME NEW w \in Writers, WriteEntry(w) \/ WriterDies(w) PROVE AuditInv'
  <2>1. GoesOn(w, NoAppend) /\ UNCHANGED <<edits, clashed>> /\ appends[w] # NoAppend
    BY <1>3 DEF WriteEntry, WriterDies, NoAppend
  <2>2. AuditTypes' /\ Chained' /\ (\E S : log \in Seq(S))' /\ (\E S : written \in Seq(S))'
    <3>0. torn' \in BOOLEAN /\ unread' \in BOOLEAN
      BY <1>3 DEF WriteEntry, WriterDies, AuditInv, AuditTypes
    <3>1. CASE UNCHANGED <<log, written>> /\ tail' \in {tail, "broken"}
      BY <2>1, <3>0, <3>1 DEF AuditInv, AuditTypes, Chained, PrevOf
    <3>2. CASE ~(UNCHANGED <<log, written>> /\ tail' \in {tail, "broken"})
      BY <1>3, <2>1, <3>0, <3>2, LineAdded DEF WriteEntry, WriterDies, AuditInv, AuditTypes
    <3> QED
      BY <3>1, <3>2
  <2>3. DOMAIN appends' = Writers /\ appends'[w] = NoAppend /\ \A v \in Writers \ {w} : appends'[v] = appends[v]
    BY <2>1 DEF GoesOn, AuditInv
  <2>4. \A v \in Writers \ {w} : ~clashed => appends[v] = NoAppend
    BY <2>1 DEF AuditInv
  <2>5. \A v \in Writers : Appending(appends[v])'
    BY <2>1, <2>3, <2>4 DEF AuditInv, Appending, NoAppend
  <2>6. (tail' # "ended" => torn') /\ (unread' => tail' = "broken")
    BY <1>3 DEF WriteEntry, WriterDies, AuditInv
  <2> QED
    BY <2>1, <2>2, <2>3, <2>4, <2>5, <2>6 DEF AuditInv
<1>4. ASSUME NEW i \in DOMAIN log, NEW x \in Payloads, Edit(i, x) PROVE AuditInv'
  <2> DEFINE e == [log[i] EXCEPT !.payload = x]
  <2>1. PICK S : log \in Seq(S)
    BY DEF AuditInv
  <2>2. /\ log' = [log EXCEPT ![i] = e] /\ UNCHANGED <<tail, appends, written, clashed, torn, unread>>
        /\ edits' = edits + 1 /\ edits < MaxEdits
    BY <1>4 DEF Edit
  <2>3. Line(e) /\ e.payload = x /\ e.seq = log[i].seq /\ e.prev = log[i].prev /\ e.hash = log[i].hash
    BY DEF AuditInv, Chained, Line
  <2> HIDE DEF e
  <2>4. log' \in Seq(S \cup {e}) /\ Len(log') = Len(log) /\ DOMAIN log' = DOMAIN log
    BY <2>1, <2>2
  <2>5. \A j \in DOMAIN log : log'[j] = IF j = i THEN e ELSE log[j]
    BY <2>2
  <2>6. \A j \in DOMAIN log : log'[j].hash = log[j].hash /\ log'[j].seq = log[j].seq /\ log'[j].prev = log[j].prev
    BY <2>3, <2>5
  <2>7. \A j \in DOMAIN log : PrevOf(j)' = PrevOf(j)
    BY <2>6, LinesEnd DEF PrevOf
  <2>8. LastHash' = LastHash
    <3>1. log = <<>> <=> log' = <<>>
      BY <2>1, <2>4
    <3> QED
      BY <2>4, <2>6, <3>1, LinesEnd DEF LastHash
  <2>9. AuditTypes'
    BY <2>2, <2>3, <2>4, <2>5, AuditAssumption DEF AuditInv, AuditTypes
  <2>10. Chained'
    BY <2>2, <2>3, <2>4, <2>5, <2>6, <2>7 DEF AuditInv, Chained
  <2> QED
    BY <2>2, <2>4, <2>8, <2>9, <2>10 DEF AuditInv, Appending
<1>5. CASE UNCHANGED auditVars
  BY <1>5 DEF auditVars, AuditInv, AuditTypes, Chained, PrevOf, Appending, LastHash
<1> QED
  BY <1>1, <1>2, <1>3, <1>4, <1>5 DEF AuditNext

(* When verify answers, it has read every entry whose append returned and, as *)
(* long as appends do not overlap, it names exactly the entries whose payload *)
(* was edited; it raises only where a writer has died in the middle of a line *)
(* (safety/audit.py). And every variable has its type.                        *)
THEOREM VerifyAccusesTheEdited == AuditSpec => [](AuditTypes /\ VerifyIsExact)
<1>1. AuditInit => AuditInv
  <2> SUFFICES ASSUME AuditInit PROVE AuditInv
    OBVIOUS
  <2>1. log \in Seq({}) /\ written \in Seq({}) /\ DOMAIN log = {} /\ DOMAIN written = {}
    BY DEF AuditInit
  <2>2. edits \in 0..MaxEdits
    BY AuditAssumption DEF AuditInit, AuditAssumption
  <2>3. AuditTypes
    <3>1. /\ clashed \in BOOLEAN /\ torn \in BOOLEAN /\ unread \in BOOLEAN
          /\ tail \in {"ended", "unended", "broken"}
      BY DEF AuditInit
    <3> QED
      BY <2>1, <2>2, <3>1 DEF AuditTypes
  <2>4. Chained
    BY <2>1 DEF Chained
  <2>5. DOMAIN appends = Writers /\ \A w \in Writers : appends[w] = NoAppend /\ Appending(appends[w])
    BY DEF AuditInit, Appending, NoAppend
  <2>6. (tail # "ended" => torn) /\ (unread => tail = "broken")
    BY DEF AuditInit
  <2> QED
    BY <2>1, <2>3, <2>4, <2>5, <2>6 DEF AuditInv
<1>2. AuditInv => VerifyIsExact
  <2> SUFFICES ASSUME AuditInv PROVE VerifyIsExact
    OBVIOUS
  <2>1. Verify.raises => torn
    BY DEF Verify, Legible, AuditInv
  <2>2. ~Verify.raises => ~unread /\ Verify.bad = Bad
    BY DEF Verify, Legible, AuditInv
  <2>3. ASSUME ~clashed PROVE Bad = Edited
    <3>1. \A j \in DOMAIN log :
            (\/ log[j].hash # EntryHash(log[j].seq, log[j].payload, log[j].prev)
             \/ log[j].prev # IF j = 1 THEN GenesisHash ELSE log[j - 1].hash)
            <=> log[j].payload # written[j]
      BY <2>3 DEF AuditInv, Chained, EntryHash, PrevOf
    <3> QED
      BY <3>1 DEF Bad, Edited
  <2> QED
    BY <2>1, <2>2, <2>3 DEF VerifyIsExact
<1>3. AuditInv => AuditTypes
  BY DEF AuditInv
<1> QED
  BY <1>1, <1>2, <1>3, AuditStep, PTL DEF AuditSpec

-----------------------------------------------------------------------------
\* Identities

(* The call of a client: what it was asked, and how far it is.                *)
Minting == [pc : {"mint"}, handle : Handles, now : Int]
Linking == [pc : {"check", "bind", "row"}, handle : Handles, id : IdentityIds, now : Int]
Storing == [pc : {"store"}, handle : Handles, id : IdentityIds, session : SessionIds, now : Int]
Attaching == [pc : {"attach"}, handle : Handles, id : IdentityIds]
Folding == [pc : {"fold"}, id : IdentityIds, from : IdentityIds]

(* With p for who is one person: whatever is written down of a handle, an     *)
(* identity or a session ties it to what is the same person.                  *)
CallIsDeclared(x, p) ==
  /\ x \in {NoCall} \cup Minting \cup Linking \cup Storing \cup Attaching \cup Folding
  /\ x \in Linking \cup Storing \cup Attaching => p[x.handle] = p[x.id]
  /\ x \in Storing => p[x.id] = p[x.session]
  /\ x \in Folding => p[x.id] = p[x.from]
CallsAreDeclared(f, p) == DOMAIN f = Clients /\ \A c \in Clients : CallIsDeclared(f[c], p)
LinksAreDeclared(l, p) ==
  /\ l \in [Handles -> IdentityIds \cup {NoId}]
  /\ \A h \in Handles : l[h] # NoId => p[h] = p[l[h]]
RowIsDeclared(x, i, p) ==
  x # NoId => x \in [session : SessionIds, seen : Int] /\ p[i] = p[x.session]
RowsAreDeclared(r, p) ==
  DOMAIN r = IdentityIds /\ \A i \in IdentityIds : RowIsDeclared(r[i], i, p)
ServedAreDeclared(s, p) ==
  s \subseteq Handles \X SessionIds /\ \A x \in s : p[x[1]] = p[x[2]]
Declared ==
  /\ person \in [Subjects -> Subjects] /\ clock \in Int
  /\ CallsAreDeclared(calls, person)
  /\ LinksAreDeclared(links, person)
  /\ RowsAreDeclared(rows, person)
  /\ ServedAreDeclared(served, person)

(* Who was one person stays one person.                                       *)
Grows(p, q) == \A x, y \in Subjects : p[x] = p[y] => q[x] = q[y]

(* Joining two subjects makes them one person and takes nobody apart.         *)
LEMMA JoinIsDeclared ==
  ASSUME NEW p \in [Subjects -> Subjects], NEW x \in Subjects, NEW y \in Subjects
  PROVE  /\ Join(p, x, y) \in [Subjects -> Subjects] /\ Grows(p, Join(p, x, y))
         /\ Join(p, x, y)[x] = Join(p, x, y)[y]
BY DEF Join, Grows

(* What ties handles, identities and sessions to one person goes on doing so  *)
(* when persons are joined.                                                   *)
LEMMA StaysDeclared ==
  ASSUME NEW p, NEW q, Grows(p, q)
  PROVE  /\ \A x : CallIsDeclared(x, p) => CallIsDeclared(x, q)
         /\ \A f : CallsAreDeclared(f, p) => CallsAreDeclared(f, q)
         /\ \A l : LinksAreDeclared(l, p) => LinksAreDeclared(l, q)
         /\ \A r : RowsAreDeclared(r, p) => RowsAreDeclared(r, q)
         /\ \A s : ServedAreDeclared(s, p) => ServedAreDeclared(s, q)
<1> USE DEF Grows, Subjects
<1>1. ASSUME NEW x, CallIsDeclared(x, p) PROVE CallIsDeclared(x, q)
  BY <1>1 DEF CallIsDeclared, Linking, Storing, Attaching, Folding
<1>2. ASSUME NEW l, LinksAreDeclared(l, p) PROVE LinksAreDeclared(l, q)
  BY <1>2 DEF LinksAreDeclared
<1>3. ASSUME NEW r, RowsAreDeclared(r, p) PROVE RowsAreDeclared(r, q)
  BY <1>3 DEF RowsAreDeclared, RowIsDeclared
<1>4. ASSUME NEW s, ServedAreDeclared(s, p) PROVE ServedAreDeclared(s, q)
  BY <1>4 DEF ServedAreDeclared
<1> QED
  BY <1>1, <1>2, <1>3, <1>4 DEF CallsAreDeclared

(* The next step of a link that is under way.                                 *)
LEMMA LinkingGoesOn ==
  ASSUME NEW x \in Linking, NEW p, p[x.handle] = p[x.id], NEW pc \in {"bind", "row"}
  PROVE  CallIsDeclared([x EXCEPT !.pc = pc], p)
<1> DEFINE y == [x EXCEPT !.pc = pc]
<1>1. y \in Linking /\ y.handle = x.handle /\ y.id = x.id
  BY DEF Linking
<1>2. y \notin Storing /\ y \notin Folding
  BY <1>1 DEF Linking, Storing, Folding
<1> QED
  BY <1>1, <1>2 DEF CallIsDeclared

(* One client goes on; the calls of the others are what they were.            *)
LEMMA CallsStayDeclared ==
  ASSUME Declared, NEW c \in Clients, NEW x, Goes(c, x), NEW q, Grows(person, q),
         CallIsDeclared(x, q)
  PROVE  CallsAreDeclared(calls', q)
BY StaysDeclared DEF Declared, Goes, CallsAreDeclared

(* A client without a call ties nothing.                                      *)
LEMMA NoCallIsDeclared == ASSUME NEW p PROVE CallIsDeclared(NoCall, p)
BY DEF CallIsDeclared, NoCall, Linking, Storing, Attaching, Folding

(* A step that joins nobody takes nobody apart.                               *)
LEMMA StaysOnePerson == Grows(person, person)
BY DEF Grows

(* A minted identifier was not drawn before.                                  *)
LEMMA FreshIsNew == ASSUME NEW S, NEW s \in FreshOf(S) PROVE s \in S /\ s \notin drawn
BY DEF FreshOf

(* A lookup of a handle reads one link and starts the call from it.           *)
LEMMA DeclaredLookup ==
  ASSUME Declared, NEW c \in Clients, NEW h \in Handles, NEW auto \in BOOLEAN, Lookup(c, h, auto)
  PROVE  Declared'
<1>1. UNCHANGED <<links, rows, clock>>
  BY DEF Lookup
<1>2. CASE UNCHANGED <<sessions, drawn, served, person>> /\ calls' # calls
  <2>1. PICK x : Goes(c, x) /\ CallIsDeclared(x, person)
    <3>1. CASE links[h] # NoId
      <4>1. Goes(c, [pc |-> "row", handle |-> h, id |-> links[h], now |-> clock])
        BY <3>1 DEF Lookup, IdentityFor
      <4>2. links[h] \in IdentityIds /\ person[h] = person[links[h]] /\ clock \in Int
        BY <3>1 DEF Declared, LinksAreDeclared
      <4> QED
        BY <4>1, <4>2 DEF CallIsDeclared, Linking, Storing, Attaching, Folding
    <3>2. CASE links[h] = NoId
      <4>1. Goes(c, [pc |-> "mint", handle |-> h, now |-> clock])
        BY <1>2, <3>2 DEF Lookup, IdentityFor
      <4>2. clock \in Int
        BY DEF Declared
      <4> QED
        BY <4>1, <4>2 DEF CallIsDeclared, Minting, Linking, Storing, Attaching, Folding
    <3> QED
      BY <3>1, <3>2
  <2> QED
    BY <1>1, <1>2, <2>1, CallsStayDeclared, StaysOnePerson DEF Declared
<1>3. CASE \E s \in FreshOf(SessionIds) : served' = served \cup {<<h, s>>} /\ person' = Join(person, h, s) /\ calls' = calls
  <2>1. PICK s \in SessionIds : served' = served \cup {<<h, s>>} /\ person' = Join(person, h, s) /\ calls' = calls
    BY <1>3, FreshIsNew
  <2>2. /\ person' \in [Subjects -> Subjects] /\ Grows(person, person')
        /\ person'[h] = person'[s]
    BY <2>1, JoinIsDeclared DEF Declared, Subjects
  <2>3. ServedAreDeclared(served', person')
    BY <2>1, <2>2, StaysDeclared DEF Declared, ServedAreDeclared
  <2> QED
    BY <1>1, <2>1, <2>2, <2>3, StaysDeclared DEF Declared
<1>4. CASE UNCHANGED <<sessions, drawn, served, person>> /\ calls' = calls
  BY <1>1, <1>4 DEF Declared
<1> QED
  BY <1>2, <1>3, <1>4 DEF Lookup, Goes

(* No step ties a handle, an identity or a session to a person it is not      *)
(* declared to be of (gateway/identity.py).                                   *)
LEMMA DeclaredStep == Declared /\ [IdentityNext]_identityVars => Declared'
<1> SUFFICES ASSUME Declared, [IdentityNext]_identityVars PROVE Declared'
  OBVIOUS
<1> USE StaysOnePerson
<1>1. ASSUME NEW c \in Clients, Mint(c) PROVE Declared'
  <2>1. PICK i \in IdentityIds :
          /\ person' = Join(person, calls[c].handle, i)
          /\ Goes(c, [pc |-> "check", handle |-> calls[c].handle, id |-> i, now |-> calls[c].now])
    BY <1>1, FreshIsNew DEF Mint
  <2>2. calls[c] \in Minting
    BY <1>1 DEF Mint, Declared, CallsAreDeclared, CallIsDeclared, NoCall, Linking, Storing, Attaching, Folding
  <2>3. /\ person' \in [Subjects -> Subjects] /\ Grows(person, person')
        /\ person'[calls[c].handle] = person'[i] /\ calls[c].handle \in Handles /\ calls[c].now \in Int
    BY <2>1, <2>2, JoinIsDeclared DEF Declared, Subjects, Minting
  <2>4. CallIsDeclared([pc |-> "check", handle |-> calls[c].handle, id |-> i, now |-> calls[c].now], person')
    BY <2>3 DEF CallIsDeclared, Linking, Storing, Attaching, Folding
  <2>5. CallsAreDeclared(calls', person')
    BY <2>1, <2>3, <2>4, CallsStayDeclared
  <2> QED
    BY <1>1, <2>3, <2>5, StaysDeclared DEF Mint, Declared
<1>2. ASSUME NEW c \in Clients, CheckMinted(c) PROVE Declared'
  <2>1. calls[c] \in Linking /\ person[calls[c].handle] = person[calls[c].id]
    BY <1>2 DEF CheckMinted, Declared, CallsAreDeclared, CallIsDeclared, NoCall, Minting, Storing, Attaching, Folding
  <2>2. CallIsDeclared([calls[c] EXCEPT !.pc = "bind"], person)
    BY <2>1, LinkingGoesOn
  <2>3. CallsAreDeclared(calls', person)
    BY <1>2, <2>2, NoCallIsDeclared, CallsStayDeclared DEF CheckMinted, Returns
  <2> QED
    BY <1>2, <2>3 DEF CheckMinted, Declared, dbVars
<1>3. ASSUME NEW c \in Clients, Bind(c) PROVE Declared'
  <2>1. /\ calls[c] \in Linking \cup Attaching /\ person[calls[c].handle] = person[calls[c].id]
        /\ calls[c].handle \in Handles /\ calls[c].id \in IdentityIds
    BY <1>3 DEF Bind, Declared, CallsAreDeclared, CallIsDeclared, NoCall, Minting, Storing, Linking, Attaching, Folding
  <2>2. CallsAreDeclared(calls', person)
    <3>1. CASE calls[c].pc = "bind"
      <4>1. calls[c] \in Linking
        BY <2>1, <3>1 DEF Attaching
      <4>2. CallIsDeclared([calls[c] EXCEPT !.pc = "row"], person)
        BY <2>1, <4>1, LinkingGoesOn
      <4> QED
        BY <1>3, <3>1, <4>2, CallsStayDeclared DEF Bind
    <3>2. CASE calls[c].pc # "bind"
      BY <1>3, <3>2, NoCallIsDeclared, CallsStayDeclared DEF Bind, Returns
    <3> QED
      BY <3>1, <3>2
  <2>4. LinksAreDeclared(links', person)
    BY <1>3, <2>1 DEF Bind, Declared, LinksAreDeclared
  <2> QED
    BY <1>3, <2>2, <2>4 DEF Bind, Declared
<1>4. ASSUME NEW c \in Clients, ReadRow(c) PROVE Declared'
  <2> DEFINE i == calls[c].id
             found(s) == [pc |-> "store", handle |-> calls[c].handle, id |-> i,
                          session |-> s, now |-> calls[c].now]
  <2>1. calls[c] \in Linking /\ person[calls[c].handle] = person[i]
    BY <1>4 DEF ReadRow, Declared, CallsAreDeclared, CallIsDeclared, NoCall, Minting, Storing, Attaching, Folding
  <2>2. calls[c].handle \in Handles /\ i \in IdentityIds /\ calls[c].now \in Int
    BY <2>1 DEF Linking
  <2>3. ASSUME NEW s \in SessionIds, NEW q, q[calls[c].handle] = q[i], q[i] = q[s]
        PROVE  CallIsDeclared(found(s), q)
    BY <2>2, <2>3 DEF CallIsDeclared, Linking, Storing, Attaching, Folding
  <2> HIDE DEF found
  <2>4. CASE UNCHANGED person /\ rows[i] # NoId /\ Goes(c, found(rows[i].session))
    <3>1. rows[i].session \in SessionIds /\ person[i] = person[rows[i].session]
      BY <2>2, <2>4 DEF Declared, RowsAreDeclared, RowIsDeclared
    <3>2. CallIsDeclared(found(rows[i].session), person)
      BY <2>1, <2>3, <3>1
    <3> QED
      BY <1>4, <2>4, <3>2, CallsStayDeclared DEF ReadRow, Declared
  <2>5. CASE \E s \in SessionIds : person' = Join(person, i, s) /\ Goes(c, found(s))
    <3>1. PICK s \in SessionIds : person' = Join(person, i, s) /\ Goes(c, found(s))
      BY <2>5
    <3>2. /\ person' \in [Subjects -> Subjects] /\ Grows(person, person')
          /\ person'[i] = person'[s]
      BY <2>2, <3>1, JoinIsDeclared DEF Declared, Subjects
    <3>3. person'[calls[c].handle] = person'[i]
      BY <2>1, <2>2, <3>2 DEF Grows, Subjects
    <3>4. CallIsDeclared(found(s), person')
      BY <2>3, <3>2, <3>3
    <3> QED
      BY <1>4, <3>1, <3>2, <3>4, CallsStayDeclared, StaysDeclared DEF ReadRow, Declared
  <2> QED
    BY <1>4, <2>4, <2>5, FreshIsNew DEF ReadRow, Reusable, found
<1>5. ASSUME NEW c \in Clients, StoreRow(c) PROVE Declared'
  <2>1. calls[c] \in Storing /\ person[calls[c].handle] = person[calls[c].id]
        /\ person[calls[c].id] = person[calls[c].session]
    BY <1>5 DEF StoreRow, Declared, CallsAreDeclared, CallIsDeclared, NoCall, Minting, Linking, Attaching, Folding
  <2>2. /\ calls[c].handle \in Handles /\ calls[c].id \in IdentityIds
        /\ calls[c].session \in SessionIds /\ calls[c].now \in Int
    BY <2>1 DEF Storing
  <2>3. RowIsDeclared([session |-> calls[c].session, seen |-> calls[c].now], calls[c].id, person)
    BY <2>1, <2>2 DEF RowIsDeclared
  <2>4. RowsAreDeclared(rows', person)
    BY <1>5, <2>2, <2>3 DEF StoreRow, Declared, RowsAreDeclared
  <2>5. ServedAreDeclared(served', person)
    BY <1>5, <2>1, <2>2 DEF StoreRow, Declared, ServedAreDeclared
  <2> QED
    BY <1>5, <2>4, <2>5, NoCallIsDeclared, CallsStayDeclared DEF StoreRow, Returns, Declared
<1>6. ASSUME NEW c \in Clients, Fold(c) PROVE Declared'
  <2> DEFINE a == calls[c].id  b == calls[c].from
  <2>1. calls[c] \in Folding /\ person[a] = person[b]
    BY <1>6 DEF Fold, Declared, CallsAreDeclared, CallIsDeclared, NoCall, Minting, Linking, Storing, Attaching
  <2>2. a \in IdentityIds /\ b \in IdentityIds
    BY <2>1 DEF Folding
  <2>3. LinksAreDeclared(links', person)
    <3>1. links' = [h \in Handles |-> IF links[h] = b THEN a ELSE links[h]]
      BY <1>6 DEF Fold, FoldedLinks
    <3>2. LinksAreDeclared(links, person)
      BY DEF Declared
    <3> HIDE DEF a, b
    <3>3. links' \in [Handles -> IdentityIds \cup {NoId}]
      BY <2>2, <3>1, <3>2 DEF LinksAreDeclared
    <3>4. ASSUME NEW h \in Handles, links'[h] # NoId PROVE person[h] = person[links'[h]]
      BY <2>1, <2>2, <3>1, <3>2, <3>4, IdentityAssumption DEF LinksAreDeclared
    <3> QED
      BY <3>3, <3>4 DEF LinksAreDeclared
  <2>4. RowsAreDeclared(rows', person)
    <3>1. DOMAIN rows' = IdentityIds /\ rows' = FoldedRows(a, b)
      BY <1>6, <2>2 DEF Fold, FoldedRows, Declared, RowsAreDeclared
    <3>2. ASSUME NEW i \in IdentityIds PROVE RowIsDeclared(rows'[i], i, person)
      <4>1. rows'[i] = rows[i] \/ rows'[i] = NoId \/ (i = a /\ rows'[i] = rows[b])
        BY <2>2, <3>1 DEF FoldedRows, Declared, RowsAreDeclared
      <4>2. RowIsDeclared(rows[i], i, person) /\ RowIsDeclared(rows[b], b, person)
        BY <2>2 DEF Declared, RowsAreDeclared
      <4> QED
        BY <2>1, <4>1, <4>2 DEF RowIsDeclared
    <3> QED
      BY <3>1, <3>2 DEF RowsAreDeclared
  <2> QED
    BY <1>6, <2>3, <2>4, NoCallIsDeclared, CallsStayDeclared DEF Fold, Returns, Declared
<1>7. ASSUME NEW c \in Clients, ClientDies(c) PROVE Declared'
  BY <1>7, NoCallIsDeclared, CallsStayDeclared DEF ClientDies, Returns, Declared, dbVars
<1>8. ASSUME NEW c \in Clients, NEW h \in Handles, NEW i \in IdentityIds, Link(c, i, h) PROVE Declared'
  <2>1. CASE i \in identities
    <3>1. /\ person' = Join(person, i, h) /\ Goes(c, [pc |-> "attach", handle |-> h, id |-> i])
          /\ UNCHANGED <<links, rows, clock, served>>
      BY <1>8, <2>1 DEF Link, dbVars
    <3>2. /\ person' \in [Subjects -> Subjects] /\ Grows(person, person')
          /\ person'[h] = person'[i]
      BY <3>1, JoinIsDeclared DEF Declared, Subjects
    <3>3. CallIsDeclared([pc |-> "attach", handle |-> h, id |-> i], person')
      BY <3>2 DEF CallIsDeclared, Linking, Storing, Attaching, Folding
    <3> QED
      BY <3>1, <3>2, <3>3, CallsStayDeclared, StaysDeclared DEF Declared
  <2>2. CASE i \notin identities
    BY <1>8, <2>2 DEF Link, dbVars, Declared
  <2> QED
    BY <2>1, <2>2
<1>9. ASSUME NEW c \in Clients, NEW h \in Handles, Unlink(c, h) PROVE Declared'
  <2>1. LinksAreDeclared(links', person)
    BY <1>9 DEF Unlink, Declared, LinksAreDeclared
  <2> QED
    BY <1>9, <2>1 DEF Unlink, Declared
<1>10. ASSUME NEW c \in Clients, NEW a \in IdentityIds, NEW b \in IdentityIds, Merge(c, a, b) PROVE Declared'
  <2>1. CASE a # b /\ {a, b} \subseteq identities
    <3>1. /\ person' = Join(person, a, b) /\ Goes(c, [pc |-> "fold", id |-> a, from |-> b])
          /\ UNCHANGED <<links, rows, clock, served>>
      BY <1>10, <2>1 DEF Merge, dbVars
    <3>2. /\ person' \in [Subjects -> Subjects] /\ Grows(person, person')
          /\ person'[a] = person'[b]
      BY <3>1, JoinIsDeclared DEF Declared, Subjects
    <3>3. CallIsDeclared([pc |-> "fold", id |-> a, from |-> b], person')
      BY <3>2 DEF CallIsDeclared, Linking, Storing, Attaching, Folding
    <3> QED
      BY <3>1, <3>2, <3>3, CallsStayDeclared, StaysDeclared DEF Declared
  <2>2. CASE ~(a # b /\ {a, b} \subseteq identities)
    BY <1>10, <2>2 DEF Merge, dbVars, Declared
  <2> QED
    BY <2>1, <2>2
<1>11. CASE LoseSessions \/ ClockTicks \/ UNCHANGED identityVars
  BY <1>11 DEF LoseSessions, ClockTicks, identityVars, dbVars, Declared
<1> QED
  BY <1>1, <1>2, <1>3, <1>4, <1>5, <1>6, <1>7, <1>8, <1>9, <1>10, <1>11, DeclaredLookup
  DEF IdentityNext, ClientStep

-----------------------------------------------------------------------------
(* An identity or a session that is not drawn yet is nobody, and is not in    *)
(* any table or call.                                                         *)
CallIsDrawn(x, d) == x \in Linking \cup Storing \cup Attaching \cup Folding => x.id \in d
TablesAreDrawn ==
  /\ identities \subseteq drawn \cap IdentityIds
  /\ \A h \in Handles : links[h] # NoId => links[h] \in drawn
  /\ \A c \in Clients : CallIsDrawn(calls[c], drawn)
Undrawn == (IdentityIds \cup SessionIds) \ drawn
Unseen ==
  /\ TablesAreDrawn
  /\ \A x \in Undrawn, y \in Subjects : person[y] = person[x] => y = x

(* While x is the only call: identities are apart unless x folds them, links  *)
(* point to identities, and a handle without a link is the same person as no  *)
(* identity and no other handle, unless x is about to link it.                *)
Pends(x, h) ==
  /\ x \in Linking \cup Attaching /\ x.pc \in {"check", "bind", "attach"}
  /\ x.handle = h
ExactWith(x, ids, l, p) ==
  /\ \A i, j \in ids : p[i] = p[j] => i = j \/ (x \in Folding /\ {i, j} = {x.id, x.from})
  /\ \A h \in Handles : l[h] # NoId => l[h] \in ids
  /\ \A h \in Handles : l[h] = NoId =>
       Pends(x, h) \/ \A y \in ids \cup Handles : p[y] = p[h] => y = h
  /\ x \in Minting => l[x.handle] = NoId
  /\ x \in Linking \cup Attaching => x.id \in ids /\ l[x.handle] \in {NoId, x.id}
  /\ x \in Folding => x.id # x.from /\ {x.id, x.from} \subseteq ids
Exact(x) == ExactWith(x, identities, links, person)

ExactInv ==
  /\ Declared
  /\ Unseen
  /\ ~excused =>
       /\ \A c, d \in Clients : c # d => calls[c] = NoCall \/ calls[d] = NoCall
       /\ Calling = {} => Exact(NoCall)
       /\ \A c \in Calling : Exact(calls[c])

(* A client without a call has none of the calls.                             *)
LEMMA NoCallKind == NoCall \notin Minting \cup Linking \cup Storing \cup Attaching \cup Folding
BY DEF NoCall, Minting, Linking, Storing, Attaching, Folding

(* Identities and links stay among the identifiers that were drawn.           *)
LEMMA TablesStayDrawn ==
  ASSUME TablesAreDrawn, DOMAIN calls = Clients, NEW c \in Clients, NEW x, Goes(c, x),
         drawn \subseteq drawn', identities' \subseteq identities \cup (drawn' \cap IdentityIds),
         \A h \in Handles : links'[h] \in {links[h], NoId} \cup drawn',
         CallIsDrawn(x, drawn')
  PROVE  TablesAreDrawn'
BY DEF TablesAreDrawn, Goes, CallIsDrawn

(* A handle, an identity and a session are never the same subject.            *)
LEMMA DisjointSubjects ==
  /\ \A i \in IdentityIds : i # NoId /\ i \notin Handles /\ i \notin SessionIds
  /\ \A h \in Handles : h \notin IdentityIds /\ h \notin SessionIds
BY IdentityAssumption DEF Handles

(* While nothing overlaps, one client acts and leaves what it needs for its   *)
(* next step.                                                                 *)
LEMMA OneCalls ==
  ASSUME DOMAIN calls = Clients, NEW c \in Clients, NEW x, Goes(c, x),
         \A d \in Clients \ {c} : calls[d] = NoCall,
         ExactWith(x, identities', links', person')
  PROVE  /\ \A d, e \in Clients : d # e => calls'[d] = NoCall \/ calls'[e] = NoCall
         /\ Calling' = {} => Exact(NoCall)'
         /\ \A d \in Calling' : Exact(calls[d])'
<1>1. calls'[c] = x /\ \A d \in Clients \ {c} : calls'[d] = NoCall
  BY DEF Goes
<1>2. Calling' = IF x = NoCall THEN {} ELSE {c}
  BY <1>1 DEF Calling
<1> QED
  BY <1>1, <1>2 DEF Exact

(* A new subject joined to a person joins no two persons.                     *)
LEMMA JoinOfUnseen ==
  ASSUME ExactInv, NEW x \in Subjects, NEW s \in Undrawn, x # s
  PROVE  /\ \A y, z \in Subjects \ {s} :
              Join(person, x, s)[y] = Join(person, x, s)[z] => person[y] = person[z]
         /\ \A t \in Undrawn \ {s}, y \in Subjects :
              x # t /\ Join(person, x, s)[y] = Join(person, x, s)[t] => y = t
<1>1. \A y \in Subjects : person[y] = person[s] => y = s
  BY DEF ExactInv, Unseen, TablesAreDrawn, Undrawn, Subjects
<1> QED
  BY <1>1 DEF ExactInv, Unseen, Undrawn, Join, Subjects

(* What a step does to who is one person.                                     *)
Draws(x, s) ==
  /\ s \in Undrawn /\ drawn' = drawn \cup {s}
  /\ person' = Join(person, x, s)
Ties(x, y) == drawn' = drawn /\ person' = Join(person, x, y)

(* After a draw the subjects that were not drawn are still alone.             *)
LEMMA DrawnStaysUnseen ==
  ASSUME ExactInv, NEW x \in Handles \cup (drawn \cap IdentityIds), NEW s, Draws(x, s)
  PROVE  /\ \A t \in Undrawn', y \in Subjects :
              person'[y] = person'[t] => y = t
         /\ \A y, z \in Subjects \ {s} : person'[y] = person'[z] => person[y] = person[z]
         /\ person'[x] = person'[s] /\ s \in Subjects /\ x \in Subjects /\ x # s
<1>1. x \in Subjects /\ s \in Subjects /\ \A t \in Undrawn : x # t
  BY DisjointSubjects DEF ExactInv, Unseen, TablesAreDrawn, Undrawn, Subjects, Draws
<1>2. person' = Join(person, x, s) /\ drawn' = drawn \cup {s} /\ s \in Undrawn
  BY DEF Draws
<1>3. person'[x] = person'[s]
  BY <1>1, <1>2, JoinIsDeclared DEF ExactInv, Declared
<1> QED
  BY <1>1, <1>2, <1>3, JoinOfUnseen DEF Undrawn

(* A link or merge joins two persons, and the subjects not drawn are still    *)
(* alone.                                                                     *)
LEMMA TiedStaysUnseen ==
  ASSUME ExactInv, NEW x \in Handles \cup identities, NEW y \in Handles \cup identities, Ties(x, y)
  PROVE  /\ \A t \in Undrawn', z \in Subjects :
              person'[z] = person'[t] => z = t
         /\ \A z \in Subjects :
              person'[z] = IF person[z] = person[y] THEN person[x] ELSE person[z]
         /\ x \in Subjects /\ y \in Subjects
<1>1. x \in Subjects /\ y \in Subjects
      /\ \A t \in Undrawn : x # t /\ y # t /\ t \in Subjects
  BY DisjointSubjects DEF ExactInv, Unseen, TablesAreDrawn, Undrawn, Subjects
<1>2. \A z \in Subjects :
              person'[z] = IF person[z] = person[y] THEN person[x] ELSE person[z]
  BY DEF Ties, Join
<1>3. ASSUME NEW t \in Undrawn, NEW z \in Subjects, person'[z] = person'[t]
      PROVE z = t
  <2>1. person[t] # person[x] /\ person[t] # person[y]
    BY <1>1 DEF ExactInv, Unseen, TablesAreDrawn, Undrawn
  <2>2. person[z] = person[t]
    BY <1>1, <1>2, <1>3, <2>1
  <2> QED
    BY <2>2 DEF ExactInv, Unseen, TablesAreDrawn, Undrawn
<1> QED
  BY <1>1, <1>2, <1>3 DEF Ties, Undrawn

(* A call that begins alone finds the tables exact.                           *)
LEMMA StartsExact ==
  ASSUME ExactInv, NEW c \in Clients, Calls(c), ~excused, Calling = {}
  PROVE  Exact(NoCall) /\ \A d \in Clients : calls[d] = NoCall
BY DEF ExactInv, Calling

(* A call that goes on alone finds what it left.                              *)
LEMMA UnderWay ==
  ASSUME ExactInv, NEW c \in Clients, ~excused, calls[c] # NoCall
  PROVE  Exact(calls[c]) /\ \A d \in Clients \ {c} : calls[d] = NoCall
BY DEF ExactInv, Calling

(* The lookup of a handle leaves the tables exact (gateway/identity.py).      *)
LEMMA ExactLookup ==
  ASSUME ExactInv, NEW c \in Clients, NEW h \in Handles, NEW auto \in BOOLEAN, Lookup(c, h, auto)
  PROVE  ExactInv'
<1>1. Declared'
  BY DeclaredLookup DEF ExactInv
<1>2. UNCHANGED <<identities, links>> /\ Calls(c) /\ DOMAIN calls = Clients
  BY DEF Lookup, ExactInv, Declared, CallsAreDeclared
<1>3. ASSUME ~excused' PROVE ~excused /\ Calling = {} /\ Exact(NoCall) /\ \A d \in Clients : calls[d] = NoCall
  BY <1>2, <1>3, StartsExact DEF Lookup
<1>4. CASE links[h] # NoId
  <2> DEFINE x == [pc |-> "row", handle |-> h, id |-> links[h], now |-> clock]
  <2>1. Goes(c, x) /\ UNCHANGED <<drawn, person>>
    BY <1>4 DEF Lookup, IdentityFor
  <2>2. ASSUME Exact(NoCall) PROVE ExactWith(x, identities, links, person)
    <3>1. x \notin Minting /\ x \notin Folding /\ x.id = links[h] /\ x.handle = h
      BY DEF Minting, Folding
    <3> HIDE DEF x
    <3> QED
      BY <1>4, <2>2, <3>1, NoCallKind DEF Exact, ExactWith, Pends
  <2> HIDE DEF x
  <2>3. ASSUME ~excused' PROVE ExactWith(x, identities', links', person')
    BY <1>2, <1>3, <2>1, <2>2, <2>3
  <2>4. Unseen'
    <3>1. CallIsDrawn(x, drawn')
      BY <1>2, <1>4, <2>1 DEF x, CallIsDrawn, ExactInv, Unseen, TablesAreDrawn
    <3> QED
      BY <1>2, <2>1, <3>1, TablesStayDrawn DEF ExactInv, Unseen, Undrawn
  <2> QED
    BY <1>1, <1>2, <1>3, <2>1, <2>3, <2>4, OneCalls DEF ExactInv
<1>5. CASE links[h] = NoId /\ auto
  <2> DEFINE x == [pc |-> "mint", handle |-> h, now |-> clock]
  <2>1. Goes(c, x) /\ UNCHANGED <<drawn, person>>
    BY <1>5 DEF Lookup, IdentityFor
  <2>2. ASSUME Exact(NoCall) PROVE ExactWith(x, identities, links, person)
    <3>1. x \notin Linking \cup Attaching /\ x \notin Folding /\ x.handle = h
      BY DEF Linking, Attaching, Folding
    <3> HIDE DEF x
    <3> QED
      BY <1>5, <2>2, <3>1, NoCallKind DEF Exact, ExactWith, Pends
  <2> HIDE DEF x
  <2>3. ASSUME ~excused' PROVE ExactWith(x, identities', links', person')
    BY <1>2, <1>3, <2>1, <2>2, <2>3
  <2>4. Unseen'
    <3>1. CallIsDrawn(x, drawn')
      BY DEF x, CallIsDrawn, Linking, Storing, Attaching, Folding
    <3> QED
      BY <1>2, <2>1, <3>1, TablesStayDrawn DEF ExactInv, Unseen, Undrawn
  <2> QED
    BY <1>1, <1>2, <1>3, <2>1, <2>3, <2>4, OneCalls DEF ExactInv
<1>6. CASE links[h] = NoId /\ ~auto
  <2>1. PICK s \in SessionIds : Draws(h, s)
    BY <1>6, FreshIsNew DEF Lookup, IdentityFor, Draws, Undrawn
  <2>2. calls' = calls
    BY <1>6 DEF Lookup, IdentityFor
  <2>3. Unseen'
    <3>1. TablesAreDrawn'
      BY <1>2, <2>1, <2>2 DEF ExactInv, Unseen, TablesAreDrawn, CallIsDrawn, Draws
    <3> QED
      BY <2>1, <3>1, DrawnStaysUnseen DEF Unseen
  <2>4. \A y, z \in Subjects \ {s} : person'[y] = person'[z] => person[y] = person[z]
    BY <2>1, DrawnStaysUnseen
  <2>5. identities \cup Handles \subseteq Subjects \ {s}
    BY <2>1, DisjointSubjects DEF ExactInv, Unseen, TablesAreDrawn, Undrawn, Subjects
  <2>6. ASSUME ~excused' PROVE Exact(NoCall)'
    BY <1>2, <1>3, <2>4, <2>5, <2>6, NoCallKind DEF Exact, ExactWith
  <2> QED
    BY <1>1, <1>3, <2>2, <2>3, <2>6 DEF ExactInv, Calling
<1> QED
  BY <1>4, <1>5, <1>6

(* A new identity is of the person of the handle it was minted for            *)
(* (create_identity).                                                         *)
LEMMA ExactMint ==
  ASSUME ExactInv, NEW c \in Clients, Mint(c), Declared'
  PROVE  ExactInv'
<1> DEFINE h == calls[c].handle
           x(i) == [pc |-> "check", handle |-> h, id |-> i, now |-> calls[c].now]
<1>1. PICK i \in IdentityIds : Draws(h, i) /\ identities' = identities \cup {i} /\ Goes(c, x(i))
  BY FreshIsNew DEF Mint, Draws, Undrawn
<1>2. calls[c] \in Minting /\ h \in Handles /\ calls[c] # NoCall
  BY NoCallKind DEF Mint, ExactInv, Declared, CallsAreDeclared, CallIsDeclared, NoCall, Minting, Linking, Storing,
     Attaching, Folding
<1>3. UNCHANGED <<links, excused>>
  BY DEF Mint
<1>4. /\ \A y, z \in Subjects \ {i} : person'[y] = person'[z] => person[y] = person[z]
      /\ person'[h] = person'[i]
  BY <1>1, <1>2, DrawnStaysUnseen
<1>5. Unseen'
  <2>1. CallIsDrawn(x(i), drawn')
    BY <1>1 DEF CallIsDrawn, Draws
  <2>2. DOMAIN calls = Clients /\ TablesAreDrawn /\ i \in drawn' /\ drawn \subseteq drawn'
    BY <1>1 DEF ExactInv, Declared, CallsAreDeclared, Unseen, Draws
  <2> HIDE DEF x
  <2>3. TablesAreDrawn'
    BY <1>1, <1>3, <2>1, <2>2, TablesStayDrawn
  <2> QED
    BY <1>1, <1>2, <2>3, DrawnStaysUnseen DEF Unseen
<1>6. i \notin identities /\ identities \cup Handles \subseteq Subjects \ {i} /\ i # NoId /\ i \notin Handles
      /\ h \in Subjects \ {i} /\ h \notin identities
  BY <1>1, <1>2, DisjointSubjects DEF ExactInv, Unseen, TablesAreDrawn, Undrawn, Subjects, Draws
<1>7. ASSUME ~excused PROVE ExactWith(x(i), identities', links', person')
  <2>1. Exact(calls[c])
    BY <1>2, <1>7, UnderWay
  <2>2. calls[c] \notin Linking \cup Attaching /\ calls[c] \notin Folding
    BY <1>2 DEF Minting, Linking, Attaching, Folding
  <2>3. /\ \A j, k \in identities : person[j] = person[k] => j = k
        /\ \A g \in Handles : links[g] # NoId => links[g] \in identities
        /\ \A g \in Handles : links[g] = NoId => \A y \in identities \cup Handles : person[y] = person[g] => y = g
        /\ links[h] = NoId
    BY <1>2, <2>1, <2>2 DEF Exact, ExactWith, Pends
  <2>4. \A j \in identities : person'[j] # person'[i]
    BY <1>2, <1>4, <1>6, <2>3
  <2>5. \A j, k \in identities' : person'[j] = person'[k] => j = k
    BY <1>1, <1>4, <1>6, <2>3, <2>4
  <2>6. \A g \in Handles \ {h} : links[g] = NoId => \A y \in identities' \cup Handles : person'[y] = person'[g] => y = g
    BY <1>1, <1>2, <1>4, <1>6, <2>3
  <2>7. x(i) \notin Minting /\ x(i) \notin Folding /\ x(i).id = i /\ x(i).handle = h /\ Pends(x(i), h)
    <3>1. x(i) \in Linking
      BY <1>2 DEF Linking, Minting
    <3> QED
      BY <3>1 DEF Minting, Folding, Pends
  <2> HIDE DEF x
  <2> QED
    BY <1>1, <1>3, <2>3, <2>5, <2>6, <2>7 DEF ExactWith
<1> QED
  BY <1>1, <1>3, <1>2, <1>5, <1>7, UnderWay, OneCalls DEF ExactInv, Declared, CallsAreDeclared

(* The session of an identity is read, or drawn for it.                       *)
LEMMA ExactReadRow ==
  ASSUME ExactInv, NEW c \in Clients, ReadRow(c), Declared'
  PROVE  ExactInv'
<1> DEFINE i == calls[c].id
           x(s) == [pc |-> "store", handle |-> calls[c].handle, id |-> i, session |-> s, now |-> calls[c].now]
<1>1. calls[c] \in Linking /\ i \in IdentityIds /\ calls[c] # NoCall /\ calls[c].pc = "row"
  BY NoCallKind DEF ReadRow, ExactInv, Declared, CallsAreDeclared, CallIsDeclared, NoCall, Minting, Linking, Storing,
     Attaching, Folding
<1>2. UNCHANGED <<links, excused, identities>>
  BY DEF ReadRow
<1>3. PICK s : Goes(c, x(s))
  BY DEF ReadRow
<1>4. ASSUME ~excused, \A y, z \in identities \cup Handles : person'[y] = person'[z] => person[y] = person[z]
      PROVE  ExactWith(x(s), identities', links', person')
  <2>1. Exact(calls[c]) /\ calls[c] \notin Folding /\ \A h \in Handles : ~Pends(calls[c], h)
    BY <1>1, <1>4, UnderWay DEF Linking, Folding, Pends
  <2>2. x(s) \notin Minting /\ x(s) \notin Linking \cup Attaching /\ x(s) \notin Folding
    BY DEF Minting, Linking, Attaching, Folding
  <2> HIDE DEF x
  <2> QED
    BY <1>2, <1>4, <2>1, <2>2 DEF Exact, ExactWith
<1>7. i \in drawn
  BY <1>1 DEF ExactInv, Unseen, TablesAreDrawn, CallIsDrawn
<1>8. ASSUME drawn \subseteq drawn' PROVE TablesAreDrawn'
  <2>1. CallIsDrawn(x(s), drawn')
    BY <1>7, <1>8 DEF CallIsDrawn
  <2> QED
    BY <1>2, <1>3, <1>8, <2>1, TablesStayDrawn DEF ExactInv, Unseen, Declared, CallsAreDeclared
<1>5. CASE UNCHANGED <<drawn, person>>
  <2>1. TablesAreDrawn'
    BY <1>5, <1>8
  <2>2. Unseen'
    BY <1>5, <2>1 DEF ExactInv, Unseen, Undrawn
  <2> QED
    BY <1>1, <1>2, <1>3, <1>4, <1>5, <2>2, UnderWay, OneCalls DEF ExactInv, Declared, CallsAreDeclared
<1>6. CASE \E t \in SessionIds : Draws(i, t)
  <2>1. PICK t \in SessionIds : Draws(i, t)
    BY <1>6
  <2>2. i \in drawn \cap IdentityIds
    BY <1>1, <1>7
  <2>4. Unseen'
    BY <1>8, <2>1, <2>2, DrawnStaysUnseen DEF Unseen, Draws
  <2>5. identities \cup Handles \subseteq Subjects \ {t}
    BY <2>1, DisjointSubjects DEF ExactInv, Unseen, TablesAreDrawn, Undrawn, Subjects, Draws
  <2>6. \A y, z \in identities \cup Handles : person'[y] = person'[z] => person[y] = person[z]
    BY <2>1, <2>2, <2>5, DrawnStaysUnseen
  <2> QED
    BY <1>1, <1>2, <1>3, <1>4, <2>4, <2>6, UnderWay, OneCalls DEF ExactInv, Declared, CallsAreDeclared
<1> QED
  BY <1>5, <1>6, FreshIsNew DEF ReadRow, Draws, Undrawn

(* Every client has a call of a known kind.                                   *)
LEMMA CallsAre == ExactInv => DOMAIN calls = Clients /\ \A c \in Clients : CallIsDeclared(calls[c], person)
BY DEF ExactInv, Declared, CallsAreDeclared

(* The identity a link is asked for is looked up.                             *)
LEMMA ExactCheckMinted ==
  ASSUME ExactInv, NEW c \in Clients, CheckMinted(c), Declared'
  PROVE  ExactInv'
<1> DEFINE x == [calls[c] EXCEPT !.pc = "bind"]
<1>1. calls[c] \in Linking /\ calls[c].pc = "check" /\ calls[c] # NoCall
  BY CallsAre, NoCallKind DEF CheckMinted, CallIsDeclared, NoCall, Minting, Linking, Storing, Attaching, Folding
<1>2. x \in Linking /\ x.pc = "bind" /\ x.id = calls[c].id /\ x.handle = calls[c].handle
  BY <1>1 DEF Linking
<1>3. /\ UNCHANGED <<identities, links, rows, sessions, drawn, person, excused>>
      /\ Goes(c, IF calls[c].id \in identities THEN x ELSE NoCall)
  BY DEF CheckMinted, Returns, dbVars
<1>4. x \notin Minting \cup Folding /\ calls[c] \notin Minting \cup Folding
  BY <1>1, <1>2 DEF Linking, Minting, Folding
<1> HIDE DEF x
<1>5. ASSUME ~excused PROVE calls[c].id \in identities /\ ExactWith(x, identities, links, person)
  <2>1. Exact(calls[c])
    BY <1>1, <1>5, UnderWay
  <2> QED
    BY <1>1, <1>2, <1>4, <2>1 DEF Exact, ExactWith, Pends
<1>6. Unseen'
  <2>1. CallIsDrawn(x, drawn) /\ CallIsDrawn(NoCall, drawn)
    BY <1>1, <1>2, NoCallKind DEF ExactInv, Unseen, TablesAreDrawn, CallIsDrawn
  <2>2. TablesAreDrawn'
    BY <1>3, <2>1, CallsAre, TablesStayDrawn DEF ExactInv, Unseen
  <2> QED
    BY <1>3, <2>2 DEF ExactInv, Unseen, Undrawn
<1> QED
  BY <1>1, <1>3, <1>5, <1>6, CallsAre, UnderWay, OneCalls DEF ExactInv

(* The link is written: the handle is of the person it is linked to.          *)
LEMMA ExactBind ==
  ASSUME ExactInv, NEW c \in Clients, Bind(c), Declared'
  PROVE  ExactInv'
<1> DEFINE h == calls[c].handle
           i == calls[c].id
           x == IF calls[c].pc = "bind" THEN [calls[c] EXCEPT !.pc = "row"] ELSE NoCall
<1>1. /\ calls[c] \in Linking \cup Attaching /\ calls[c].pc \in {"bind", "attach"} /\ calls[c] # NoCall
      /\ h \in Handles /\ i \in IdentityIds
  BY CallsAre, NoCallKind DEF Bind, CallIsDeclared, NoCall, Minting, Linking, Storing, Attaching, Folding
<1>2. x = NoCall \/ (x \in Linking /\ x.pc = "row" /\ x.id = i /\ x.handle = h)
  BY <1>1 DEF Linking, Attaching
<1>3. /\ UNCHANGED <<identities, rows, sessions, drawn, person, excused>>
      /\ links' = [links EXCEPT ![h] = i] /\ Goes(c, x)
  BY DEF Bind, Returns
<1>4. x \notin Minting \cup Folding \cup Attaching /\ calls[c] \notin Minting \cup Folding
      /\ \A g : ~Pends(x, g)
  BY <1>1, <1>2, NoCallKind DEF Linking, Attaching, Minting, Folding, Pends
<1> HIDE DEF x
<1>5. links \in [Handles -> IdentityIds \cup {NoId}]
  BY DEF ExactInv, Declared, LinksAreDeclared
<1>6. ASSUME ~excused PROVE ExactWith(x, identities, links', person)
  <2>1. Exact(calls[c])
    BY <1>1, <1>6, UnderWay
  <2>2. i \in identities /\ links'[h] = i /\ i # NoId /\ \A g \in Handles \ {h} : links'[g] = links[g] /\ ~Pends(calls[c], g)
    BY <1>1, <1>3, <1>5, <2>1, DisjointSubjects DEF Exact, ExactWith, Pends
  <2> QED
    BY <1>1, <1>2, <1>4, <2>1, <2>2, NoCallKind DEF Exact, ExactWith
<1>7. Unseen'
  <2>1. i \in drawn
    BY <1>1 DEF ExactInv, Unseen, TablesAreDrawn, CallIsDrawn
  <2>2. CallIsDrawn(x, drawn)
    BY <1>2, <2>1, NoCallKind DEF CallIsDrawn
  <2>3. TablesAreDrawn'
    BY <1>1, <1>3, <1>5, <2>1, <2>2, CallsAre, TablesStayDrawn DEF ExactInv, Unseen
  <2> QED
    BY <1>3, <2>3 DEF ExactInv, Unseen, Undrawn
<1> QED
  BY <1>1, <1>3, <1>6, <1>7, CallsAre, UnderWay, OneCalls DEF ExactInv

(* The session is stored, and is the one the identity is served with.         *)
LEMMA ExactStoreRow ==
  ASSUME ExactInv, NEW c \in Clients, StoreRow(c), Declared'
  PROVE  ExactInv'
<1>1. calls[c] \in Storing /\ calls[c] # NoCall
  BY CallsAre, NoCallKind DEF StoreRow, CallIsDeclared, NoCall, Minting, Linking, Storing, Attaching, Folding
<1>2. UNCHANGED <<identities, links, drawn, person, excused>> /\ Goes(c, NoCall)
  BY DEF StoreRow, Returns
<1>3. calls[c] \notin Linking \cup Minting \cup Folding \cup Attaching
  BY <1>1 DEF Storing, Linking, Attaching, Minting, Folding
<1>4. ASSUME ~excused PROVE ExactWith(NoCall, identities, links, person)
  <2>1. Exact(calls[c])
    BY <1>1, <1>4, UnderWay
  <2> QED
    BY <1>3, <2>1, NoCallKind DEF Exact, ExactWith, Pends
<1>5. Unseen'
  <2>1. CallIsDrawn(NoCall, drawn)
    BY NoCallKind DEF CallIsDrawn
  <2>2. TablesAreDrawn'
    BY <1>2, <2>1, CallsAre, TablesStayDrawn DEF ExactInv, Unseen
  <2> QED
    BY <1>2, <2>2 DEF ExactInv, Unseen, Undrawn
<1> QED
  BY <1>1, <1>2, <1>4, <1>5, CallsAre, UnderWay, OneCalls DEF ExactInv

(* The identity that was merged away is gone, and the session rows follow.    *)
LEMMA ExactFold ==
  ASSUME ExactInv, NEW c \in Clients, Fold(c), Declared'
  PROVE  ExactInv'
<1> DEFINE a == calls[c].id
           b == calls[c].from
<1>1. calls[c] \in Folding /\ calls[c] # NoCall /\ a \in IdentityIds /\ b \in IdentityIds
  BY CallsAre, NoCallKind DEF Fold, CallIsDeclared, NoCall, Minting, Linking, Storing, Attaching, Folding
<1>2. /\ UNCHANGED <<drawn, person, excused>> /\ identities' = identities \ {b} /\ Goes(c, NoCall)
      /\ links' = [h \in Handles |-> IF links[h] = b THEN a ELSE links[h]]
  BY DEF Fold, Returns, FoldedLinks
<1>3. calls[c] \notin Linking \cup Minting \cup Attaching /\ a # NoId
  BY <1>1, DisjointSubjects DEF Folding, Linking, Attaching, Minting
<1> HIDE DEF a, b
<1>4. ASSUME ~excused PROVE a \in identities /\ ExactWith(NoCall, identities', links', person)
  <2>1. Exact(calls[c])
    BY <1>1, <1>4, UnderWay
  <2>2. a \in identities /\ a # b
    BY <1>1, <2>1 DEF Exact, ExactWith, a, b
  <2>3. \A i, j \in identities' : person[i] = person[j] => i = j
    BY <1>2, <2>1 DEF Exact, ExactWith, a, b
  <2>4. \A h \in Handles : links[h] = NoId => \A y \in identities \cup Handles : person[y] = person[h] => y = h
    BY <1>3, <2>1 DEF Exact, ExactWith, Pends
  <2>5. \A h \in Handles : links'[h] # NoId => links'[h] \in identities'
    BY <1>2, <2>1, <2>2 DEF Exact, ExactWith
  <2>6. \A h \in Handles : links'[h] = NoId => links[h] = NoId
    BY <1>2, <1>3
  <2> QED
    BY <1>2, <2>2, <2>3, <2>4, <2>5, <2>6, NoCallKind DEF ExactWith
<1>5. Unseen'
  <2>1. CallIsDrawn(NoCall, drawn)
    BY NoCallKind DEF CallIsDrawn
  <2>2. a \in drawn
    BY <1>1 DEF ExactInv, Unseen, TablesAreDrawn, CallIsDrawn, a
  <2>3. \A h \in Handles : links'[h] \in {links[h], NoId} \cup drawn
    BY <1>2, <2>2
  <2>4. TablesAreDrawn'
    BY <1>2, <2>1, <2>3, CallsAre, TablesStayDrawn DEF ExactInv, Unseen
  <2> QED
    BY <1>2, <2>4 DEF ExactInv, Unseen, Undrawn
<1> QED
  BY <1>1, <1>2, <1>4, <1>5, CallsAre, UnderWay, OneCalls DEF ExactInv

(* A link is asked for.                                                       *)
LEMMA ExactLink ==
  ASSUME ExactInv, NEW c \in Clients, NEW h \in Handles, NEW i \in IdentityIds, Link(c, i, h), Declared'
  PROVE  ExactInv'
<1> DEFINE x == [pc |-> "attach", handle |-> h, id |-> i]
<1>1. UNCHANGED <<identities, links, drawn>> /\ Calls(c)
  BY DEF Link, dbVars
<1>2. ASSUME ~excused' PROVE ~excused /\ Exact(NoCall) /\ \A d \in Clients : calls[d] = NoCall
  BY <1>1, <1>2, StartsExact DEF Link
<1>3. CASE i \notin identities
  BY <1>1, <1>2, <1>3 DEF Link, ExactInv, Unseen, Undrawn, TablesAreDrawn, Calling, Exact
<1>4. CASE i \in identities
  <2>1. Ties(i, h) /\ Goes(c, x)
    BY <1>1, <1>4 DEF Link, Ties
  <2>2. x \in Attaching /\ x \notin Linking /\ x \notin Minting /\ x \notin Folding /\ Pends(x, h)
        /\ x.id = i /\ x.handle = h
    BY DEF Attaching, Linking, Minting, Folding, Pends
  <2> HIDE DEF x
  <2>3. Unseen'
    <3>1. CallIsDrawn(x, drawn)
      BY <1>4, <2>2 DEF ExactInv, Unseen, TablesAreDrawn, CallIsDrawn
    <3>2. TablesAreDrawn'
      BY <1>1, <2>1, <3>1, CallsAre, TablesStayDrawn DEF ExactInv, Unseen
    <3> QED
      BY <1>4, <2>1, <3>2, TiedStaysUnseen DEF Unseen
  <2>4. ASSUME ~excused' PROVE ExactWith(x, identities, links, person')
    <3>1. /\ \A y \in Subjects : person'[y] = IF person[y] = person[h] THEN person[i] ELSE person[y]
          /\ identities \cup Handles \subseteq Subjects
      BY <1>4, <2>1, TiedStaysUnseen DEF Subjects, ExactInv, Unseen, TablesAreDrawn
    <3>2. links[h] \in {NoId, i} /\ (links[h] = i => person[h] = person[i])
      BY <1>4, <2>4, IdentityAssumption DEF Link, ExactInv, Declared, LinksAreDeclared
    <3>3. /\ \A u, v \in identities : person[u] = person[v] => u = v
          /\ \A g \in Handles : links[g] # NoId => links[g] \in identities
          /\ \A g \in Handles : links[g] = NoId => \A y \in identities \cup Handles : person[y] = person[g] => y = g
      BY <1>2, <2>4, NoCallKind DEF Exact, ExactWith, Pends
    <3>4. \A u \in identities : u \notin Handles
      BY DisjointSubjects DEF ExactInv, Unseen, TablesAreDrawn
    <3>5. ASSUME NEW u \in identities, NEW v \in identities, person'[u] = person'[v] PROVE u = v
      BY <1>4, <3>1, <3>2, <3>3, <3>4, <3>5
    <3>6. ASSUME NEW g \in Handles \ {h}, links[g] = NoId, NEW y \in identities \cup Handles, person'[y] = person'[g]
          PROVE  y = g
      BY <1>4, <3>1, <3>2, <3>3, <3>4, <3>6
    <3> QED
      BY <1>4, <2>2, <3>2, <3>3, <3>5, <3>6 DEF ExactWith
  <2> QED
    BY <1>1, <1>2, <2>1, <2>3, <2>4, CallsAre, OneCalls DEF ExactInv
<1> QED
  BY <1>3, <1>4

(* Two identities are merged: every handle of the one is linked to the other. *)
LEMMA ExactMerge ==
  ASSUME ExactInv, NEW c \in Clients, NEW a \in IdentityIds, NEW b \in IdentityIds, Merge(c, a, b), Declared'
  PROVE  ExactInv'
<1> DEFINE x == [pc |-> "fold", id |-> a, from |-> b]
<1>1. UNCHANGED <<identities, links, drawn>> /\ Calls(c)
  BY DEF Merge, dbVars
<1>2. ASSUME ~excused' PROVE ~excused /\ Exact(NoCall) /\ \A d \in Clients : calls[d] = NoCall
  BY <1>1, <1>2, StartsExact DEF Merge
<1>3. CASE ~(a # b /\ {a, b} \subseteq identities)
  BY <1>1, <1>2, <1>3 DEF Merge, ExactInv, Unseen, Undrawn, TablesAreDrawn, Calling, Exact
<1>4. CASE a # b /\ {a, b} \subseteq identities
  <2>1. Ties(a, b) /\ Goes(c, x)
    BY <1>1, <1>4 DEF Merge, Ties
  <2>2. x \in Folding /\ x \notin Linking \cup Attaching /\ x \notin Minting /\ x \notin Storing
        /\ x.id = a /\ x.from = b
    BY DEF Attaching, Linking, Minting, Folding, Storing
  <2> HIDE DEF x
  <2>3. Unseen'
    <3>1. CallIsDrawn(x, drawn)
      BY <1>4, <2>2 DEF ExactInv, Unseen, TablesAreDrawn, CallIsDrawn
    <3>2. TablesAreDrawn'
      BY <1>1, <2>1, <3>1, CallsAre, TablesStayDrawn DEF ExactInv, Unseen
    <3> QED
      BY <1>4, <2>1, <3>2, TiedStaysUnseen DEF Unseen
  <2>4. ASSUME ~excused' PROVE ExactWith(x, identities, links, person')
    <3>1. /\ \A y \in Subjects : person'[y] = IF person[y] = person[b] THEN person[a] ELSE person[y]
          /\ identities \cup Handles \subseteq Subjects
      BY <1>4, <2>1, TiedStaysUnseen DEF Subjects, ExactInv, Unseen, TablesAreDrawn
    <3>3. /\ \A u, v \in identities : person[u] = person[v] => u = v
          /\ \A g \in Handles : links[g] # NoId => links[g] \in identities
          /\ \A g \in Handles : links[g] = NoId => \A y \in identities \cup Handles : person[y] = person[g] => y = g
      BY <1>2, <2>4, NoCallKind DEF Exact, ExactWith, Pends
    <3>4. \A u \in identities : u \notin Handles
      BY DisjointSubjects DEF ExactInv, Unseen, TablesAreDrawn
    <3>5. ASSUME NEW u \in identities, NEW v \in identities, person'[u] = person'[v], u # v PROVE {u, v} = {a, b}
      BY <1>4, <3>1, <3>3, <3>5
    <3>6. ASSUME NEW g \in Handles, links[g] = NoId, NEW y \in identities \cup Handles, person'[y] = person'[g]
          PROVE  y = g
      BY <1>4, <3>1, <3>3, <3>4, <3>6
    <3> QED
      BY <1>4, <2>2, <3>3, <3>5, <3>6 DEF ExactWith
  <2> QED
    BY <1>1, <1>2, <2>1, <2>3, <2>4, CallsAre, OneCalls DEF ExactInv
<1> QED
  BY <1>3, <1>4

(* While no two calls overlap, every step leaves links and rows exact.        *)
LEMMA ExactStep == ExactInv /\ [IdentityNext]_identityVars => ExactInv'
<1> SUFFICES ASSUME ExactInv, [IdentityNext]_identityVars PROVE ExactInv'
  OBVIOUS
<1>1. Declared'
  BY DeclaredStep DEF ExactInv
<1>2. ASSUME NEW c \in Clients, ClientDies(c) PROVE ExactInv'
  <2>1. CallIsDrawn(NoCall, drawn)
    BY NoCallKind DEF CallIsDrawn
  <2>2. TablesAreDrawn'
    BY <1>2, <2>1, CallsAre, TablesStayDrawn DEF ClientDies, dbVars, Returns, ExactInv, Unseen
  <2> QED
    BY <1>1, <1>2, <2>2 DEF ClientDies, dbVars, ExactInv, Unseen, Undrawn
<1>3. ASSUME NEW c \in Clients, NEW h \in Handles, Unlink(c, h) PROVE ExactInv'
  <2>1. links' = [links EXCEPT ![h] = NoId] /\ UNCHANGED <<identities, calls, drawn, person>> /\ Calls(c)
    BY <1>3 DEF Unlink
  <2>2. Unseen'
    BY <2>1 DEF ExactInv, Unseen, Undrawn, TablesAreDrawn, Declared, LinksAreDeclared
  <2>3. ASSUME ~excused' PROVE UNCHANGED links /\ ~excused
    BY <1>3, <2>1, <2>3 DEF Unlink, ExactInv, Declared, LinksAreDeclared
  <2> QED
    BY <1>1, <2>1, <2>2, <2>3 DEF ExactInv, Calling, Exact
<1>4. CASE LoseSessions \/ ClockTicks \/ UNCHANGED identityVars
  BY <1>1, <1>4 DEF LoseSessions, ClockTicks, identityVars, dbVars, ExactInv, Unseen, Undrawn, TablesAreDrawn,
    Calling, Exact
<1> QED
  BY <1>1, <1>2, <1>3, <1>4, ExactLookup, ExactMint, ExactCheckMinted, ExactBind, ExactReadRow, ExactStoreRow,
     ExactFold, ExactLink, ExactMerge DEF IdentityNext, ClientStep


(* At first nobody is tied to anybody.                                        *)
LEMMA ExactInit == IdentityInit => ExactInv
<1> SUFFICES ASSUME IdentityInit PROVE ExactInv
  OBVIOUS
<1>1. Declared
  BY NoCallIsDeclared DEF IdentityInit, Declared, CallsAreDeclared, LinksAreDeclared, RowsAreDeclared,
     RowIsDeclared, ServedAreDeclared
<1>2. Unseen
  BY NoCallKind DEF IdentityInit, Unseen, Undrawn, TablesAreDrawn, CallIsDrawn, Subjects
<1>3. Exact(NoCall) /\ Calling = {}
  BY NoCallKind DEF IdentityInit, Exact, ExactWith, Calling, Subjects
<1> QED
  BY <1>1, <1>2, <1>3 DEF ExactInv, IdentityInit

(* Handles share a session only if links and merges made them one person,     *)
(* whatever calls overlap; and if none did, no two identities are of one      *)
(* person, and the handles of a person are linked to one identity             *)
(* (gateway/identity.py).                                                     *)
THEOREM IdentitiesStayExact == IdentitySpec => []IdentitiesAreExact
<1>1. ExactInv => IdentitiesAreExact
  <2> SUFFICES ASSUME ExactInv PROVE IdentitiesAreExact
    OBVIOUS
  <2>1. StrangersStayApart
    BY DEF ExactInv, Declared, ServedAreDeclared, StrangersStayApart
  <2>2. OnePersonOneIdentity
    <3> SUFFICES ASSUME ~excused, Calling = {} PROVE
           /\ \A h \in Handles : links[h] # NoId => links[h] \in identities
           /\ \A i, j \in identities : person[i] = person[j] => i = j
           /\ \A g, h \in Handles :
                links[g] # NoId /\ links[h] # NoId /\ person[g] = person[h] => links[g] = links[h]
      BY DEF OnePersonOneIdentity
    <3>1. /\ \A h \in Handles : links[h] # NoId => links[h] \in identities
          /\ \A i, j \in identities : person[i] = person[j] => i = j
      BY NoCallKind DEF ExactInv, Exact, ExactWith
    <3>2. \A h \in Handles : links[h] # NoId => person[h] = person[links[h]]
      BY DEF ExactInv, Declared, LinksAreDeclared
    <3> QED
      BY <3>1, <3>2
  <2> QED
    BY <2>1, <2>2 DEF IdentitiesAreExact
<1> QED
  BY <1>1, ExactInit, ExactStep, PTL DEF IdentitySpec

(* What else is known of the identities: the moments that calls and rows      *)
(* remember are moments of the clock, and what is drawn is an identifier.     *)
Moments == 0..MaxClock
CallIsTimed(x) == x \in Minting \cup Linking \cup Storing => x.now \in Moments
Timed ==
  /\ clock \in Moments /\ begun \in 0..MaxOps /\ excused \in BOOLEAN
  /\ sessions \subseteq SessionIds /\ drawn \subseteq IdentityIds \cup SessionIds
  /\ \A c \in Clients : CallIsTimed(calls[c])
  /\ rows \in [IdentityIds -> SessionRow \cup {NoId}]

(* One client goes on; the calls of the others are what they were.            *)
LEMMA CallsStayTimed ==
  ASSUME Declared, Timed, NEW c \in Clients, NEW x, Goes(c, x), CallIsTimed(x)
  PROVE  \A d \in Clients : CallIsTimed(calls'[d])
BY DEF Declared, CallsAreDeclared, Timed, Goes

(* Every step keeps the moments (gateway/identity.py).                        *)
LEMMA TimedStep == ExactInv /\ Timed /\ [IdentityNext]_identityVars => Timed'
<1> SUFFICES ASSUME ExactInv, Timed, [IdentityNext]_identityVars PROVE Timed'
  OBVIOUS
<1> USE IdentityAssumption
<1>0. Declared
  BY DEF ExactInv
<1>k. ASSUME NEW x, x \notin Minting \cup Linking \cup Storing PROVE CallIsTimed(x)
  BY <1>k DEF CallIsTimed
<1>n. CallIsTimed(NoCall)
  BY NoCallKind, <1>k
<1>1. ASSUME NEW c \in Clients, Mint(c) \/ CheckMinted(c) \/ Bind(c) PROVE Timed'
  <2>1. /\ UNCHANGED <<rows, sessions, clock, begun, excused>>
        /\ drawn' \subseteq IdentityIds \cup SessionIds
    <3>1. ASSUME NEW i \in FreshOf(IdentityIds), drawn' = drawn \cup {i} PROVE drawn' \subseteq IdentityIds \cup SessionIds
      BY <3>1, FreshIsNew DEF Timed
    <3>2. drawn' = drawn \/ \E i \in FreshOf(IdentityIds) : drawn' = drawn \cup {i}
      BY <1>1 DEF Mint, CheckMinted, Bind
    <3>3. UNCHANGED <<rows, sessions, clock, begun, excused>>
      BY <1>1 DEF Mint, CheckMinted, Bind, dbVars
    <3>4. drawn \subseteq IdentityIds \cup SessionIds
      BY DEF Timed
    <3> QED
      BY <3>1, <3>2, <3>3, <3>4
  <2>2. PICK x : Goes(c, x) /\ CallIsTimed(x)
    <3>1. CASE Mint(c)
      <4>1. calls[c] \in Minting
        BY <1>0, <3>1 DEF Mint, Declared, CallsAreDeclared, CallIsDeclared, NoCall, Linking, Storing, Attaching, Folding
      <4>2. calls[c].now \in Moments
        BY <4>1 DEF Timed, CallIsTimed
      <4> QED
        BY <3>1, <4>2 DEF Mint, CallIsTimed
    <3>2. CASE CheckMinted(c)
      <4>1. calls[c] \in Linking
        BY <1>0, <3>2 DEF CheckMinted, Declared, CallsAreDeclared, CallIsDeclared, NoCall, Minting, Storing, Attaching, Folding
      <4>2. calls[c].now \in Moments /\ [calls[c] EXCEPT !.pc = "bind"].now = calls[c].now
        BY <4>1 DEF Timed, CallIsTimed, Linking
      <4> QED
        BY <1>n, <3>2, <4>2 DEF CheckMinted, CallIsTimed, Returns
    <3>3. CASE Bind(c)
      <4>1. CASE calls[c].pc = "bind"
        <5>1. calls[c] \in Linking
          BY <1>0, <4>1 DEF Declared, CallsAreDeclared, CallIsDeclared, NoCall, Minting, Storing, Attaching, Folding
        <5>2. calls[c].now \in Moments /\ [calls[c] EXCEPT !.pc = "row"].now = calls[c].now
          BY <5>1 DEF Timed, CallIsTimed, Linking
        <5> QED
          BY <3>3, <4>1, <5>2 DEF Bind, CallIsTimed
      <4>2. CASE calls[c].pc # "bind"
        BY <1>n, <3>3, <4>2 DEF Bind, Returns
      <4> QED
        BY <4>1, <4>2
    <3> QED
      BY <1>1, <3>1, <3>2, <3>3
  <2> QED
    BY <1>0, <2>1, <2>2, CallsStayTimed DEF Timed
<1>2. ASSUME NEW c \in Clients, ReadRow(c) PROVE Timed'
  <2>1. /\ UNCHANGED <<rows, clock, begun, excused>> /\ sessions' \subseteq SessionIds
        /\ drawn' \subseteq IdentityIds \cup SessionIds
    <3>1. ASSUME NEW s \in FreshOf(SessionIds), sessions' = sessions \cup {s}, drawn' = drawn \cup {s}
          PROVE  sessions' \subseteq SessionIds /\ drawn' \subseteq IdentityIds \cup SessionIds
      BY <3>1, FreshIsNew DEF Timed
    <3>2. \/ sessions' = sessions /\ drawn' = drawn
          \/ \E s \in FreshOf(SessionIds) : sessions' = sessions \cup {s} /\ drawn' = drawn \cup {s}
      BY <1>2 DEF ReadRow
    <3>3. UNCHANGED <<rows, clock, begun, excused>>
      BY <1>2 DEF ReadRow
    <3>4. sessions \subseteq SessionIds /\ drawn \subseteq IdentityIds \cup SessionIds
      BY DEF Timed
    <3> QED
      BY <3>1, <3>2, <3>3, <3>4
  <2>2. calls[c] \in Linking
    BY <1>0, <1>2 DEF ReadRow, Declared, CallsAreDeclared, CallIsDeclared, NoCall, Minting, Storing, Attaching, Folding
  <2>3. calls[c].now \in Moments
    BY <2>2 DEF Timed, CallIsTimed
  <2>4. PICK s : Goes(c, [pc |-> "store", handle |-> calls[c].handle, id |-> calls[c].id,
                          session |-> s, now |-> calls[c].now])
    BY <1>2 DEF ReadRow
  <2>5. CallIsTimed([pc |-> "store", handle |-> calls[c].handle, id |-> calls[c].id,
                     session |-> s, now |-> calls[c].now])
    BY <2>3 DEF CallIsTimed
  <2> QED
    BY <1>0, <2>1, <2>4, <2>5, CallsStayTimed DEF Timed
<1>3. ASSUME NEW c \in Clients, StoreRow(c) PROVE Timed'
  <2>1. calls[c] \in Storing
    BY <1>0, <1>3 DEF StoreRow, Declared, CallsAreDeclared, CallIsDeclared, NoCall, Minting, Linking, Attaching, Folding
  <2>2. calls[c].now \in Moments
    BY <2>1 DEF Timed, CallIsTimed
  <2>3. rows' \in [IdentityIds -> SessionRow \cup {NoId}]
    <3>1. [session |-> calls[c].session, seen |-> calls[c].now] \in SessionRow
      BY <2>1, <2>2 DEF Storing, SessionRow, Moments
    <3> QED
      BY <1>3, <3>1 DEF StoreRow, Timed
  <2> QED
    BY <1>0, <1>3, <1>n, <2>3, CallsStayTimed DEF StoreRow, Returns, Timed
<1>4. ASSUME NEW c \in Clients, Fold(c) PROVE Timed'
  <2>1. calls[c].id \in IdentityIds /\ calls[c].from \in IdentityIds
    BY <1>0, <1>4 DEF Fold, Declared, CallsAreDeclared, CallIsDeclared, NoCall, Minting, Linking, Storing, Attaching, Folding
  <2>2. rows' \in [IdentityIds -> SessionRow \cup {NoId}]
    BY <1>4, <2>1 DEF Fold, FoldedRows, Timed
  <2> QED
    BY <1>0, <1>4, <1>n, <2>2, CallsStayTimed DEF Fold, Returns, Timed
<1>5. ASSUME NEW c \in Clients, ClientDies(c) PROVE Timed'
  BY <1>0, <1>5, <1>n, CallsStayTimed DEF ClientDies, Returns, dbVars, Timed
<1>6. ASSUME NEW c \in Clients, NEW h \in Handles, NEW auto \in BOOLEAN, Lookup(c, h, auto) PROVE Timed'
  <2>1. /\ UNCHANGED <<rows, clock>> /\ sessions' \subseteq SessionIds /\ excused' \in BOOLEAN
        /\ drawn' \subseteq IdentityIds \cup SessionIds /\ begun' \in 0..MaxOps
    BY <1>6, FreshIsNew DEF Lookup, Calls, Timed
  <2>2. calls' = calls \/ \E x : Goes(c, x) /\ CallIsTimed(x)
    BY <1>6 DEF Lookup, CallIsTimed, Timed
  <2> QED
    BY <1>0, <2>1, <2>2, CallsStayTimed DEF Timed
<1>7. ASSUME NEW c \in Clients, NEW h \in Handles, NEW i \in IdentityIds, Link(c, i, h) PROVE Timed'
  <2>1. /\ UNCHANGED <<rows, sessions, drawn, clock>> /\ excused' \in BOOLEAN /\ begun' \in 0..MaxOps
    <3>1. UNCHANGED <<rows, sessions, drawn, clock>> /\ begun' = begun + 1 /\ begun < MaxOps
      BY <1>7 DEF Link, Calls, dbVars
    <3>2. excused' \in BOOLEAN
      BY <1>7 DEF Link
    <3> QED
      BY <3>1, <3>2 DEF Timed
  <2>2. calls' = calls \/ \E x : Goes(c, x) /\ CallIsTimed(x)
    BY <1>7, <1>k DEF Link, Minting, Linking, Storing
  <2> QED
    BY <1>0, <2>1, <2>2, CallsStayTimed DEF Timed
<1>8. ASSUME NEW c \in Clients, NEW h \in Handles, Unlink(c, h) PROVE Timed'
  BY <1>8 DEF Unlink, Calls, Timed
<1>9. ASSUME NEW c \in Clients, NEW a \in IdentityIds, NEW b \in IdentityIds, Merge(c, a, b) PROVE Timed'
  <2>1. /\ UNCHANGED <<rows, sessions, drawn, clock>> /\ excused' \in BOOLEAN /\ begun' \in 0..MaxOps
    BY <1>9 DEF Merge, Calls, dbVars, Timed
  <2>2. calls' = calls \/ \E x : Goes(c, x) /\ CallIsTimed(x)
    BY <1>9, <1>k DEF Merge, Minting, Linking, Storing
  <2> QED
    BY <1>0, <2>1, <2>2, CallsStayTimed DEF Timed
<1>10. CASE LoseSessions \/ ClockTicks \/ UNCHANGED identityVars
  BY <1>10 DEF LoseSessions, ClockTicks, identityVars, dbVars, Timed, Moments
<1> QED
  BY <1>1, <1>2, <1>3, <1>4, <1>5, <1>6, <1>7, <1>8, <1>9, <1>10 DEF IdentityNext, ClientStep

(* Every variable of the identities has its type (gateway/identity.py).       *)
LEMMA IdentitiesKeepTypes == IdentitySpec => []IdentityTypes
<1>1. IdentityInit => Timed
  <2> SUFFICES ASSUME IdentityInit PROVE Timed
    OBVIOUS
  <2>1. clock \in Moments /\ begun \in 0..MaxOps
    BY IdentityAssumption DEF IdentityInit, Moments
  <2>2. \A c \in Clients : CallIsTimed(calls[c])
    BY NoCallKind DEF IdentityInit, CallIsTimed
  <2> QED
    BY <2>1, <2>2 DEF IdentityInit, Timed
<1>2. ExactInv /\ Timed => IdentityTypes
  <2> SUFFICES ASSUME ExactInv, Timed PROVE IdentityTypes
    OBVIOUS
  <2>1. /\ identities \subseteq IdentityIds /\ links \in [Handles -> IdentityIds \cup {NoId}]
        /\ served \subseteq Handles \X SessionIds /\ person \in [Subjects -> Subjects]
    BY DEF ExactInv, Declared, LinksAreDeclared, ServedAreDeclared, Unseen, TablesAreDrawn
  <2> QED
    BY <2>1 DEF Timed, IdentityTypes, Moments
<1> QED
  BY <1>1, <1>2, ExactInit, ExactStep, TimedStep, PTL DEF IdentitySpec

-----------------------------------------------------------------------------
\* The vault and the gate

(* What a call may ask for, and where it may be.                              *)
Remembering == [op : {"remember"}, arg : Shapes, yes : BOOLEAN, at : 0..MaxHour, until : Until]
Forgetting == [op : {"forget"}, arg : Shapes]
Secreting == [op : {"put", "delete"}, arg : Secrets]
Consenting == [op : {"consent"}, map : [Features -> Until]]
Resetting == [op : {"clear", "rotate"}]
Changes == Remembering \cup Forgetting \cup Secreting \cup Consenting \cup Resetting
Prompting == [pc : {"prompt"}, shape : Shapes]
Mapping == [pc : {"map"}, map : [Features -> Until]]
Saving == [pc : {"save"}, change : Changes, data : Contents]

DeniesForCooldown(ch) == ch \in Remembering /\ ~ch.yes => ch.until = ch.at + Cooldown
TaskIs(t) ==
  /\ t \in {NoTask} \cup Prompting \cup Mapping \cup Saving
  /\ t \in Saving => DeniesForCooldown(t.change)
Stored == IF file = NoFile THEN Nothing ELSE file.data

(* As long as nothing overlapped, one call changes the vault at a time, from  *)
(* what is promised, and one process makes the key.                           *)
ActingAlone ==
  /\ \A a, b \in Changing : a = b
  /\ Stored = promised
  /\ \A a \in Agents : tasks[a] \in Saving => tasks[a].data = Changed(tasks[a].change, promised)
  /\ \A p, q \in minting : p = q
  /\ minting # {} => ring = NoKey
  /\ ~rotated =>
       /\ \A p \in Processes : held[p] \in {NoKey, ring}
       /\ file # NoFile => file.key = ring /\ ring # NoKey
VaultInv ==
  /\ VaultTypes
  /\ DOMAIN tasks = Agents
  /\ \A a \in Agents : TaskIs(tasks[a]) /\ (tasks[a] # NoTask => held[ProcOf[a]] # NoKey)
  /\ \A a, b \in Changing : ProcOf[a] = ProcOf[b] => a = b
  /\ answer = promised.approvals
  /\ ~overlapped => ActingAlone
  /\ AnswersHold

(* The instants an answer may be kept until.                                  *)
LEMMA BoundsAreIn ==
  /\ \A h \in 0..MaxHour : {h, h + 1, h + Cooldown, h + AllowTtl, Forever, 0} \subseteq Until
  /\ 0 \in Until /\ Forever \in Until
BY VaultAssumption DEF Until, Forever

(* The table without an answer.                                               *)
LEMMA NoAnswersAre == [x \in Shapes |-> NoAnswer] \in [Shapes -> [yes : BOOLEAN, until : Until]]
                      /\ NoAnswer \in [yes : BOOLEAN, until : Until]
BY BoundsAreIn DEF NoAnswer

(* The empty vault.                                                           *)
LEMMA NothingIsContents == Nothing \in Contents
BY BoundsAreIn, NoAnswersAre DEF Nothing, Contents

(* A change of the contents is again contents.                                *)
LEMMA ChangedIsContents ==
  ASSUME NEW ch \in Changes, NEW d \in Contents
  PROVE  Changed(ch, d) \in Contents
<1>1. CASE ch \in Remembering
  <2>1. Changed(ch, d) = [d EXCEPT !.approvals[ch.arg] = [yes |-> ch.yes, until |-> ch.until]]
    BY <1>1 DEF Changed, Remembering
  <2> QED
    BY <1>1, <2>1 DEF Remembering, Contents
<1>2. CASE ch \in Forgetting
  <2>1. Changed(ch, d) = [d EXCEPT !.approvals[ch.arg] = NoAnswer]
    BY <1>2 DEF Changed, Forgetting
  <2> QED
    BY <1>2, <2>1, NoAnswersAre DEF Forgetting, Contents
<1>3. CASE ch \in Secreting
  BY <1>3 DEF Changed, Secreting, Contents
<1>4. CASE ch \in Consenting
  BY <1>4 DEF Changed, Consenting, Contents
<1>5. CASE ch \in Resetting
  BY <1>5, NoAnswersAre DEF Changed, Resetting, Contents
<1> QED
  BY <1>1, <1>2, <1>3, <1>4, <1>5 DEF Changes

(* The answer that is promised is the answer the change stores; a refusal is  *)
(* stored for the cooldown.                                                   *)
LEMMA AnswersFollow ==
  ASSUME NEW ch \in Changes, DeniesForCooldown(ch), promised \in Contents, answer = promised.approvals
  PROVE  AnswersAfter(ch) = Changed(ch, promised).approvals
<1>1. CASE ch \in Remembering
  <2>1. Changed(ch, promised) = [promised EXCEPT !.approvals[ch.arg] = [yes |-> ch.yes, until |-> ch.until]]
    BY <1>1 DEF Changed, Remembering
  <2>2. (IF ch.yes THEN ch.until ELSE ch.at + Cooldown) = ch.until
    BY <1>1 DEF DeniesForCooldown
  <2>3. AnswersAfter(ch) = [answer EXCEPT ![ch.arg] = [yes |-> ch.yes, until |-> ch.until]]
    BY <1>1, <2>2 DEF AnswersAfter, Remembering
  <2> QED
    BY <1>1, <2>1, <2>3 DEF Remembering, Contents
<1>2. CASE ch \in Forgetting
  <2>1. Changed(ch, promised) = [promised EXCEPT !.approvals[ch.arg] = NoAnswer]
        /\ AnswersAfter(ch) = [answer EXCEPT ![ch.arg] = NoAnswer]
    BY <1>2 DEF Changed, AnswersAfter, Forgetting
  <2> QED
    BY <1>2, <2>1 DEF Forgetting, Contents
<1>3. CASE ch \in Secreting
  BY <1>3 DEF Changed, AnswersAfter, Secreting, Contents
<1>4. CASE ch \in Consenting
  BY <1>4 DEF Changed, AnswersAfter, Consenting, Contents
<1>5. CASE ch \in Resetting
  BY <1>5 DEF Changed, AnswersAfter, Resetting, Contents
<1> QED
  BY <1>1, <1>2, <1>3, <1>4, <1>5 DEF Changes

(* What is known of a task by where it is.                                    *)
LEMMA TaskKinds ==
  ASSUME NEW t, TaskIs(t)
  PROVE  /\ t.pc = "prompt" => t \in Prompting /\ t.shape \in Shapes
         /\ t.pc = "map" => t \in Mapping /\ t.map \in [Features -> Until]
         /\ t.pc = "save" => t \in Saving /\ t.change \in Changes /\ t.data \in Contents /\ DeniesForCooldown(t.change)
         /\ t.pc \in {"save", "map", "prompt"} => t # NoTask
         /\ t \in Saving => t.pc = "save"
BY DEF TaskIs, Prompting, Mapping, Saving, NoTask

(* An agent without a task.                                                   *)
LEMMA NoTaskIs == TaskIs(NoTask) /\ NoTask.pc \notin {"save", "map"} /\ NoTask \notin Saving
BY DEF TaskIs, NoTask, Saving

(* What a call loads is what is stored (safety/vault.py).                     *)
LEMMA Contained ==
  ASSUME VaultTypes, NEW p PROVE Load(p) \in Contents /\ Load(p) = Stored
BY NothingIsContents DEF Load, Stored, VaultTypes

(* What a step of one agent does to its task.                                 *)
LEMMA TaskStep ==
  ASSUME VaultInv, NEW a \in Agents, NEW t, Set(a, t), TaskIs(t)
  PROVE  /\ DOMAIN tasks' = Agents /\ \A b \in Agents : TaskIs(tasks'[b])
         /\ tasks'[a] = t /\ \A b \in Agents \ {a} : tasks'[b] = tasks[b]
         /\ Changing' = IF t.pc \in {"save", "map"} THEN Changing \cup {a} ELSE Changing \ {a}
BY DEF VaultInv, Set, Changing

(* A call begins: it loads the file and makes its change to what it loaded.   *)
LEMMA BeginStep ==
  ASSUME VaultInv, NEW a \in Agents, NEW ch \in Changes, DeniesForCooldown(ch), Begin(a, ch),
         ~Held(a), VaultTypes',
         \A p \in Processes : held[p] # NoKey => held'[p] # NoKey,
         held'[ProcOf[a]] # NoKey, held' = held \/ rotated', rotated => rotated'
  PROVE  VaultInv'
<1> DEFINE d == Load(ProcOf[a])
           t == [pc |-> "save", change |-> ch, data |-> Changed(ch, d)]
<1>1. PICK x \in {t, NoTask} : Set(a, x)
  BY DEF Begin
<1>2. UNCHANGED <<file, ring, minting, hour, promised, answer, wrong>> /\ overlapped' = (overlapped \/ Elsewhere(a))
  BY DEF Begin
<1>3. t \in Saving
  BY Contained, ChangedIsContents DEF Saving, VaultInv
<1>4. TaskIs(x)
  BY <1>3, NoTaskIs DEF TaskIs
<1>5. x \in Saving => x.data = Changed(ch, Stored) /\ x.change = ch
  BY NoTaskIs, Contained DEF VaultInv
<1> HIDE DEF t, d
<1>6. /\ DOMAIN tasks' = Agents /\ \A b \in Agents : TaskIs(tasks'[b])
      /\ tasks'[a] = x /\ \A b \in Agents \ {a} : tasks'[b] = tasks[b]
      /\ Changing' \subseteq Changing \cup {a}
  BY <1>1, <1>4, TaskStep
<1>7. \A b \in Agents : tasks'[b] # NoTask => held'[ProcOf[b]] # NoKey
  BY <1>6, VaultAssumption DEF VaultInv
<1>8. \A b, c \in Changing' : ProcOf[b] = ProcOf[c] => b = c
  BY <1>6 DEF VaultInv, Held
<1>9. ASSUME ~overlapped' PROVE ActingAlone'
  <2>1. ~overlapped /\ ActingAlone /\ Changing \subseteq {a}
    BY <1>2, <1>9 DEF VaultInv, Elsewhere, Held, Changing
  <2>2. \A b, c \in Changing' : b = c
    BY <1>6, <2>1
  <2>3. \A b \in Agents : tasks'[b] \in Saving => tasks'[b].data = Changed(tasks'[b].change, promised)
    BY <1>5, <1>6, <2>1 DEF ActingAlone
  <2> QED
    BY <1>2, <2>1, <2>2, <2>3 DEF ActingAlone, Stored
<1> QED
  BY <1>2, <1>6, <1>7, <1>8, <1>9 DEF VaultInv, AnswersHold

(* Every step of the vault keeps its invariant (safety/vault.py,              *)
(* safety/approval.py, os_hooks/consent.py).                                  *)
LEMMA VaultStep == VaultInv /\ [VaultNext]_vaultVars => VaultInv'
<1> SUFFICES ASSUME VaultInv, [VaultNext]_vaultVars PROVE VaultInv'
  OBVIOUS
<1> USE VaultAssumption
<1>1. ASSUME NEW p \in Processes, FetchKey(p) PROVE VaultInv'
  <2>1. CASE ring # NoKey
    BY <1>1, <2>1 DEF FetchKey, VaultInv, VaultTypes, Changing, ActingAlone, Stored, AnswersHold
  <2>2. CASE ring = NoKey
    <3>1. /\ minting' = minting \cup {p} /\ overlapped' = (overlapped \/ minting # {})
          /\ UNCHANGED <<file, ring, held, tasks, hour, asked, promised, answer, rotated, wrong>>
      BY <1>1, <2>2 DEF FetchKey
    <3>2. VaultTypes' /\ (overlapped => overlapped')
      BY <3>1 DEF VaultInv, VaultTypes
    <3>3. ASSUME ~overlapped' PROVE ActingAlone'
      BY <2>2, <3>1, <3>3 DEF VaultInv, ActingAlone, Changing, Stored
    <3> QED
      BY <3>1, <3>2, <3>3 DEF VaultInv, Changing, AnswersHold
  <2> QED
    BY <2>1, <2>2
<1>2. ASSUME NEW p \in Processes, StoreKey(p) PROVE VaultInv'
  <2>1. PICK k \in Keys : ring' = k /\ held' = [held EXCEPT ![p] = k]
    BY <1>2 DEF StoreKey
  <2>2. VaultTypes'
    BY <1>2, <2>1 DEF StoreKey, historyVars, VaultInv, VaultTypes
  <2>3. ASSUME ~overlapped PROVE ActingAlone'
    BY <1>2, <2>1, <2>3 DEF StoreKey, historyVars, VaultInv, VaultTypes, ActingAlone, Changing, Stored
  <2> QED
    BY <1>2, <2>1, <2>2, <2>3 DEF StoreKey, historyVars, VaultInv, VaultTypes, Changing, AnswersHold
<1>3. ASSUME NEW p \in Processes, ProcessEnds(p) PROVE VaultInv'
  <2>1. \A a \in Agents : tasks'[a] = NoTask \/ (tasks'[a] = tasks[a] /\ ProcOf[a] # p)
    BY <1>3 DEF ProcessEnds
  <2>2. VaultTypes' /\ DOMAIN tasks' = Agents
    BY <1>3 DEF ProcessEnds, historyVars, VaultInv, VaultTypes
  <2>3. Changing' \subseteq Changing
    BY <2>1, NoTaskIs DEF Changing
  <2>4. ASSUME ~overlapped PROVE ActingAlone'
    BY <1>3, <2>1, <2>3, <2>4, NoTaskIs DEF ProcessEnds, historyVars, VaultInv, VaultTypes, ActingAlone, Stored
  <2> QED
    BY <1>3, <2>1, <2>2, <2>3, <2>4, NoTaskIs DEF ProcessEnds, historyVars, VaultInv, VaultTypes, AnswersHold
<1>4. ASSUME NEW a \in Agents, NEW x \in Shapes, Request(a, x) PROVE VaultInv'
  <2> DEFINE t == [pc |-> "prompt", shape |-> x]
  <2>1. (UNCHANGED tasks \/ Set(a, t)) /\ tasks[a] = NoTask /\ held[ProcOf[a]] # NoKey
    BY <1>4 DEF Request, Call
  <2>2. TaskIs(t) /\ t \notin Saving /\ t.pc \notin {"save", "map"}
    BY DEF TaskIs, Prompting, Saving
  <2> HIDE DEF t
  <2>4. /\ DOMAIN tasks' = Agents /\ \A b \in Agents : TaskIs(tasks'[b])
        /\ tasks'[a] \in {NoTask, t} /\ \A b \in Agents \ {a} : tasks'[b] = tasks[b]
        /\ Changing' \subseteq Changing
    <3>1. CASE UNCHANGED tasks
      BY <2>1, <3>1 DEF VaultInv, Changing
    <3>2. CASE Set(a, t)
      BY <2>2, <3>2, NoTaskIs, TaskStep
    <3> QED
      BY <2>1, <3>1, <3>2
  <2>5. /\ UNCHANGED <<file, ring, held, minting, hour, promised, answer, overlapped, rotated>>
        /\ asked' = asked + 1 /\ asked < MaxTasks
    BY <1>4 DEF Request, Call
  <2>6. wrong' = (wrong \/ Active(Stored.approvals[x]) # Active(answer[x])
                     \/ (Active(Stored.approvals[x]) /\ Stored.approvals[x].yes # answer[x].yes))
    BY <1>4, Contained DEF Request, VaultInv
  <2>7. ~overlapped => Stored.approvals[x] = answer[x]
    BY DEF VaultInv, ActingAlone
  <2>8. wrong' \in BOOLEAN /\ (~overlapped => wrong' = wrong)
    BY <2>6, <2>7 DEF VaultInv, VaultTypes
  <2>9. ASSUME ~overlapped PROVE ActingAlone'
    BY <2>2, <2>4, <2>5, <2>9, NoTaskIs DEF VaultInv, ActingAlone, Stored
  <2> QED
    BY <2>1, <2>4, <2>5, <2>8, <2>9 DEF VaultInv, VaultTypes, AnswersHold
<1>5. ASSUME NEW a \in Agents, NEW ch \in Changes, DeniesForCooldown(ch), Call(a), Begin(a, ch), UNCHANGED <<held, rotated>>
      PROVE VaultInv'
  <2>1. VaultTypes'
    BY <1>5 DEF Call, Begin, VaultInv, VaultTypes
  <2> QED
    BY <1>5, <2>1, BeginStep DEF Call
<1>6. ASSUME NEW a \in Agents, NEW yes \in BOOLEAN, Answer(a, yes) PROVE VaultInv'
  <2> DEFINE ch == [op |-> "remember", arg |-> tasks[a].shape, yes |-> yes, at |-> hour, until |-> Expires(yes)]
  <2>1. tasks[a].shape \in Shapes /\ held[ProcOf[a]] # NoKey /\ hour \in 0..MaxHour
    BY <1>6, TaskKinds DEF Answer, VaultInv, VaultTypes
  <2>2. Expires(yes) \in Until /\ (~yes => Expires(yes) = hour + Cooldown)
    BY <2>1, BoundsAreIn DEF Expires
  <2>3. ch \in Changes /\ DeniesForCooldown(ch)
    BY <2>1, <2>2 DEF Changes, Remembering, DeniesForCooldown
  <2> HIDE DEF ch
  <2>4. Begin(a, ch) /\ UNCHANGED <<held, asked, rotated>> /\ ~Held(a)
    BY <1>6 DEF Answer, ch
  <2>5. VaultTypes'
    BY <2>4 DEF Begin, VaultInv, VaultTypes
  <2> QED
    BY <2>1, <2>3, <2>4, <2>5, BeginStep
<1>7. ASSUME NEW a \in Agents, Abort(a) PROVE VaultInv'
  <2>1. Set(a, NoTask) /\ UNCHANGED <<file, ring, held, minting, hour, asked, historyVars>>
    BY <1>7 DEF Abort
  <2>2. /\ DOMAIN tasks' = Agents /\ \A b \in Agents : TaskIs(tasks'[b])
        /\ tasks'[a] = NoTask /\ \A b \in Agents \ {a} : tasks'[b] = tasks[b]
        /\ Changing' \subseteq Changing
    BY <2>1, NoTaskIs, TaskStep
  <2>3. ASSUME ~overlapped PROVE ActingAlone'
    BY <2>1, <2>2, <2>3, NoTaskIs DEF historyVars, VaultInv, ActingAlone, Stored
  <2> QED
    BY <2>1, <2>2, <2>3 DEF historyVars, VaultInv, VaultTypes, AnswersHold
<1>8. ASSUME NEW a \in Agents, NEW f \in Features, NEW until \in Until, Consent(a, f, until) PROVE VaultInv'
  <2> DEFINE map == Load(ProcOf[a]).consent
             t == [pc |-> "map", map |-> [map EXCEPT ![f] = until]]
  <2>1. map \in [Features -> Until]
    BY Contained DEF VaultInv, Contents
  <2>2. TaskIs(t) /\ t \notin Saving
    <3> HIDE DEF map
    <3>1. [map EXCEPT ![f] = until] \in [Features -> Until]
      BY <2>1
    <3>2. t \in Mapping
      BY <3>1 DEF Mapping
    <3> QED
      BY <3>2 DEF TaskIs, Mapping, Saving
  <2>3. /\ Set(a, t) /\ UNCHANGED <<file, ring, held, minting, hour, promised, answer, rotated, wrong>>
        /\ overlapped' = (overlapped \/ Elsewhere(a))
        /\ asked' = asked + 1 /\ asked < MaxTasks /\ ~Held(a) /\ held[ProcOf[a]] # NoKey
    BY <1>8 DEF Consent, Call
  <2> HIDE DEF t, map
  <2>4. /\ DOMAIN tasks' = Agents /\ \A b \in Agents : TaskIs(tasks'[b])
        /\ tasks'[a] = t /\ \A b \in Agents \ {a} : tasks'[b] = tasks[b]
        /\ Changing' \subseteq Changing \cup {a}
    BY <2>2, <2>3, TaskStep
  <2>5. ASSUME ~overlapped' PROVE ActingAlone'
    <3>1. ~overlapped /\ ActingAlone /\ Changing \subseteq {a}
      BY <2>3, <2>5 DEF VaultInv, Elsewhere, Held, Changing
    <3> QED
      BY <2>2, <2>3, <2>4, <3>1 DEF ActingAlone, Stored
  <2>6. VaultTypes'
    BY <2>3 DEF VaultInv, VaultTypes
  <2>7. \A b, c \in Changing' : ProcOf[b] = ProcOf[c] => b = c
    BY <2>3, <2>4 DEF VaultInv, Held
  <2> QED
    BY <2>3, <2>4, <2>5, <2>6, <2>7 DEF VaultInv, AnswersHold
<1>9. ASSUME NEW a \in Agents, PutConsent(a) PROVE VaultInv'
  <2> DEFINE ch == [op |-> "consent", map |-> tasks[a].map]
  <2>1. tasks[a].map \in [Features -> Until] /\ held[ProcOf[a]] # NoKey /\ a \in Changing
    BY <1>9, TaskKinds DEF PutConsent, VaultInv, Changing
  <2>2. ch \in Changes /\ DeniesForCooldown(ch)
    BY <2>1 DEF Changes, Consenting, Remembering, DeniesForCooldown
  <2> HIDE DEF ch
  <2>3. Begin(a, ch) /\ UNCHANGED <<held, asked, rotated>>
    BY <1>9 DEF PutConsent, ch
  <2>4. VaultTypes'
    BY <2>3 DEF Begin, VaultInv, VaultTypes
  <2>5. ~Held(a)
    BY <2>1 DEF Held, VaultInv
  <2> QED
    BY <2>1, <2>2, <2>3, <2>4, <2>5, BeginStep
<1>10. ASSUME NEW a \in Agents, NEW k \in Keys, Rotate(a, k) PROVE VaultInv'
  <2> DEFINE ch == [op |-> "rotate"]
  <2>1. ch \in Changes /\ DeniesForCooldown(ch)
    BY DEF Changes, Resetting, Remembering, DeniesForCooldown
  <2> HIDE DEF ch
  <2>2. Begin(a, ch) /\ held' = [held EXCEPT ![ProcOf[a]] = k] /\ rotated' = TRUE /\ Call(a)
    BY <1>10 DEF Rotate, ch
  <2>3. VaultTypes'
    BY <2>2 DEF Call, Begin, VaultInv, VaultTypes
  <2>4. /\ \A p \in Processes : held[p] # NoKey => held'[p] # NoKey
        /\ held'[ProcOf[a]] # NoKey
    BY <2>2 DEF VaultInv, VaultTypes
  <2> QED
    BY <2>1, <2>2, <2>3, <2>4, BeginStep DEF Call
<1>11. ASSUME NEW a \in Agents, Save(a) PROVE VaultInv'
  <2> DEFINE ch == tasks[a].change
  <2>1. /\ tasks[a] \in Saving /\ ch \in Changes /\ tasks[a].data \in Contents /\ DeniesForCooldown(ch)
        /\ held[ProcOf[a]] \in Keys
    BY <1>11, TaskKinds DEF Save, VaultInv, VaultTypes
  <2>2. /\ file' = [key |-> held[ProcOf[a]], data |-> tasks[a].data]
        /\ promised' = Changed(ch, promised) /\ answer' = AnswersAfter(ch) /\ Set(a, NoTask)
        /\ UNCHANGED <<ring, held, minting, hour, asked, overlapped, rotated, wrong>>
    BY <1>11 DEF Save
  <2> HIDE DEF ch
  <2>3. /\ DOMAIN tasks' = Agents /\ \A b \in Agents : TaskIs(tasks'[b])
        /\ tasks'[a] = NoTask /\ \A b \in Agents \ {a} : tasks'[b] = tasks[b]
        /\ Changing' = Changing \ {a} /\ a \in Changing
    BY <1>11, <2>2, NoTaskIs, TaskStep DEF Save, Changing
  <2>4. promised' \in Contents /\ answer' = promised'.approvals
    BY <2>1, <2>2, ChangedIsContents, AnswersFollow DEF VaultInv, VaultTypes
  <2>5. file' # NoFile /\ file' \in [key : Keys, data : Contents] /\ Stored' = tasks[a].data
        /\ file'.key = held[ProcOf[a]]
    <3>1. file' \in [key : Keys, data : Contents]
      BY <2>1, <2>2
    <3> QED
      BY <2>1, <2>2, <3>1, NoFileAssumption DEF Stored
  <2>6. VaultTypes'
    BY <2>2, <2>4, <2>5 DEF VaultInv, VaultTypes, Contents
  <2>7. ASSUME ~overlapped PROVE ActingAlone'
    <3>1. Changing = {a} /\ tasks[a].data = Changed(ch, promised)
      BY <2>1, <2>3, <2>7 DEF VaultInv, ActingAlone, ch
    <3>2. \A b \in Agents : tasks'[b] \notin Saving
      BY <2>3, <3>1, TaskKinds, NoTaskIs DEF Changing, VaultInv
    <3> QED
      BY <2>1, <2>2, <2>3, <2>5, <2>7, <3>1, <3>2 DEF VaultInv, VaultTypes, ActingAlone
  <2> QED
    BY <2>2, <2>3, <2>4, <2>6, <2>7 DEF VaultInv, AnswersHold
<1>12. CASE HourPasses
  BY <1>12 DEF HourPasses, historyVars, VaultInv, VaultTypes, Changing, ActingAlone, Stored, AnswersHold
<1>13. CASE UNCHANGED vaultVars
  BY <1>13 DEF vaultVars, historyVars, VaultInv, VaultTypes, Changing, ActingAlone, Stored, AnswersHold
<1> QED
  <2>1. ASSUME NEW a \in Agents, NEW x \in Shapes, Forget(a, x) PROVE VaultInv'
    BY <1>5, <2>1 DEF Forget, Changes, Forgetting, Remembering, DeniesForCooldown
  <2>2. ASSUME NEW a \in Agents, Clear(a) PROVE VaultInv'
    BY <1>5, <2>2 DEF Clear, Changes, Resetting, Remembering, DeniesForCooldown
  <2>3. ASSUME NEW a \in Agents, NEW n \in Secrets, PutSecret(a, n) \/ DeleteSecret(a, n) PROVE VaultInv'
    BY <1>5, <2>3 DEF PutSecret, DeleteSecret, Changes, Secreting, Remembering, DeniesForCooldown
  <2>4. {0, hour + 1, Forever} \subseteq Until
    BY BoundsAreIn DEF VaultInv, VaultTypes
  <2> QED
    BY <1>1, <1>2, <1>3, <1>4, <1>6, <1>7, <1>8, <1>9, <1>10, <1>11, <1>12, <1>13,
       <2>1, <2>2, <2>3, <2>4 DEF VaultNext

(* As long as nothing overlapped, the vault holds what was promised and opens *)
(* for every process, and the gate asks again exactly when the last answer    *)
(* has run out (safety/vault.py, safety/approval.py); and every variable has  *)
(* its type.                                                                  *)
THEOREM VaultKeepsItsPromises == VaultSpec => [](VaultTypes /\ PromisesAreKept)
<1>1. VaultInit => VaultInv
  <2> SUFFICES ASSUME VaultInit PROVE VaultInv
    OBVIOUS
  <2>1. VaultTypes
    <3>1. /\ file = NoFile /\ ring \in Keys \cup {NoKey} /\ held \in [Processes -> Keys \cup {NoKey}]
          /\ minting \in SUBSET Processes /\ hour \in 0..MaxHour /\ asked \in 0..MaxTasks
      BY VaultAssumption DEF VaultInit
    <3>2. promised \in Contents /\ answer \in [Shapes -> [yes : BOOLEAN, until : Until]]
          /\ overlapped \in BOOLEAN /\ rotated \in BOOLEAN /\ wrong \in BOOLEAN
      BY NothingIsContents, NoAnswersAre DEF VaultInit
    <3> QED
      BY <3>1, <3>2 DEF VaultTypes
  <2>2. Changing = {}
    BY NoTaskIs DEF VaultInit, Changing
  <2>3. ActingAlone
    BY <2>2, NoTaskIs DEF VaultInit, ActingAlone, Stored
  <2> QED
    BY <2>1, <2>2, <2>3, NoTaskIs DEF VaultInit, VaultInv, AnswersHold, Nothing
<1>2. VaultInv => PromisesAreKept
  BY DEF VaultInv, ActingAlone, Stored, PromisesAreKept, NothingStoredIsLost, Readable
<1>3. VaultInv => VaultTypes
  BY DEF VaultInv
<1> QED
  BY <1>1, <1>2, <1>3, VaultStep, PTL DEF VaultSpec

-----------------------------------------------------------------------------
\* The queue of the curator

(* A session that is accepted is on its way in one place at most: with a      *)
(* caller, in the queue or with a worker.                                     *)
Putting(c) == callers[c].pc = "put"
Reviewing(w) == workers[w].pc \in {"review", "failed"}
OnItsWay(s) ==
  \/ \E c \in Callers : Putting(c) /\ callers[c].session = s
  \/ \E i \in DOMAIN waiting : waiting[i] = s
  \/ \E w \in Reviewers : Reviewing(w) /\ workers[w].session = s
(* What is known of a worker at a session, and of all numbers handed out.     *)
AtWork(x) ==
  x.pc \in {"review", "failed", "finally", "raising"} =>
    x = [pc |-> x.pc, session |-> x.session] /\ x.session \in 1..accepted
Numbered ==
  /\ accepted \in 0..MaxSessions
  /\ waiting \in Seq(Nat) /\ reports \in Seq(Nat)
  /\ \A i \in DOMAIN waiting : waiting[i] \in 0..accepted
  /\ \A i \in DOMAIN reports : reports[i] \in 1..accepted
  /\ DOMAIN callers = Callers /\ DOMAIN workers = Reviewers
  /\ \A c \in Callers : Putting(c) => callers[c].session \in 1..accepted
  /\ \A w \in Reviewers : AtWork(workers[w])
(* No session is in two places.                                               *)
InOnePlace ==
  /\ \A c, d \in Callers : Putting(c) /\ Putting(d) /\ callers[c].session = callers[d].session => c = d
  /\ \A i, j \in DOMAIN waiting : waiting[i] = waiting[j] /\ waiting[i] # Sentinel => i = j
  /\ \A v, w \in Reviewers : Reviewing(v) /\ Reviewing(w) /\ workers[v].session = workers[w].session => v = w
  /\ \A c \in Callers, i \in DOMAIN waiting : Putting(c) => callers[c].session # waiting[i]
  /\ \A c \in Callers, w \in Reviewers : Putting(c) /\ Reviewing(w) => callers[c].session # workers[w].session
  /\ \A i \in DOMAIN waiting, w \in Reviewers : Reviewing(w) => waiting[i] # workers[w].session
(* A report is the last that is heard of a session.                           *)
OnceReported ==
  /\ \A i, j \in DOMAIN reports : reports[i] = reports[j] => i = j
  /\ \A i \in DOMAIN reports : ~OnItsWay(reports[i])
(* No session is dropped: it is on its way, reported or failed.               *)
Accounted ==
  /\ \A s \in 1..accepted : OnItsWay(s) \/ s \in Reported \cup lost
  /\ processed /\ ~hasty => 1..accepted \subseteq Reported \cup lost
CuratorInv ==
  /\ processed \in BOOLEAN /\ hasty \in BOOLEAN /\ thread \in 0..MaxWorkers /\ lost \in SUBSET Sessions
  /\ Numbered /\ InOnePlace /\ OnceReported /\ Accounted

(* A session behind a queue.                                                  *)
LEMMA PushFacts ==
  ASSUME NEW s \in Seq(Nat), NEW e \in Nat
  PROVE  /\ Append(s, e) \in Seq(Nat)
         /\ DOMAIN s \subseteq DOMAIN Append(s, e) /\ Len(s) + 1 \in DOMAIN Append(s, e)
         /\ \A i \in DOMAIN Append(s, e) : i \in DOMAIN s \/ i = Len(s) + 1
         /\ Len(s) + 1 \notin DOMAIN s
         /\ \A i \in DOMAIN s : Append(s, e)[i] = s[i]
         /\ Append(s, e)[Len(s) + 1] = e
OBVIOUS

(* The first of a queue and the rest.                                         *)
LEMMA PopFacts ==
  ASSUME NEW s \in Seq(Nat), s # <<>>
  PROVE  /\ Tail(s) \in Seq(Nat) /\ Head(s) = s[1] /\ 1 \in DOMAIN s
         /\ \A i \in DOMAIN Tail(s) : i + 1 \in DOMAIN s /\ i + 1 # 1 /\ Tail(s)[i] = s[i + 1] /\ i \in Nat
         /\ \A i \in DOMAIN s : i = 1 \/ (i \in Nat /\ i - 1 \in DOMAIN Tail(s) /\ (i - 1) + 1 = i)
OBVIOUS

(* The queue is empty, and nobody is at work.                                 *)
LEMMA CuratorStarts == CuratorInit => CuratorInv
<1> SUFFICES ASSUME CuratorInit PROVE CuratorInv
  OBVIOUS
<1>1. waiting = <<>> /\ reports = <<>> /\ DOMAIN waiting = {} /\ DOMAIN reports = {} /\ accepted = 0
  BY DEF CuratorInit
<1>2. Numbered
  BY <1>1, CuratorAssumption DEF CuratorInit, Numbered, Putting, AtWork, Free, Unborn
<1>3. InOnePlace /\ OnceReported
  BY <1>1 DEF CuratorInit, InOnePlace, OnceReported, Putting, Reviewing, Free, Unborn
<1>4. Accounted
  BY <1>1 DEF CuratorInit, Accounted
<1>5. processed \in BOOLEAN /\ hasty \in BOOLEAN
  BY DEF CuratorInit
<1>6. thread \in 0..MaxWorkers /\ lost \in SUBSET Sessions
  BY CuratorAssumption DEF CuratorInit
<1> QED
  BY <1>2, <1>3, <1>4, <1>5, <1>6 DEF CuratorInv

(* A step that leaves the sessions where they are.                            *)
LEMMA NothingMoves ==
  ASSUME CuratorInv, UNCHANGED <<accepted, reports, lost>>,
         processed' \in BOOLEAN, hasty' \in BOOLEAN, thread' \in 0..MaxWorkers,
         waiting' \in Seq(Nat), DOMAIN callers' = Callers, DOMAIN workers' = Reviewers,
         \A i \in DOMAIN waiting : i \in DOMAIN waiting' /\ waiting'[i] = waiting[i],
         \A i \in DOMAIN waiting' : i \in DOMAIN waiting \/ waiting'[i] = Sentinel,
         \A c \in Callers : Putting(c)' = Putting(c) /\ (Putting(c) => callers'[c].session = callers[c].session),
         \A w \in Reviewers : /\ AtWork(workers[w])' /\ Reviewing(w)' = Reviewing(w)
                              /\ Reviewing(w) => workers'[w].session = workers[w].session,
         processed' /\ ~hasty' => (processed /\ ~hasty) \/ \A s \in 1..accepted : ~OnItsWay(s)
  PROVE  CuratorInv'
<1>0. accepted \in Nat /\ 0 \in 0..accepted
  BY CuratorAssumption DEF CuratorInv, Numbered
<1>1. Numbered'
  <2>1. \A i \in DOMAIN waiting' : waiting'[i] \in 0..accepted
    BY <1>0 DEF CuratorInv, Numbered, Sentinel
  <2>2. \A c \in Callers : Putting(c)' => callers'[c].session \in 1..accepted
    BY DEF CuratorInv, Numbered
  <2> QED
    BY <2>1, <2>2 DEF CuratorInv, Numbered
<1>2. \A s \in 1..accepted : OnItsWay(s)' <=> OnItsWay(s)
  BY DEF OnItsWay, Sentinel
<1>3. InOnePlace'
  <2> USE DEF CuratorInv, InOnePlace
  <2>1. \A c, d \in Callers : Putting(c)' /\ Putting(d)' /\ callers'[c].session = callers'[d].session => c = d
    OBVIOUS
  <2>2. \A i, j \in DOMAIN waiting' : waiting'[i] = waiting'[j] /\ waiting'[i] # Sentinel => i = j
    OBVIOUS
  <2>3. \A v, w \in Reviewers : Reviewing(v)' /\ Reviewing(w)' /\ workers'[v].session = workers'[w].session => v = w
    OBVIOUS
  <2>4. \A c \in Callers : Putting(c) => callers[c].session # Sentinel
    BY <1>0 DEF Numbered, Sentinel
  <2>5. \A w \in Reviewers : Reviewing(w) => workers[w].session # Sentinel
    BY <1>0 DEF Numbered, Sentinel, AtWork, Reviewing
  <2>6. \A c \in Callers, i \in DOMAIN waiting' : Putting(c)' => callers'[c].session # waiting'[i]
    BY <2>4
  <2>7. \A c \in Callers, w \in Reviewers : Putting(c)' /\ Reviewing(w)' => callers'[c].session # workers'[w].session
    OBVIOUS
  <2>8. \A i \in DOMAIN waiting', w \in Reviewers : Reviewing(w)' => waiting'[i] # workers'[w].session
    BY <2>5
  <2> QED
    BY <2>1, <2>2, <2>3, <2>6, <2>7, <2>8
<1>4. OnceReported'
  BY <1>2 DEF CuratorInv, Numbered, OnceReported
<1>5. Accounted'
  BY <1>2 DEF CuratorInv, Accounted, Reported
<1> QED
  BY <1>1, <1>3, <1>4, <1>5 DEF CuratorInv

(* enqueue: the event is cleared; the session has a number of its own.        *)
LEMMA ClearEventKeeps ==
  ASSUME CuratorInv, NEW c \in Callers, ClearEvent(c)
  PROVE  CuratorInv'
<1> DEFINE n == accepted + 1
           x == [pc |-> "put", session |-> n]
<1>1. /\ accepted \in Nat /\ accepted < MaxSessions /\ MaxSessions \in Nat /\ accepted' = n
      /\ processed' = FALSE /\ callers[c] = Free /\ callers' = [callers EXCEPT ![c] = x]
      /\ UNCHANGED <<waiting, thread, workers, reports, lost, hasty>>
  BY CuratorAssumption DEF ClearEvent, CallerAt, CuratorInv, Numbered
<1>2. n \in 1..n /\ 1..accepted \subseteq 1..n /\ n \notin 0..accepted /\ 0..accepted \subseteq 0..n /\ n \in 0..MaxSessions
      /\ \A s \in 1..n : s = n \/ s \in 1..accepted
  BY <1>1
<1>3. ~Putting(c) /\ Putting(c)' /\ callers'[c].session = n /\ DOMAIN callers' = Callers
      /\ \A d \in Callers \ {c} : callers'[d] = callers[d]
  BY <1>1 DEF Putting, Free, CuratorInv, Numbered
<1> HIDE DEF n, x
<1>4. /\ \A d \in Callers : Putting(d) => callers[d].session # n
      /\ \A i \in DOMAIN waiting : waiting[i] # n
      /\ \A w \in Reviewers : Reviewing(w) => workers[w].session # n
      /\ \A i \in DOMAIN reports : reports[i] # n
      /\ 1..accepted \subseteq 0..accepted
  <2>1. 1..accepted \subseteq 0..accepted
    BY <1>1
  <2> QED
    BY <1>2, <2>1 DEF CuratorInv, Numbered, AtWork, Reviewing
<1>5. Numbered'
  BY <1>1, <1>2, <1>3 DEF CuratorInv, Numbered, AtWork, Putting
<1>6. InOnePlace'
  <2>1. \A d \in Callers \ {c} : Putting(d)' = Putting(d)
    BY <1>3 DEF Putting
  <2>2. \A w \in Reviewers : Reviewing(w)' = Reviewing(w)
    BY <1>1 DEF Reviewing
  <2> QED
    BY <1>1, <1>3, <1>4, <2>1, <2>2 DEF CuratorInv, InOnePlace
<1>7. \A s : OnItsWay(s)' <=> OnItsWay(s) \/ s = n
  <2>1. \A d \in Callers \ {c} : Putting(d)' = Putting(d)
    BY <1>3 DEF Putting
  <2>2. \A w \in Reviewers : Reviewing(w)' = Reviewing(w)
    BY <1>1 DEF Reviewing
  <2> QED
    BY <1>1, <1>3, <2>1, <2>2 DEF OnItsWay
<1>8. OnceReported'
  BY <1>1, <1>4, <1>7 DEF CuratorInv, OnceReported
<1>9. Accounted'
  BY <1>1, <1>2, <1>7 DEF CuratorInv, Accounted, Reported
<1> QED
  BY <1>1, <1>5, <1>6, <1>8, <1>9 DEF CuratorInv

(* enqueue: the session is queued.                                            *)
LEMMA PutSessionKeeps ==
  ASSUME CuratorInv, NEW c \in Callers, PutSession(c)
  PROVE  CuratorInv'
<1> DEFINE n == callers[c].session
           k == Len(waiting) + 1
<1>1. /\ Putting(c) /\ waiting' = Append(waiting, n) /\ callers' = [callers EXCEPT ![c] = Free]
      /\ UNCHANGED <<processed, thread, workers, accepted, reports, lost, hasty>>
  BY DEF PutSession, CallerAt, Putting
<1>2. /\ accepted \in Nat /\ n \in 1..accepted /\ n \in Nat /\ n \in 0..accepted /\ n # 0 /\ waiting \in Seq(Nat)
  BY <1>1, CuratorAssumption DEF CuratorInv, Numbered
<1> HIDE DEF n, k
<1>3. /\ waiting' \in Seq(Nat) /\ DOMAIN waiting \subseteq DOMAIN waiting' /\ k \in DOMAIN waiting'
      /\ \A i \in DOMAIN waiting' : i \in DOMAIN waiting \/ i = k
      /\ k \notin DOMAIN waiting /\ \A i \in DOMAIN waiting : waiting'[i] = waiting[i]
      /\ waiting'[k] = n
  BY <1>1, <1>2, PushFacts DEF k
<1>4. ~Putting(c)' /\ DOMAIN callers' = Callers /\ \A d \in Callers \ {c} : callers'[d] = callers[d]
  BY <1>1 DEF Putting, Free, CuratorInv, Numbered
<1>5. \A d \in Callers : Putting(d)' <=> d # c /\ Putting(d)
  BY <1>4 DEF Putting
<1>6. \A w \in Reviewers : Reviewing(w)' = Reviewing(w)
  BY <1>1 DEF Reviewing
<1>7. /\ \A d \in Callers : Putting(d) /\ d # c => callers[d].session # n
      /\ \A i \in DOMAIN waiting : waiting[i] # n
      /\ \A w \in Reviewers : Reviewing(w) => workers[w].session # n
  BY <1>1 DEF CuratorInv, InOnePlace, n
<1>8. Numbered'
  BY <1>1, <1>2, <1>3, <1>4, <1>5 DEF CuratorInv, Numbered, AtWork
<1>9. InOnePlace'
  BY <1>1, <1>3, <1>4, <1>5, <1>6, <1>7 DEF CuratorInv, InOnePlace
<1>10. \A s : OnItsWay(s)' <=> OnItsWay(s)
  BY <1>1, <1>3, <1>4, <1>5, <1>6 DEF OnItsWay, n
<1>11. OnceReported' /\ Accounted'
  BY <1>1, <1>10 DEF CuratorInv, OnceReported, Accounted, Reported
<1> QED
  BY <1>1, <1>8, <1>9, <1>11 DEF CuratorInv

(* The worker takes the first of the queue.                                   *)
LEMMA TakeKeeps ==
  ASSUME CuratorInv, NEW w \in Reviewers, Take(w)
  PROVE  CuratorInv'
<1> DEFINE n == Head(waiting)
           x == [pc |-> IF n = Sentinel THEN "stop" ELSE "review", session |-> n]
<1>1. /\ workers[w] = Waits /\ waiting # <<>> /\ waiting' = Tail(waiting)
      /\ workers' = [workers EXCEPT ![w] = x]
      /\ UNCHANGED <<processed, thread, callers, accepted, reports, lost, hasty>>
  BY DEF Take, At
<1>2. /\ accepted \in Nat /\ waiting \in Seq(Nat) /\ DOMAIN workers = Reviewers
  BY CuratorAssumption DEF CuratorInv, Numbered
<1>3. /\ waiting' \in Seq(Nat) /\ n = waiting[1] /\ 1 \in DOMAIN waiting
      /\ \A i \in DOMAIN waiting' : i + 1 \in DOMAIN waiting /\ i + 1 # 1 /\ waiting'[i] = waiting[i + 1] /\ i \in Nat
      /\ \A i \in DOMAIN waiting : i = 1 \/ (i \in Nat /\ i - 1 \in DOMAIN waiting' /\ (i - 1) + 1 = i)
  BY <1>1, <1>2, PopFacts
<1>4. x.session = n /\ (x.pc = "review" <=> n # Sentinel) /\ x.pc \in {"stop", "review"}
      /\ x = [pc |-> x.pc, session |-> x.session]
  OBVIOUS
<1> HIDE DEF n, x
<1>5. /\ workers'[w] = x /\ DOMAIN workers' = Reviewers /\ ~Reviewing(w)
      /\ \A v \in Reviewers \ {w} : workers'[v] = workers[v]
  BY <1>1, <1>2 DEF Reviewing, Waits
<1>6. \A v \in Reviewers : Reviewing(v)' <=> (v = w /\ n # Sentinel) \/ (v # w /\ Reviewing(v))
  BY <1>4, <1>5 DEF Reviewing
<1>7. \A c \in Callers : Putting(c)' = Putting(c)
  BY <1>1 DEF Putting
<1>8. n \in 0..accepted
  BY <1>3 DEF CuratorInv, Numbered
<1>9. Numbered'
  <2>1. AtWork(x)
    <3>1. n # Sentinel => n \in 1..accepted
      BY <1>2, <1>8 DEF Sentinel
    <3> QED
      BY <1>4, <3>1 DEF AtWork
  <2>2. \A v \in Reviewers : AtWork(workers[v])'
    BY <1>1, <1>5, <2>1 DEF CuratorInv, Numbered, AtWork
  <2>3. \A i \in DOMAIN waiting' : waiting'[i] \in 0..accepted
    BY <1>3 DEF CuratorInv, Numbered
  <2> QED
    BY <1>1, <1>3, <1>5, <1>7, <2>2, <2>3 DEF CuratorInv, Numbered
<1>10. InOnePlace'
  <2> USE DEF CuratorInv, InOnePlace
  <2>1. \A c, d \in Callers : Putting(c)' /\ Putting(d)' /\ callers'[c].session = callers'[d].session => c = d
    BY <1>1, <1>7
  <2>2. \A i, j \in DOMAIN waiting' : waiting'[i] = waiting'[j] /\ waiting'[i] # Sentinel => i = j
    <3> SUFFICES ASSUME NEW i \in DOMAIN waiting', NEW j \in DOMAIN waiting', waiting'[i] = waiting'[j], waiting'[i] # Sentinel
                 PROVE  i = j
      OBVIOUS
    <3>1. i + 1 = j + 1
      BY <1>3
    <3> QED
      BY <1>3, <3>1
  <2>3. \A v, u \in Reviewers : Reviewing(v)' /\ Reviewing(u)' /\ workers'[v].session = workers'[u].session => v = u
    BY <1>3, <1>4, <1>5, <1>6
  <2>4. \A c \in Callers, i \in DOMAIN waiting' : Putting(c)' => callers'[c].session # waiting'[i]
    <3> SUFFICES ASSUME NEW c \in Callers, NEW i \in DOMAIN waiting', Putting(c)'
                 PROVE  callers'[c].session # waiting'[i]
      OBVIOUS
    <3>1. i + 1 \in DOMAIN waiting /\ waiting'[i] = waiting[i + 1] /\ Putting(c) /\ callers' = callers
      BY <1>1, <1>3, <1>7
    <3>2. callers[c].session # waiting[i + 1]
      BY <3>1
    <3> QED
      BY <3>1, <3>2
  <2>5. \A c \in Callers, v \in Reviewers : Putting(c)' /\ Reviewing(v)' => callers'[c].session # workers'[v].session
    BY <1>1, <1>3, <1>4, <1>5, <1>6, <1>7
  <2>6. \A i \in DOMAIN waiting', v \in Reviewers : Reviewing(v)' => waiting'[i] # workers'[v].session
    <3> SUFFICES ASSUME NEW i \in DOMAIN waiting', NEW v \in Reviewers, Reviewing(v)'
                 PROVE  waiting'[i] # workers'[v].session
      OBVIOUS
    <3>1. i + 1 \in DOMAIN waiting /\ waiting'[i] = waiting[i + 1] /\ i + 1 # 1 /\ 1 \in DOMAIN waiting
      BY <1>3
    <3>2. CASE v = w
      <4>1. n # Sentinel /\ workers'[v].session = n /\ n = waiting[1]
        BY <1>3, <1>4, <1>5, <1>6, <3>2
      <4>2. waiting[i + 1] # waiting[1]
        BY <3>1, <4>1
      <4> QED
        BY <3>1, <4>1, <4>2
    <3>3. CASE v # w
      <4>1. Reviewing(v) /\ workers'[v] = workers[v]
        BY <1>5, <1>6, <3>3
      <4>2. waiting[i + 1] # workers[v].session
        BY <3>1, <4>1
      <4> QED
        BY <3>1, <4>1, <4>2
    <3> QED
      BY <3>2, <3>3
  <2> QED
    BY <2>1, <2>2, <2>3, <2>4, <2>5, <2>6
<1>11. \A s : s # Sentinel => (OnItsWay(s)' <=> OnItsWay(s))
  <2> SUFFICES ASSUME NEW s, s # Sentinel PROVE OnItsWay(s)' <=> OnItsWay(s)
    OBVIOUS
  <2>1. (\E i \in DOMAIN waiting : waiting[i] = s) <=> (\E i \in DOMAIN waiting' : waiting'[i] = s) \/ s = n
    <3>1. ASSUME NEW i \in DOMAIN waiting, i # 1 PROVE waiting'[i - 1] = waiting[i] /\ i - 1 \in DOMAIN waiting'
      BY <1>3, <3>1
    <3> QED
      BY <1>3, <3>1
  <2>2. (\E v \in Reviewers : Reviewing(v)' /\ workers'[v].session = s)
          <=> (\E v \in Reviewers : Reviewing(v) /\ workers[v].session = s) \/ s = n
    BY <1>4, <1>5, <1>6
  <2> QED
    BY <1>1, <1>7, <2>1, <2>2 DEF OnItsWay
<1>12. \A s \in 1..accepted : s # Sentinel
  BY <1>2 DEF Sentinel
<1>13. OnceReported'
  BY <1>1, <1>11, <1>12 DEF CuratorInv, Numbered, OnceReported
<1>14. Accounted'
  BY <1>1, <1>11, <1>12 DEF CuratorInv, Accounted, Reported
<1> QED
  BY <1>1, <1>9, <1>10, <1>13, <1>14 DEF CuratorInv

(* The review succeeds, or fails and the session is lost.                     *)
LEMMA ReviewKeeps ==
  ASSUME CuratorInv, NEW w \in Reviewers, Review(w)
  PROVE  CuratorInv'
<1> DEFINE n == workers[w].session
<1>1. /\ Reviewing(w) /\ UNCHANGED <<waiting, processed, thread, callers, accepted, hasty>>
      /\ accepted \in Nat /\ MaxSessions \in Nat /\ reports \in Seq(Nat) /\ DOMAIN workers = Reviewers
      /\ workers[w] = [pc |-> workers[w].pc, session |-> n] /\ n \in 1..accepted
  BY CuratorAssumption DEF Review, Reviewing, CuratorInv, Numbered, AtWork
<1> HIDE DEF n
<1>2. /\ \A c \in Callers : Putting(c) => callers[c].session # n
      /\ \A i \in DOMAIN waiting : waiting[i] # n
      /\ \A v \in Reviewers : Reviewing(v) /\ v # w => workers[v].session # n
      /\ OnItsWay(n)
  BY <1>1 DEF CuratorInv, InOnePlace, OnItsWay, n
<1>3. PICK x \in {"finally", "failed", "raising"} :
        /\ workers' = [workers EXCEPT ![w] = [workers[w] EXCEPT !.pc = x]]
        /\ x = "finally" => reports' = Append(reports, n) /\ UNCHANGED lost
        /\ x = "failed" => UNCHANGED <<reports, lost>>
        /\ x = "raising" => lost' = lost \cup {n} /\ UNCHANGED reports
  BY DEF Review, At, n
<1>4. [workers[w] EXCEPT !.pc = x] = [pc |-> x, session |-> n]
  BY <1>1
<1>5. /\ workers'[w].pc = x /\ workers'[w].session = n /\ AtWork(workers[w])'
      /\ DOMAIN workers' = Reviewers /\ \A v \in Reviewers \ {w} : workers'[v] = workers[v]
  BY <1>1, <1>3, <1>4 DEF AtWork
<1>6. \A v \in Reviewers : Reviewing(v)' <=> IF v = w THEN x = "failed" ELSE Reviewing(v)
  BY <1>5 DEF Reviewing
<1>7. \A c \in Callers : Putting(c)' = Putting(c)
  BY <1>1 DEF Putting
<1>8. InOnePlace'
  BY <1>1, <1>5, <1>6, <1>7 DEF CuratorInv, InOnePlace, n
<1>9. \A s : OnItsWay(s)' <=> OnItsWay(s) /\ (s = n => x = "failed")
  BY <1>1, <1>2, <1>5, <1>6, <1>7 DEF OnItsWay, n
<1>10. \A v \in Reviewers : AtWork(workers[v])'
  BY <1>1, <1>5 DEF CuratorInv, Numbered, AtWork
<1>11. CASE x = "finally"
  <2> DEFINE k == Len(reports) + 1
  <2>1. /\ reports' \in Seq(Nat) /\ DOMAIN reports \subseteq DOMAIN reports' /\ k \in DOMAIN reports'
        /\ \A i \in DOMAIN reports' : i \in DOMAIN reports \/ i = k
        /\ k \notin DOMAIN reports /\ \A i \in DOMAIN reports : reports'[i] = reports[i]
        /\ reports'[k] = n /\ UNCHANGED lost
    <3>1. n \in Nat /\ reports \in Seq(Nat)
      BY <1>1
    <3>2. reports' = Append(reports, n) /\ UNCHANGED lost
      BY <1>3, <1>11
    <3> QED
      BY <3>1, <3>2, PushFacts
  <2> HIDE DEF k
  <2>2. \A i \in DOMAIN reports : reports[i] # n
    BY <1>2 DEF CuratorInv, OnceReported
  <2>3. Numbered'
    BY <1>1, <1>5, <1>7, <1>10, <2>1 DEF CuratorInv, Numbered
  <2>4. OnceReported'
    BY <1>9, <1>11, <2>1, <2>2 DEF CuratorInv, OnceReported
  <2>5. Reported' = Reported \cup {n}
    BY <2>1 DEF Reported
  <2>6. Accounted'
    BY <1>1, <1>9, <2>1, <2>5 DEF CuratorInv, Accounted
  <2> QED
    BY <1>1, <1>8, <2>1, <2>3, <2>4, <2>6 DEF CuratorInv
<1>12. CASE x = "failed" \/ x = "raising"
  <2>1. UNCHANGED reports /\ lost \subseteq lost' /\ lost' \in SUBSET Sessions /\ (x = "raising" => n \in lost')
    <3>1. n \in Sessions
      BY <1>1 DEF CuratorInv, Numbered, Sessions
    <3> QED
      BY <1>3, <1>12, <3>1 DEF CuratorInv
  <2>2. Numbered'
    BY <1>1, <1>5, <1>7, <1>10, <2>1 DEF CuratorInv, Numbered
  <2>3. OnceReported'
    BY <1>9, <2>1 DEF CuratorInv, OnceReported
  <2>4. Reported' = Reported
    BY <2>1 DEF Reported
  <2>5. Accounted'
    BY <1>1, <1>9, <1>12, <2>1, <2>4 DEF CuratorInv, Accounted
  <2> QED
    BY <1>1, <1>8, <2>1, <2>2, <2>3, <2>5 DEF CuratorInv
<1> QED
  BY <1>11, <1>12

(* The steps around the sessions: workers start, stop and are done.           *)
LEMMA OthersKeep ==
  ASSUME CuratorInv, NEW c \in Callers, StartWorker(c) \/ StopWorker(c) \/ Joined(c)
  PROVE  CuratorInv'
<1>1. /\ DOMAIN callers = Callers /\ DOMAIN workers = Reviewers /\ \A w \in Reviewers : AtWork(workers[w])
      /\ waiting \in Seq(Nat) /\ MaxWorkers \in Nat /\ processed \in BOOLEAN /\ hasty \in BOOLEAN /\ thread \in 0..MaxWorkers
  BY CuratorAssumption DEF CuratorInv, Numbered
<1>2. CASE StartWorker(c)
  <2>1. PICK w \in Reviewers : workers[w] = Unborn /\ At(w, Waits) /\ thread' = w
    BY <1>2 DEF StartWorker
  <2>2. UNCHANGED <<waiting, processed, callers, accepted, reports, lost, hasty>>
    BY <1>2 DEF StartWorker
  <2>3. \A v \in Reviewers : AtWork(workers[v])' /\ Reviewing(v)' = Reviewing(v) /\ (Reviewing(v) => workers'[v].session = workers[v].session)
    BY <1>1, <2>1, <2>2 DEF At, AtWork, Reviewing, Waits, Unborn
  <2>4. DOMAIN workers' = Reviewers /\ thread' \in 0..MaxWorkers
    BY <1>1, <2>1 DEF At, Reviewers
  <2>5. \A d \in Callers : Putting(d)' = Putting(d)
    BY <2>2 DEF Putting
  <2> QED
    BY <1>1, <2>2, <2>3, <2>4, <2>5, NothingMoves
<1>3. CASE StopWorker(c)
  <2>1. /\ callers[c] = Free /\ waiting' = Append(waiting, 0) /\ callers' = [callers EXCEPT ![c] = [pc |-> "join"]]
        /\ UNCHANGED <<processed, thread, workers, accepted, reports, lost, hasty>>
    BY <1>3 DEF StopWorker, CallerAt, Sentinel
  <2>2. \A d \in Callers : Putting(d)' = Putting(d) /\ (Putting(d) => callers'[d].session = callers[d].session)
    BY <1>1, <2>1 DEF Putting, Free
  <2>3. /\ waiting' \in Seq(Nat) /\ \A i \in DOMAIN waiting : i \in DOMAIN waiting' /\ waiting'[i] = waiting[i]
        /\ \A i \in DOMAIN waiting' : i \in DOMAIN waiting \/ waiting'[i] = Sentinel
    BY <1>1, <2>1, PushFacts DEF Sentinel
  <2>4. \A v \in Reviewers : AtWork(workers[v])' /\ Reviewing(v)' = Reviewing(v) /\ workers'[v] = workers[v]
    BY <1>1, <2>1 DEF AtWork, Reviewing
  <2>5. DOMAIN callers' = Callers /\ DOMAIN workers' = Reviewers
    BY <1>1, <2>1
  <2> QED
    BY <1>1, <2>1, <2>2, <2>3, <2>4, <2>5, NothingMoves
<1>4. CASE Joined(c)
  <2>1. /\ callers[c].pc = "join" /\ thread' = 0 /\ callers' = [callers EXCEPT ![c] = Free]
        /\ UNCHANGED <<waiting, processed, workers, accepted, reports, lost, hasty>>
    BY <1>4 DEF Joined, CallerAt
  <2>2. \A d \in Callers : Putting(d)' = Putting(d) /\ (Putting(d) => callers'[d].session = callers[d].session)
    BY <1>1, <2>1 DEF Putting, Free
  <2>4. \A v \in Reviewers : AtWork(workers[v])' /\ Reviewing(v)' = Reviewing(v) /\ workers'[v] = workers[v]
    BY <1>1, <2>1 DEF AtWork, Reviewing
  <2>5. DOMAIN callers' = Callers /\ DOMAIN workers' = Reviewers /\ thread' \in 0..MaxWorkers
    BY <1>1, <2>1
  <2> QED
    BY <1>1, <2>1, <2>2, <2>4, <2>5, NothingMoves
<1> QED
  BY <1>2, <1>3, <1>4

(* The event is set: with an empty queue, nobody at enqueue and no other      *)
(* worker at a session, nothing is on its way.                                *)
LEMMA EventKeeps ==
  ASSUME CuratorInv, NEW w \in Reviewers, SentinelTaken(w) \/ FinishReview(w)
  PROVE  CuratorInv'
<1>1. /\ DOMAIN callers = Callers /\ DOMAIN workers = Reviewers /\ \A v \in Reviewers : AtWork(workers[v])
      /\ waiting \in Seq(Nat) /\ processed \in BOOLEAN /\ hasty \in BOOLEAN /\ thread \in 0..MaxWorkers
  BY DEF CuratorInv, Numbered
<1>2. /\ UNCHANGED <<waiting, thread, callers, accepted, reports, lost>> /\ ~Reviewing(w)
      /\ \E x \in {Dead, Waits} : workers' = [workers EXCEPT ![w] = x]
  BY DEF SentinelTaken, FinishReview, At, Reviewing
<1>3. \A v \in Reviewers : AtWork(workers[v])' /\ Reviewing(v)' = Reviewing(v) /\ (Reviewing(v) => workers'[v].session = workers[v].session)
  BY <1>1, <1>2 DEF AtWork, Reviewing, Dead, Waits
<1>4. DOMAIN workers' = Reviewers
  BY <1>1, <1>2
<1>5. \A d \in Callers : Putting(d)' = Putting(d)
  BY <1>2 DEF Putting
<1>6. processed' \in BOOLEAN
  BY <1>1 DEF SentinelTaken, FinishReview, Finished
<1>7. hasty' \in BOOLEAN
  BY <1>1 DEF SentinelTaken, FinishReview, Finished
<1>8. ASSUME waiting = <<>>, ~HalfWay(w), NEW s \in 1..accepted PROVE ~OnItsWay(s)
  <2>1. DOMAIN waiting = {}
    BY <1>8
  <2>2. \A v \in Reviewers : ~Reviewing(v)
    BY <1>2, <1>8 DEF HalfWay, Reviewing, Alive, Unborn, Dead
  <2> QED
    BY <1>8, <2>1, <2>2 DEF HalfWay, OnItsWay, Putting
<1>9. processed' /\ ~hasty' => (processed /\ ~hasty) \/ \A s \in 1..accepted : ~OnItsWay(s)
  BY <1>1, <1>8, Zenon DEF SentinelTaken, FinishReview, Finished
<1> QED
  BY <1>1, <1>2, <1>3, <1>4, <1>5, <1>6, <1>7, <1>9, NothingMoves

(* No session is reported twice, however many workers there are; and when the *)
(* event is set every session that was accepted has its report, except for    *)
(* one that could not be stored, and where enqueue or stop came in between    *)
(* (curator/loop.py); and every variable has its type.                        *)
THEOREM SessionsAreReviewedOnce == CuratorSpec => [](CuratorTypes /\ ReviewedOnceWhenIdle)
<1>1. CuratorInv /\ [CuratorNext]_curatorVars => CuratorInv'
  <2> SUFFICES ASSUME CuratorInv, [CuratorNext]_curatorVars PROVE CuratorInv'
    OBVIOUS
  <2>1. CASE CuratorNext
    BY <2>1, ClearEventKeeps, PutSessionKeeps, OthersKeep, TakeKeeps, EventKeeps, ReviewKeeps DEF CuratorNext
  <2>2. CASE UNCHANGED curatorVars
    <3>1. UNCHANGED <<waiting, processed, thread, workers, callers, accepted, reports, lost, hasty>>
      BY <2>2 DEF curatorVars
    <3> QED
      BY <3>1 DEF CuratorInv, Numbered, InOnePlace, OnceReported, Accounted, OnItsWay, Putting, Reviewing, AtWork, Reported
  <2> QED
    BY <2>1, <2>2
<1>2. CuratorInv => CuratorTypes
  <2> SUFFICES ASSUME CuratorInv PROVE CuratorTypes
    OBVIOUS
  <2>1. 0..accepted \subseteq Sessions \cup {Sentinel} /\ accepted \in 0..MaxSessions
    BY CuratorAssumption DEF CuratorInv, Numbered, Sessions, Sentinel
  <2> QED
    BY <2>1 DEF CuratorInv, Numbered, CuratorTypes
<1>3. CuratorInv => ReviewedOnceWhenIdle
  BY DEF CuratorInv, OnceReported, Accounted, ReviewedOnceWhenIdle
<1> QED
  BY <1>1, <1>2, <1>3, CuratorStarts, PTL DEF CuratorSpec
=============================================================================
