---------------------------- MODULE DreamJournal ----------------------------
(* The nightly dream (dream/journal.py, curator/discovery.py) and the corpus  *)
(* exported from its entries (dream/dataset.py).  A dream asks the model up   *)
(* to three times, each time an await at which other dreams and an export go  *)
(* on, and saves its entry when it has all answers.  Of an entry the model    *)
(* keeps the question-answer pairs, which are what the export reads; a pair   *)
(* is a value, and BlankPair one with an empty question or answer.            *)
(* Behind it, the log of first-seen tools and skills                          *)
(* (dream/capability_log.py): several processes may record the night's        *)
(* snapshot; each reads the clock first and then inserts its names in one     *)
(* transaction.                                                               *)
EXTENDS Integers, Sequences, FiniteSets, FiniteSetsExt, SequencesExt

CONSTANTS
  Dreamers,       \* runs of dream()
  Dates,
  QAPairs, BlankPair,
  Digest,         \* of a pair, the eight digits it is told apart by
  MaxReply,       \* bound on the pairs of one answer
  MaxNight,       \* bound on the clock
  MaxExports      \* bound on the exports begun

ASSUME DreamAssumption == MaxReply \in Nat /\ QAPairs \subseteq DOMAIN Digest

VARIABLES
  night,          \* the clock
  dreams,         \* per dreamer: how far it is and what it has so far
  entries,        \* dream_entries: date -> entry
  export,         \* the export under way
  corpus,         \* the exported file; basis is the list it was made from
  basis,
  exports
dreamVars == <<night, dreams, entries, export, corpus, basis, exports>>

Asleep == [pc |-> "asleep"]
NoExport == [pc |-> "none"]
NoCorpus == [missing |-> TRUE]
WithEntry(f, k, v) == [x \in DOMAIN f \cup {k} |-> IF x = k THEN v ELSE f[x]]
Days == {"quiet", "busy"}   \* no trace of a session; some

UnchangedOutside == UNCHANGED <<night, export, corpus, basis, exports>>
NextCall(d, pc) == dreams' = [dreams EXCEPT ![d].pc = pc]

StartDream(d, date, day) ==
  /\ dreams[d].pc = "asleep"
  /\ dreams' = [dreams EXCEPT ![d] = [pc |-> "consolidate", date |-> date, day |-> day]]
  /\ UNCHANGED entries /\ UnchangedOutside

(* _consolidate: no call on a quiet day; whatever the model says or however   *)
(* the call fails, there is a summary and the dream goes on.                  *)
Consolidate(d) ==
  /\ dreams[d].pc = "consolidate" /\ NextCall(d, "discover")
  /\ UNCHANGED entries /\ UnchangedOutside

(* DiscoveryAgent.run: the model is asked only about tools used often, which  *)
(* takes a trace; its proposals or its failure end the step alike.            *)
Discover(d) ==
  /\ dreams[d].pc = "discover" /\ NextCall(d, "distil")
  /\ UNCHANGED entries /\ UnchangedOutside

(* _synthesize_qa, and the save of the entry: the row of the date is replaced *)
(* whole.  A failed call counts as no pairs.                                  *)
Distilled(reply) ==
  FoldLeft(LAMBDA kept, p : IF p = BlankPair THEN kept ELSE Append(kept, p), <<>>, reply)
Replies == UNION {[1..n -> QAPairs \cup {BlankPair}] : n \in 0..MaxReply}
SavesEntry(d) ==
  /\ dreams[d].pc = "distil"
  /\ \E reply \in (IF dreams[d].day = "quiet" THEN {<<>>} ELSE Replies) :
       entries' = WithEntry(entries, dreams[d].date, [created |-> night, qa |-> Distilled(reply)])
  /\ dreams' = [dreams EXCEPT ![d] = Asleep]
  /\ UnchangedOutside

(* A dream that is cancelled or whose process dies saves nothing.             *)
Abandon(d) ==
  /\ dreams[d].pc # "asleep"
  /\ dreams' = [dreams EXCEPT ![d] = Asleep]
  /\ UNCHANGED entries /\ UnchangedOutside

(* recent: the entries, newest first; those of one instant in any order.      *)
Recent(order) ==
  /\ order \in [1..Cardinality(DOMAIN entries) -> DOMAIN entries]
  /\ \A i, j \in DOMAIN order :
       i < j => order[i] # order[j] /\ entries[order[i]].created >= entries[order[j]].created
Orderings == {order \in [1..Cardinality(DOMAIN entries) -> DOMAIN entries] : Recent(order)}

UnchangedByExport == UNCHANGED <<night, dreams, entries>>

(* DatasetExporter.export: the .tmp file is opened and the entries are read;  *)
(* then one pair after the other is written, unless one of its digest was     *)
(* seen; then the .tmp file takes the place of the corpus.                    *)
StartExport ==
  /\ export.pc = "none" /\ exports < MaxExports
  /\ exports' = exports + 1
  /\ \E order \in Orderings :
       export' = [pc |-> "writing", tmp |-> <<>>, seen |-> {},
                  left |-> FlattenSeq([i \in DOMAIN order |-> entries[order[i]].qa]),
                  from |-> FlattenSeq([i \in DOMAIN order |-> entries[order[i]].qa])]
  /\ UNCHANGED <<corpus, basis>> /\ UnchangedByExport

(* Mutant: repeated pairs are written again.                                  *)
IsNew_Always(pair, seen) == TRUE

IsNew(pair, seen) == Digest[pair] \notin seen

ExportsNext ==
  /\ export.pc = "writing" /\ export.left # <<>>
  /\ LET pair == Head(export.left)
     IN export' = [export EXCEPT
          !.left = Tail(@), !.seen = @ \cup {Digest[pair]},
          !.tmp = IF IsNew(pair, export.seen) THEN Append(@, pair) ELSE @]
  /\ UNCHANGED <<corpus, basis, exports>> /\ UnchangedByExport

ReplacesCorpus ==
  /\ export.pc = "writing" /\ export.left = <<>>
  /\ corpus' = [pairs |-> export.tmp] /\ basis' = export.from
  /\ export' = NoExport
  /\ UNCHANGED exports /\ UnchangedByExport

(* Mutant: the export writes where the corpus is.                             *)
AfterCrash_InPlace(file) == [pairs |-> export.tmp]

(* The process dies while it exports: the .tmp file is left behind, and the   *)
(* next export begins it anew.                                                *)
AfterCrash(file) == file
ExportDies ==
  /\ export.pc = "writing"
  /\ export' = NoExport
  /\ corpus' = AfterCrash(corpus)
  /\ UNCHANGED <<basis, exports>> /\ UnchangedByExport

NightPasses ==
  /\ night < MaxNight /\ night' = night + 1
  /\ UNCHANGED <<dreams, entries, export, corpus, basis, exports>>

DreamInit ==
  /\ night = 1 /\ dreams = [d \in Dreamers |-> Asleep]
  /\ entries = [d \in {} |-> Asleep]
  /\ export = NoExport /\ corpus = NoCorpus /\ basis = <<>> /\ exports = 0

DreamNext ==
  \/ \E d \in Dreamers :
       \/ \E date \in Dates, day \in Days : StartDream(d, date, day)
       \/ Consolidate(d) \/ Discover(d) \/ SavesEntry(d) \/ Abandon(d)
  \/ StartExport \/ ExportsNext \/ ReplacesCorpus \/ ExportDies
  \/ NightPasses

DreamSpec == DreamInit /\ [][DreamNext]_dreamVars
-----------------------------------------------------------------------------
(* Whatever dreams and crashes come between the steps of an export, the       *)
(* corpus on disk is a whole one: of the pairs of the entries its export      *)
(* began with it has the first of every digest, once and in their order, so   *)
(* every pair when no two share one, and none that is blank.                  *)
CorpusIsWhole ==
  corpus # NoCorpus =>
    LET firsts == {i \in DOMAIN basis : \A j \in 1..i - 1 : Digest[basis[j]] # Digest[basis[i]]}
    IN /\ BlankPair \notin {basis[i] : i \in DOMAIN basis}
       /\ Len(corpus.pairs) = Cardinality(firsts)
       /\ \A i \in firsts :
            corpus.pairs[Cardinality({j \in firsts : j <= i})] = basis[i]

-----------------------------------------------------------------------------
\* dream/capability_log.py

CONSTANTS
  Recorders, Capabilities,
  MaxSnapshots    \* bound on the snapshots recorded

VARIABLES
  taken,        \* per recorder: the snapshot it is about to record, if any
  capabilities,   \* the table: name -> the kind and the snapshot it came with
  recorded,       \* the snapshots in the order of their transactions, and
                  \* what record_snapshot returned for each
  clockReads      \* the clock, which each snapshot reads once
capabilityVars == <<taken, capabilities, recorded, clockReads>>

NoSnapshot == [at |-> 0]

TakeSnapshot(r) ==
  /\ taken[r] = NoSnapshot /\ clockReads < MaxSnapshots
  /\ clockReads' = clockReads + 1
  /\ \E tools, skills \in SUBSET Capabilities :
       taken' = [taken EXCEPT ![r] = [at |-> clockReads + 1, tools |-> tools, skills |-> skills]]
  /\ UNCHANGED <<capabilities, recorded>>

(* Mutant: INSERT OR REPLACE.                                                 *)
Inserted_Replacing(table, s) ==
  [c \in DOMAIN table \cup s.tools \cup s.skills |->
     IF c \in s.skills THEN [kind |-> "skill", at |-> s.at]
     ELSE IF c \in s.tools THEN [kind |-> "tool", at |-> s.at] ELSE table[c]]

(* INSERT OR IGNORE, the tools first: a name that is there stays as it is.    *)
Inserted(table, s) ==
  [c \in DOMAIN table \cup s.tools \cup s.skills |->
     IF c \in DOMAIN table THEN table[c]
     ELSE [kind |-> IF c \in s.tools THEN "tool" ELSE "skill", at |-> s.at]]

RecordSnapshot(r) ==
  /\ taken[r] # NoSnapshot
  /\ LET s == taken[r]
         new == (s.tools \cup s.skills) \ DOMAIN capabilities
     IN /\ capabilities' = Inserted(capabilities, s)
        /\ recorded' = Append(recorded, [snapshot |-> s, new |-> Cardinality(new)])
  /\ taken' = [taken EXCEPT ![r] = NoSnapshot] /\ UNCHANGED clockReads

(* The process ends before its transaction commits.                           *)
LosesSnapshot(r) ==
  /\ taken[r] # NoSnapshot
  /\ taken' = [taken EXCEPT ![r] = NoSnapshot]
  /\ UNCHANGED <<capabilities, recorded, clockReads>>

CapabilityInit ==
  /\ taken = [r \in Recorders |-> NoSnapshot]
  /\ capabilities = [c \in {} |-> NoSnapshot] /\ recorded = <<>> /\ clockReads = 0

CapabilityNext == \E r \in Recorders :
  TakeSnapshot(r) \/ RecordSnapshot(r) \/ LosesSnapshot(r)

CapabilitySpec == CapabilityInit /\ [][CapabilityNext]_capabilityVars
-----------------------------------------------------------------------------
(* Whichever order the snapshots of several processes are recorded in, every  *)
(* name listed is in the log with the kind and the time of the first recorded *)
(* snapshot that lists it, and the count each call returned is of the names   *)
(* first listed in its snapshot: each capability was reported as new exactly  *)
(* once.                                                                      *)
Listing(c, log) ==
  {i \in DOMAIN log : c \in log[i].snapshot.tools \cup log[i].snapshot.skills}
FirstsAreKept ==
  /\ DOMAIN capabilities = {c \in Capabilities : Listing(c, recorded) # {}}
  /\ \A c \in DOMAIN capabilities :
       LET first == recorded[Min(Listing(c, recorded))].snapshot
       IN /\ capabilities[c].at = first.at
          /\ capabilities[c].kind = "tool" <=> c \in first.tools
  /\ \A i \in DOMAIN recorded :
       recorded[i].new = Cardinality({c \in DOMAIN capabilities : Min(Listing(c, recorded)) = i})

(* What a night leaves behind: a whole corpus and the first sight of every    *)
(* capability.                                                                *)
NightsAreKept == CorpusIsWhole /\ FirstsAreKept
=============================================================================
