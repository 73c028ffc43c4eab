----------------------------- MODULE MemoryTree -----------------------------
(* memory/tree.py, graph.py and search.py: chunks of text with a vector, PII  *)
(* tags and the sources merged into them, and the graph that is extracted     *)
(* from them. Workers are processes with a connection each; a step is what    *)
(* one transaction does, or what comes back from the model of the extractor.  *)
(* Freshness, confidence and the order of hits are not modelled.              *)
EXTENDS Integers, Sequences

CONSTANTS
  Workers,
  Texts,
  Topic,        \* what a text is about: near duplicates have one topic
  Private,      \* texts with personal data in them
  Edges,        \* edges a text can yield, as pairs of names
  EdgesOf,      \* the edges that the extractor finds in a text
  MaxChunks,    \* bound of the rows ever inserted
  MaxWork,      \* bound of the calls
  NoChunk, NoVector

ASSUME MemoryAssumption ==
  /\ Private \subseteq Texts
  /\ EdgesOf \in [Texts -> SUBSET Edges]
  /\ MaxChunks \in Nat /\ MaxWork \in Nat

VARIABLES
  chunks,       \* rows by id
  nextChunk,    \* AUTOINCREMENT: ids are not used twice
  entities,     \* names in the table entities
  relations,    \* how often an edge is stored with a chunk as provenance
  work,         \* the call each worker is in, and where
  works,        \* number of calls so far; a call is a source to its chunk
  kept,         \* history: source and chunk of each acknowledged ingestion
  crowded,      \* history: chunks whose merges overlapped
  messy,        \* history: chunks whose extraction was disturbed
  leaked        \* history: private text was shown without consent

memoryVars == <<chunks, nextChunk, entities, relations, work, works, kept,
                crowded, messy, leaked>>
treeVars == <<chunks, nextChunk>>
graphVars == <<entities, relations>>

ChunkIds == 1..MaxChunks
Names == UNION {{e[1], e[2]} : e \in Edges}
NoWork == [pc |-> "none"]
Does(w, x) == work' = [work EXCEPT ![w] = x]

Tagged(t) == t \in Private
NewChunk(src, t, v) ==
  [source |-> src, text |-> t, vector |-> v, tags |-> Tagged(t), done |-> FALSE,
   merged |-> <<>>]

(* The tags of the previous text stay (mutant).                               *)
RewrittenWithOldTags(row, t, v) == [row EXCEPT !.text = t, !.vector = v]

(* update_chunk: the tags follow the text, the vector only when it is given.  *)
Rewritten(row, t, v) ==
  [row EXCEPT !.text = t, !.vector = v, !.tags = Tagged(t)]

(* get_chunk shows a notice in place of the text of a tagged row, unless the  *)
(* caller has consent.                                                        *)
Shown(row, consent) == consent \/ ~row.tags

Exposed(row, consent) == Shown(row, consent) /\ ~consent /\ row.text \in Private

(* The entry replaces the list (mutant).                                      *)
MergedOnly(list, src) == <<src>>

MergedWith(list, src) == Append(list, src)

(* Every chunk is pending, again and again (mutant).                          *)
AllPending == {c \in ChunkIds : chunks[c] # NoChunk}

(* chunks_pending_extraction                                                  *)
PendingExtraction == {c \in ChunkIds : chunks[c] # NoChunk /\ ~chunks[c].done}

(* What the extractor is shown of a chunk are its edges, or a notice.         *)
Seen(row) == IF Shown(row, FALSE) THEN EdgesOf[row.text] ELSE {}

Sources(row) == {row.source} \cup {row.merged[i] : i \in DOMAIN row.merged}

-----------------------------------------------------------------------------

TakesUp(w) ==
  /\ work[w] = NoWork
  /\ works < MaxWork
  /\ works' = works + 1

InsertRow(src, t, v) ==
  /\ nextChunk <= MaxChunks
  /\ chunks' = [chunks EXCEPT ![nextChunk] = NewChunk(src, t, v)]
  /\ nextChunk' = nextChunk + 1
  /\ kept' = kept \cup {<<src, nextChunk>>}

AddChunk(w, t, v) ==
  /\ TakesUp(w)
  /\ InsertRow(works, t, v)
  /\ UNCHANGED <<graphVars, work, crowded, messy, leaked>>

(* add_or_merge_chunk: the nearest row, if it is near enough.                 *)
FindNearDuplicate(w, t) ==
  LET near == {c \in ChunkIds : chunks[c] # NoChunk /\ chunks[c].vector = Topic[t]} IN
  /\ TakesUp(w)
  /\ \/ /\ near = {}
        /\ Does(w, [pc |-> "insert", source |-> works, text |-> t])
     \/ \E c \in near : Does(w, [pc |-> "read", source |-> works, chunk |-> c])
  /\ UNCHANGED <<treeVars, graphVars, kept, crowded, messy, leaked>>

AddUnmatched(w) ==
  /\ work[w].pc = "insert"
  /\ InsertRow(work[w].source, work[w].text, Topic[work[w].text])
  /\ Does(w, NoWork)
  /\ UNCHANGED <<graphVars, works, crowded, messy, leaked>>

(* The list is read; the row of the match may be gone, which raises.          *)
ReadMerged(w) ==
  LET c == work[w].chunk IN
  /\ work[w].pc = "read"
  /\ IF chunks[c] = NoChunk
     THEN Does(w, NoWork) /\ UNCHANGED crowded
     ELSE /\ Does(w, [pc |-> "merge", source |-> work[w].source, chunk |-> c,
                      list |-> chunks[c].merged])
          /\ crowded' = IF \E v \in Workers : work[v].pc = "merge" /\ work[v].chunk = c
                        THEN crowded \cup {c} ELSE crowded
  /\ UNCHANGED <<treeVars, graphVars, works, kept, messy, leaked>>

WriteMerged(w) ==
  LET c == work[w].chunk IN
  /\ work[w].pc = "merge"
  /\ chunks' = IF chunks[c] = NoChunk THEN chunks
               ELSE [chunks EXCEPT ![c].merged =
                       MergedWith(work[w].list, work[w].source)]
  /\ kept' = kept \cup {<<work[w].source, c>>}
  /\ Does(w, NoWork)
  /\ UNCHANGED <<nextChunk, graphVars, works, crowded, messy, leaked>>

(* What was extracted from the old text stays.                                *)
UpdateChunk(w, c, t, embed) ==
  /\ TakesUp(w)
  /\ chunks[c] # NoChunk
  /\ chunks' = [chunks EXCEPT ![c] =
                  Rewritten(@, t, IF embed THEN Topic[t] ELSE @.vector)]
  /\ messy' = messy \cup {c}
  /\ UNCHANGED <<nextChunk, graphVars, work, kept, crowded, leaked>>

(* The relations of the chunk stay as well.                                   *)
DeleteChunk(w, c) ==
  /\ TakesUp(w)
  /\ chunks[c] # NoChunk
  /\ chunks' = [chunks EXCEPT ![c] = NoChunk]
  /\ UNCHANGED <<nextChunk, graphVars, work, kept, crowded, messy, leaked>>

(* The chunks a backfill has yet to finish.                                   *)
InHand(w) ==
  CASE work[w].pc = "next" -> work[w].queue
    [] work[w].pc \in {"extract", "write"} -> work[w].queue \cup {work[w].chunk}
    [] OTHER -> {}

(* backfill: the ids are read once, and taken in their order.                 *)
Backfill(w) ==
  LET ids == PendingExtraction IN
  /\ TakesUp(w)
  /\ Does(w, [pc |-> "next", queue |-> ids])
  /\ messy' = messy \cup (ids \cap UNION {InHand(v) : v \in Workers})
  /\ UNCHANGED <<treeVars, graphVars, kept, crowded, leaked>>

(* extract_and_persist reads the chunk without consent and asks the           *)
(* extractor. A chunk that is gone is skipped.                                *)
TakeChunk(w) ==
  LET q == work[w].queue
      c == CHOOSE x \in q : \A y \in q : x <= y IN
  /\ work[w].pc = "next" /\ q # {}
  /\ IF chunks[c] = NoChunk
     THEN Does(w, [pc |-> "next", queue |-> q \ {c}]) /\ UNCHANGED leaked
     ELSE /\ Does(w, [pc |-> "extract", queue |-> q \ {c}, chunk |-> c,
                      edges |-> Seen(chunks[c])])
          /\ leaked' = (leaked \/ Exposed(chunks[c], FALSE))
  /\ UNCHANGED <<treeVars, graphVars, works, kept, crowded, messy>>

BackfillEnds(w) ==
  /\ work[w].pc = "next" /\ work[w].queue = {}
  /\ Does(w, NoWork)
  /\ UNCHANGED <<treeVars, graphVars, works, kept, crowded, messy, leaked>>

(* The extractor answers, or fails and the chunk stays pending.               *)
ExtractorReplies(w) ==
  /\ work[w].pc = "extract"
  /\ Does(w, [pc |-> "write", queue |-> work[w].queue, chunk |-> work[w].chunk,
              edges |-> work[w].edges, written |-> FALSE])
  /\ UNCHANGED <<treeVars, graphVars, works, kept, crowded, messy, leaked>>

Skip(w) ==
  /\ work[w].pc \in {"extract", "write"}
  /\ Does(w, [pc |-> "next", queue |-> work[w].queue])
  /\ messy' = IF work[w].pc = "write" /\ work[w].written
              THEN messy \cup {work[w].chunk} ELSE messy
  /\ UNCHANGED <<treeVars, graphVars, works, kept, crowded, leaked>>

(* add_relation, which upserts the two names. Two workers that insert one     *)
(* name at once are a failure (Skip) of one of them.                          *)
AddRelation(w) ==
  /\ work[w].pc = "write"
  /\ \E e \in work[w].edges :
       /\ entities' = entities \cup {e[1], e[2]}
       /\ relations' = [relations EXCEPT ![<<e, work[w].chunk>>] = @ + 1]
       /\ Does(w, [work[w] EXCEPT !.edges = @ \ {e}, !.written = TRUE])
  /\ UNCHANGED <<treeVars, works, kept, crowded, messy, leaked>>

(* mark_extracted comes last.                                                 *)
MarkExtracted(w) ==
  LET c == work[w].chunk IN
  /\ work[w].pc = "write" /\ work[w].edges = {}
  /\ chunks' = IF chunks[c] = NoChunk THEN chunks
               ELSE [chunks EXCEPT ![c].done = TRUE]
  /\ Does(w, [pc |-> "next", queue |-> work[w].queue])
  /\ UNCHANGED <<nextChunk, graphVars, works, kept, crowded, messy, leaked>>

(* hybrid_search ranks ids, and reads each hit again in _hydrate.             *)
Rank(w, c, consent) ==
  /\ TakesUp(w)
  /\ chunks[c] # NoChunk
  /\ Does(w, [pc |-> "hydrate", chunk |-> c, consent |-> consent])
  /\ UNCHANGED <<treeVars, graphVars, kept, crowded, messy, leaked>>

Hydrate(w) ==
  LET c == work[w].chunk IN
  /\ work[w].pc = "hydrate"
  /\ leaked' = (leaked \/ (chunks[c] # NoChunk /\ Exposed(chunks[c], work[w].consent)))
  /\ Does(w, NoWork)
  /\ UNCHANGED <<treeVars, graphVars, works, kept, crowded, messy>>

WorkerDies(w) ==
  /\ work[w] # NoWork
  /\ Does(w, NoWork)
  /\ messy' = IF work[w].pc = "write" /\ work[w].written
              THEN messy \cup {work[w].chunk} ELSE messy
  /\ UNCHANGED <<treeVars, graphVars, works, kept, crowded, leaked>>

MemoryInit ==
  /\ chunks = [c \in ChunkIds |-> NoChunk]
  /\ nextChunk = 1
  /\ entities = {}
  /\ relations = [p \in Edges \X ChunkIds |-> 0]
  /\ work = [w \in Workers |-> NoWork]
  /\ works = 0
  /\ kept = {} /\ crowded = {} /\ messy = {}
  /\ leaked = FALSE

MemoryNext ==
  \E w \in Workers :
    \/ \E t \in Texts :
         \/ \E v \in {Topic[t], NoVector} : AddChunk(w, t, v)
         \/ FindNearDuplicate(w, t)
         \/ \E c \in ChunkIds, embed \in BOOLEAN : UpdateChunk(w, c, t, embed)
    \/ \E c \in ChunkIds :
         \/ DeleteChunk(w, c)
         \/ \E consent \in BOOLEAN : Rank(w, c, consent)
    \/ AddUnmatched(w) \/ ReadMerged(w) \/ WriteMerged(w)
    \/ Backfill(w) \/ TakeChunk(w) \/ BackfillEnds(w) \/ ExtractorReplies(w)
    \/ Skip(w) \/ AddRelation(w) \/ MarkExtracted(w)
    \/ Hydrate(w) \/ WorkerDies(w)

MemorySpec == MemoryInit /\ [][MemoryNext]_memoryVars

-----------------------------------------------------------------------------

MemoryTypes ==
  /\ nextChunk \in 1..MaxChunks + 1
  /\ \A c \in ChunkIds : chunks[c] # NoChunk =>
       /\ c < nextChunk
       /\ chunks[c].text \in Texts /\ chunks[c].source \in 0..MaxWork
       /\ chunks[c].tags \in BOOLEAN /\ chunks[c].done \in BOOLEAN
       /\ chunks[c].vector \in {Topic[t] : t \in Texts} \cup {NoVector}
  /\ entities \subseteq Names
  /\ relations \in [Edges \X ChunkIds -> 0..MaxWork]
  /\ works \in 0..MaxWork

(* No ingestion is forgotten: the chunk that add_chunk or add_or_merge_chunk  *)
(* returned names its source, until it is deleted. Two workers that merge     *)
(* into one chunk at once are excused.                                        *)
ProvenanceIsKept ==
  \A k \in kept : k[2] \in crowded \/ chunks[k[2]] = NoChunk
                  \/ k[1] \in Sources(chunks[k[2]])

(* Backfill may be repeated ("Idempotent across runs", graph.py:297): a chunk *)
(* that is marked has each of its edges once, one that is pending has none.   *)
(* Excused are chunks that were updated, extracted by two workers at once, or *)
(* left with a part of their edges by a failure or a death.                   *)
GraphIsExact ==
  \A c \in ChunkIds \ messy :
    chunks[c] # NoChunk /\ ~(\E w \in Workers : work[w].pc = "write" /\ work[w].chunk = c)
    => \A e \in Edges :
         relations[<<e, c>>] =
           IF chunks[c].done /\ e \in Seen(chunks[c]) THEN 1 ELSE 0

(* What is known about a chunk is what happened: where it came from, and the  *)
(* edges of its text.                                                         *)
MemoryIsExact == ProvenanceIsKept /\ GraphIsExact

(* Nobody is shown private text without consent: neither a search nor the     *)
(* extractor, whatever was updated between the ranking and the reading.       *)
NothingPrivateLeaks == ~leaked
=============================================================================
