----------------------------- MODULE MemoryProofs -----------------------------
(* Proofs about what the agent remembers, is shown and makes: chunks and      *)
(* their graph, the files that mirror them, compaction, and the tools it      *)
(* writes. Every part states its inductive invariant first, then what each    *)
(* step does to it.                                                           *)
EXTENDS StoreProofs, MCStores, FiniteSetTheorems, WellFoundedInduction, TLAPS

-----------------------------------------------------------------------------
\* Chunks and their graph

(* What a row is made of.                                                     *)
Vectors == {Topic[t] : t \in Texts} \cup {NoVector}
Rows == [source : 0..MaxWork, text : Texts, vector : Vectors, tags : BOOLEAN,
         done : BOOLEAN, merged : Seq(0..MaxWork)]
Grips == {"next", "extract", "write"}
(* What is known of a worker by where it is.                                  *)
WorkIs(x) ==
  /\ x.pc = "insert" => x.text \in Texts
  /\ x.pc \in {"insert", "read", "merge"} => x.source \in 0..MaxWork
  /\ x.pc \in {"read", "merge", "extract", "write", "hydrate"} =>
       x.chunk \in ChunkIds /\ x.chunk < nextChunk
  /\ x.pc = "merge" => x.list \in Seq(0..MaxWork)
  /\ x.pc \in Grips => x.queue \subseteq ChunkIds /\ \A c \in x.queue : c < nextChunk
  /\ x.pc \in {"extract", "write"} => x.chunk \notin x.queue /\ x.edges \subseteq Edges
  /\ x.pc = "write" =>
       x = [pc |-> "write", queue |-> x.queue, chunk |-> x.chunk, edges |-> x.edges,
            written |-> x.written]
(* The rows, the numbers handed out and the tags.                             *)
MemoryShape ==
  /\ chunks \in [ChunkIds -> Rows \cup {NoChunk}]
  /\ nextChunk \in 1..MaxChunks + 1 /\ works \in 0..MaxWork
  /\ \A c \in ChunkIds : chunks[c] # NoChunk =>
       c < nextChunk /\ (chunks[c].tags <=> chunks[c].text \in Private)
  /\ relations \in [Edges \X ChunkIds -> Nat]
  /\ DOMAIN work = Workers /\ \A w \in Workers : WorkIs(work[w])

(* Whoever merges into a chunk that is not crowded is alone, and has its list.*)
Merging(w, c) == work[w].pc = "merge" /\ work[w].chunk = c
Provenance ==
  /\ \A k \in kept : k[2] \in ChunkIds /\ k[2] < nextChunk
  /\ \A c \in ChunkIds \ crowded :
       /\ \A v, w \in Workers : Merging(v, c) /\ Merging(w, c) => v = w
       /\ \A w \in Workers : Merging(w, c) /\ chunks[c] # NoChunk => work[w].list = chunks[c].merged
  /\ ProvenanceIsKept

(* A chunk that is not messy is in the hands of one worker, who has the edges *)
(* that are not stored yet; or of none, and has all or nothing.               *)
Holding(w, c) ==
  \/ work[w].pc \in Grips /\ c \in work[w].queue
  \/ work[w].pc \in {"extract", "write"} /\ work[w].chunk = c
Taken(w, c) == work[w].pc \in {"extract", "write"} /\ work[w].chunk = c
WritingGraph(w, c) == work[w].pc = "write" /\ work[w].chunk = c
ChunkGraph(c) ==
  /\ \A v, w \in Workers : Holding(v, c) /\ Holding(w, c) => v = w
  /\ \A w \in Workers : Holding(w, c) => ~chunks[c].done
  /\ \A w \in Workers : Taken(w, c) => work[w].edges \subseteq Seen(chunks[c])
  /\ \A w \in Workers : Taken(w, c) /\ (WritingGraph(w, c) => ~work[w].written) =>
       work[w].edges = Seen(chunks[c])
  /\ \A w \in Workers : WritingGraph(w, c) =>
       \A e \in Edges : relations[<<e, c>>] = IF e \in Seen(chunks[c]) \ work[w].edges THEN 1 ELSE 0
  /\ (\A w \in Workers : ~WritingGraph(w, c)) =>
       \A e \in Edges : relations[<<e, c>>] = IF chunks[c].done /\ e \in Seen(chunks[c]) THEN 1 ELSE 0
GraphOk ==
  /\ \A c \in ChunkIds : nextChunk <= c => \A e \in Edges : relations[<<e, c>>] = 0
  /\ \A c \in ChunkIds \ messy : chunks[c] # NoChunk => ChunkGraph(c)
MemoryInv == MemoryShape /\ Provenance /\ GraphOk /\ leaked = FALSE

(* The two ways to say that a backfill has a chunk.                           *)
LEMMA InHandIs ==
  ASSUME NEW w \in Workers, NEW c
  PROVE  c \in InHand(w) <=> Holding(w, c)
BY DEF InHand, Holding, Grips

(* A set of chunks has a first one: the row the queries order by id begin     *)
(* with.                                                                      *)
LEMMA LeastOf ==
  ASSUME NEW S \in SUBSET ChunkIds, S # {}
  PROVE  (CHOOSE x \in S : \A y \in S : x <= y) \in S
<1>1. S \in SUBSET Nat
  BY MemoryAssumption DEF ChunkIds
<1>2. PICK m \in S : \A y \in S : ~(<<y, m>> \in OpToRel(<, Nat))
  BY <1>1, NatLessThanWellFounded, WFMin
<1>3. \A y \in S : ~(y < m)
  BY <1>1, <1>2 DEF OpToRel
<1>4. \A y \in S : m <= y
  BY <1>1, <1>3
<1> QED
  BY <1>4

(* One worker goes on, the others stay.                                       *)
LEMMA DoesFacts ==
  ASSUME MemoryShape, NEW w \in Workers, NEW x, Does(w, x)
  PROVE  work'[w] = x /\ DOMAIN work' = Workers /\ \A v \in Workers \ {w} : work'[v] = work[v]
BY DEF Does, MemoryShape

(* What is below a number is below a greater one.                             *)
LEMMA BelowStays ==
  ASSUME NEW m \in Int, NEW n \in Int, m <= n
  PROVE  \A c \in Int : c < m => c < n
OBVIOUS

(* Shape: what a step does to the rows and to the work.                       *)
LEMMA ShapeKeeps ==
  ASSUME MemoryShape, nextChunk' \in 1..MaxChunks + 1, nextChunk <= nextChunk',
         works' \in 0..MaxWork,
         chunks' \in [ChunkIds -> Rows \cup {NoChunk}],
         \A c \in ChunkIds : chunks'[c] # NoChunk =>
            \/ chunks[c] # NoChunk /\ chunks'[c].tags = chunks[c].tags /\ chunks'[c].text = chunks[c].text
            \/ c < nextChunk' /\ (chunks'[c].tags <=> chunks'[c].text \in Private),
         relations' \in [Edges \X ChunkIds -> Nat],
         DOMAIN work' = Workers, \A w \in Workers : work'[w] = work[w] \/ WorkIs(work[w])'
  PROVE  MemoryShape'
<1>1. MaxChunks \in Nat /\ ChunkIds \subseteq Int /\ nextChunk \in Int /\ nextChunk' \in Int
  <2>1. MaxChunks \in Nat
    BY MemoryAssumption
  <2>2. ChunkIds \subseteq Int
    BY <2>1 DEF ChunkIds
  <2>3. nextChunk \in Int
    BY <2>1 DEF MemoryShape
  <2>4. nextChunk' \in Int
    BY <2>1
  <2> QED
    BY <2>1, <2>2, <2>3, <2>4
<1>2. \A c \in ChunkIds : c < nextChunk => c < nextChunk'
  BY <1>1, BelowStays
<1>3. \A w \in Workers : WorkIs(work[w])'
  <2> SUFFICES ASSUME NEW w \in Workers, work'[w] = work[w] PROVE WorkIs(work[w])'
    OBVIOUS
  <2>1. WorkIs(work[w])
    BY DEF MemoryShape
  <2> QED
    BY <1>2, <2>1 DEF WorkIs
<1>4. \A c \in ChunkIds : chunks'[c] # NoChunk => c < nextChunk' /\ (chunks'[c].tags <=> chunks'[c].text \in Private)
  BY <1>2 DEF MemoryShape
<1> QED
  BY <1>3, <1>4 DEF MemoryShape

(* A step which leaves the merges alone.                                      *)
LEMMA ProvenanceKeeps ==
  ASSUME MemoryShape, Provenance, nextChunk' \in Int, nextChunk <= nextChunk',
         crowded' = crowded, kept' = kept,
         \A c \in ChunkIds : c < nextChunk /\ chunks'[c] # NoChunk =>
            chunks[c] # NoChunk /\ chunks'[c].source = chunks[c].source /\ chunks'[c].merged = chunks[c].merged,
         \A w \in Workers : work'[w] = work[w] \/ work'[w].pc # "merge"
  PROVE  Provenance'
<1>1. ChunkIds \subseteq Int /\ nextChunk \in Int
  BY MemoryAssumption DEF ChunkIds, MemoryShape
<1>2. \A w \in Workers, c \in ChunkIds : Merging(w, c)' => Merging(w, c) /\ work'[w] = work[w] /\ c < nextChunk
  BY DEF Merging, MemoryShape, WorkIs
<1>3. \A k \in kept : k[2] \in ChunkIds /\ k[2] < nextChunk /\ k[2] < nextChunk'
  <2>1. \A c \in ChunkIds : c < nextChunk => c < nextChunk'
    BY <1>1
  <2> QED
    BY <2>1 DEF Provenance
<1>4. \A c \in ChunkIds \ crowded' :
       /\ \A v, w \in Workers : Merging(v, c)' /\ Merging(w, c)' => v = w
       /\ \A w \in Workers : Merging(w, c)' /\ chunks'[c] # NoChunk => work'[w].list = chunks'[c].merged
  BY <1>2 DEF Provenance
<1>5. ProvenanceIsKept'
  <2> SUFFICES ASSUME NEW k \in kept, k[2] \notin crowded, chunks'[k[2]] # NoChunk
               PROVE  k[1] \in Sources(chunks'[k[2]])
    BY DEF ProvenanceIsKept
  <2> DEFINE c == k[2]
  <2>1. /\ chunks[c] # NoChunk /\ chunks'[c].source = chunks[c].source
        /\ chunks'[c].merged = chunks[c].merged /\ k[1] \in Sources(chunks[c])
    BY <1>3 DEF Provenance, ProvenanceIsKept
  <2> QED
    BY <2>1 DEF Sources
<1> QED
  BY <1>3, <1>4, <1>5 DEF Provenance

(* A step of which the graph of one chunk notices nothing.                    *)
LEMMA ChunkGraphKeeps ==
  ASSUME NEW c \in ChunkIds, ChunkGraph(c),
         chunks'[c].done = chunks[c].done, Seen(chunks'[c]) = Seen(chunks[c]),
         \A e \in Edges : relations'[<<e, c>>] = relations[<<e, c>>],
         \A v \in Workers : /\ Holding(v, c)' => Holding(v, c)
                            /\ Taken(v, c)' => work'[v] = work[v]
                            /\ WritingGraph(v, c) => work'[v] = work[v]
  PROVE  ChunkGraph(c)'
<1>1. \A v \in Workers : (Taken(v, c)' => Taken(v, c)) /\ (WritingGraph(v, c)' <=> WritingGraph(v, c)) /\ (WritingGraph(v, c) => work'[v] = work[v])
  BY DEF Taken, WritingGraph
<1> QED
  BY <1>1 DEF ChunkGraph

(* A step that has nothing to do with the graph.                              *)
LEMMA GraphKeeps ==
  ASSUME MemoryShape, GraphOk, relations' = relations, messy \subseteq messy',
         nextChunk' \in Int, nextChunk <= nextChunk',
         \A c \in ChunkIds \ messy' : chunks'[c] # NoChunk =>
            \/ c < nextChunk /\ chunks[c] # NoChunk /\ chunks'[c].done = chunks[c].done
               /\ chunks'[c].text = chunks[c].text /\ chunks'[c].tags = chunks[c].tags
            \/ nextChunk <= c /\ chunks'[c].done = FALSE,
         \A w \in Workers : work'[w] = work[w] \/ (work[w].pc \notin Grips /\ work'[w].pc \notin Grips)
  PROVE  GraphOk'
<1>1. ChunkIds \subseteq Int /\ nextChunk \in Int
  BY MemoryAssumption DEF ChunkIds, MemoryShape
<1>2. \A c \in ChunkIds : nextChunk' <= c => \A e \in Edges : relations'[<<e, c>>] = 0
  <2>1. \A c \in ChunkIds : nextChunk' <= c => nextChunk <= c
    BY <1>1
  <2> QED
    BY <2>1 DEF GraphOk
<1>3. \A w \in Workers, c \in ChunkIds :
        /\ Holding(w, c)' => Holding(w, c)
        /\ Taken(w, c)' => work'[w] = work[w]
        /\ WritingGraph(w, c) => work'[w] = work[w]
        /\ WritingGraph(w, c)' => WritingGraph(w, c)
        /\ Taken(w, c)' => Holding(w, c)
  BY DEF Holding, Taken, WritingGraph, Grips
<1>4. ASSUME NEW c \in ChunkIds \ messy', chunks'[c] # NoChunk PROVE ChunkGraph(c)'
  <2>1. CASE c < nextChunk /\ chunks[c] # NoChunk /\ chunks'[c].done = chunks[c].done
               /\ chunks'[c].text = chunks[c].text /\ chunks'[c].tags = chunks[c].tags
    <3>1. ChunkGraph(c)
      BY <2>1 DEF GraphOk
    <3>2. Seen(chunks'[c]) = Seen(chunks[c])
      BY <2>1 DEF Seen, Shown
    <3> QED
      BY <1>3, <2>1, <3>1, <3>2, ChunkGraphKeeps
  <2>2. CASE nextChunk <= c /\ chunks'[c].done = FALSE
    <3>1. \A w \in Workers : ~Holding(w, c)
      <4> SUFFICES ASSUME NEW w \in Workers PROVE ~Holding(w, c)
        OBVIOUS
      <4>1. ~(c < nextChunk) /\ WorkIs(work[w])
        BY <1>1, <2>2 DEF MemoryShape
      <4> QED
        BY <4>1 DEF WorkIs, Holding, Grips
    <3>2. \A w \in Workers : ~WritingGraph(w, c)' /\ ~Taken(w, c)' /\ ~Holding(w, c)'
      BY <1>3, <3>1 DEF WritingGraph, Holding, Taken
    <3>3. \A e \in Edges : relations'[<<e, c>>] = 0
      BY <2>2 DEF GraphOk
    <3> QED
      BY <2>2, <3>2, <3>3 DEF ChunkGraph
  <2> QED
    BY <1>4, <2>1, <2>2
<1> QED
  BY <1>2, <1>4 DEF GraphOk

(* A new row is well-formed, and its tags say what its text is.               *)
LEMMA NewChunkIsRow ==
  ASSUME NEW src \in 0..MaxWork, NEW t \in Texts, NEW v \in Vectors
  PROVE  /\ NewChunk(src, t, v) \in Rows /\ NewChunk(src, t, v).done = FALSE
         /\ NewChunk(src, t, v).tags <=> NewChunk(src, t, v).text \in Private
         /\ src \in Sources(NewChunk(src, t, v))
<1>1. <<>> \in Seq(0..MaxWork)
  OBVIOUS
<1>2. Tagged(t) \in BOOLEAN /\ (Tagged(t) <=> t \in Private)
  BY DEF Tagged
<1> QED
  BY <1>1, <1>2 DEF NewChunk, Rows, Sources

(* A row is inserted: nobody knows its number yet.                            *)
LEMMA InsertKeeps ==
  ASSUME MemoryInv, NEW src \in 0..MaxWork, NEW t \in Texts, NEW v \in Vectors,
         InsertRow(src, t, v), NEW w \in Workers,
         work' = work \/ (Does(w, NoWork) /\ work[w].pc = "insert"),
         works' \in 0..MaxWork, UNCHANGED <<graphVars, crowded, messy, leaked>>
  PROVE  MemoryInv'
<1> DEFINE n == nextChunk
           x == NewChunk(src, t, v)
<1>1. /\ MemoryShape /\ MaxChunks \in Nat /\ n \in 1..MaxChunks + 1 /\ n <= MaxChunks /\ n \in ChunkIds
      /\ nextChunk' = n + 1 /\ kept' = kept \cup {<<src, n>>} /\ relations' = relations
      /\ chunks' = [chunks EXCEPT ![n] = x] /\ chunks \in [ChunkIds -> Rows \cup {NoChunk}]
      /\ relations \in [Edges \X ChunkIds -> Nat] /\ DOMAIN work = Workers
  BY MemoryAssumption DEF MemoryInv, MemoryShape, InsertRow, graphVars, ChunkIds
<1>2. x \in Rows /\ x.done = FALSE /\ (x.tags <=> x.text \in Private) /\ src \in Sources(x)
  BY NewChunkIsRow
<1> HIDE DEF x, n
<1>3. /\ chunks' \in [ChunkIds -> Rows \cup {NoChunk}] /\ chunks'[n] = x
      /\ \A c \in ChunkIds \ {n} : chunks'[c] = chunks[c]
  BY <1>1, <1>2
<1>4. nextChunk' \in 1..MaxChunks + 1 /\ n <= nextChunk' /\ n < nextChunk' /\ n <= n /\ nextChunk' \in Int
  BY <1>1
<1>5. /\ DOMAIN work' = Workers
      /\ \A u \in Workers : work'[u] = work[u] \/ (work'[u].pc = "none" /\ work[u].pc = "insert")
  BY <1>1, DoesFacts DEF NoWork
<1>6. \A u \in Workers : work'[u] = work[u] \/ WorkIs(work[u])'
  BY <1>5 DEF WorkIs, Grips
<1>7. MemoryShape'
  BY <1>1, <1>2, <1>3, <1>4, <1>5, <1>6, ShapeKeeps DEF n
<1>8. GraphOk'
  <2>1. \A c \in ChunkIds : chunks'[c] # NoChunk => (c # n /\ chunks'[c] = chunks[c] /\ c < n) \/ (c = n /\ chunks'[c].done = FALSE)
    BY <1>1, <1>2, <1>3 DEF MemoryShape, n
  <2>2. \A u \in Workers : work'[u] = work[u] \/ (work[u].pc \notin Grips /\ work'[u].pc \notin Grips)
    BY <1>5 DEF Grips
  <2> QED
    BY <1>1, <1>4, <2>1, <2>2, GraphKeeps DEF MemoryInv, n
<1>9. Provenance'
  <2>1. \A k \in kept : k[2] \in ChunkIds /\ k[2] < n /\ k[2] # n /\ k[2] < nextChunk'
    <3>1. ChunkIds \subseteq Int /\ n \in Int
      BY <1>1 DEF ChunkIds
    <3> QED
      <4>1. \A c \in ChunkIds : c < n => c # n /\ c < nextChunk'
        <5>1. nextChunk' = n + 1
          BY <1>1
        <5> QED
          BY <3>1, <5>1
      <4>2. \A k \in kept : k[2] \in ChunkIds /\ k[2] < n
        BY DEF MemoryInv, Provenance, n
      <4> QED
        BY <4>1, <4>2
  <2>2. \A u \in Workers, c \in ChunkIds : Merging(u, c)' => Merging(u, c) /\ work'[u] = work[u] /\ c # n
    <3> SUFFICES ASSUME NEW u \in Workers, NEW c \in ChunkIds, Merging(u, c)'
                 PROVE  Merging(u, c) /\ work'[u] = work[u] /\ c # n
      OBVIOUS
    <3>1. Merging(u, c) /\ work'[u] = work[u]
      BY <1>5 DEF Merging
    <3>2. c < n
      BY <1>1, <3>1 DEF Merging, MemoryShape, WorkIs, n
    <3> QED
      BY <1>1, <3>1, <3>2
  <2>3. \A c \in ChunkIds \ crowded' :
       /\ \A u, z \in Workers : Merging(u, c)' /\ Merging(z, c)' => u = z
       /\ \A u \in Workers : Merging(u, c)' /\ chunks'[c] # NoChunk => work'[u].list = chunks'[c].merged
    BY <1>3, <2>2 DEF MemoryInv, Provenance
  <2>4. ProvenanceIsKept'
    <3>1. \A k \in kept : chunks'[k[2]] = chunks[k[2]]
      BY <1>3, <2>1
    <3> QED
      BY <1>1, <1>2, <1>3, <3>1 DEF MemoryInv, Provenance, ProvenanceIsKept
  <2>5. \A k \in kept' : k[2] \in ChunkIds /\ k[2] < nextChunk'
    BY <1>1, <1>4, <2>1
  <2> QED
    BY <2>3, <2>4, <2>5 DEF Provenance
<1> QED
  BY <1>7, <1>8, <1>9 DEF MemoryInv

(* The ranking shows no private row.                                          *)
LEMMA ExposesNothing ==
  ASSUME MemoryShape, NEW c \in ChunkIds, chunks[c] # NoChunk, NEW consent \in BOOLEAN
  PROVE  ~Exposed(chunks[c], consent)
BY DEF MemoryShape, Exposed, Shown

(* A step that neither adds a source nor touches the graph.                   *)
LEMMA PlainKeeps ==
  ASSUME MemoryInv, UNCHANGED <<nextChunk, relations, kept, crowded, leaked>>,
         works' \in 0..MaxWork, messy \subseteq messy',
         chunks' \in [ChunkIds -> Rows \cup {NoChunk}],
         \A c \in ChunkIds : chunks'[c] # NoChunk =>
            /\ chunks[c] # NoChunk /\ chunks'[c].source = chunks[c].source
            /\ chunks'[c].merged = chunks[c].merged
            /\ chunks'[c].tags <=> chunks'[c].text \in Private,
         \A c \in ChunkIds \ messy' : chunks'[c] # NoChunk =>
            /\ chunks'[c].done = chunks[c].done
            /\ chunks'[c].text = chunks[c].text /\ chunks'[c].tags = chunks[c].tags,
         DOMAIN work' = Workers,
         \A w \in Workers :
            \/ work'[w] = work[w]
            \/ /\ work[w].pc \notin Grips /\ work'[w].pc \notin Grips
               /\ work'[w].pc # "merge" /\ WorkIs(work[w])'
  PROVE  MemoryInv'
<1>1. MemoryShape /\ nextChunk \in 1..MaxChunks + 1 /\ nextChunk \in Int /\ nextChunk <= nextChunk'
      /\ \A c \in ChunkIds : chunks[c] # NoChunk => c < nextChunk
  BY MemoryAssumption DEF MemoryInv, MemoryShape
<1>2. MemoryShape'
  BY <1>1, ShapeKeeps DEF MemoryInv, MemoryShape
<1>3. Provenance'
  BY <1>1, ProvenanceKeeps DEF MemoryInv
<1>4. GraphOk'
  BY <1>1, GraphKeeps DEF MemoryInv
<1> QED
  BY <1>2, <1>3, <1>4 DEF MemoryInv

(* A worker takes up a call.                                                  *)
LEMMA TakesUpFacts ==
  ASSUME MemoryInv, NEW w \in Workers, TakesUp(w)
  PROVE  work[w].pc = "none" /\ works \in 0..MaxWork /\ works' \in 0..MaxWork
BY MemoryAssumption DEF MemoryInv, MemoryShape, TakesUp, NoWork

(* An updated row keeps its sources, and its tags follow the new text.        *)
LEMMA RewrittenFacts ==
  ASSUME NEW row \in Rows, NEW t \in Texts, NEW v \in Vectors
  PROVE  LET x == Rewritten(row, t, v) IN
         /\ x \in Rows /\ x.source = row.source /\ x.merged = row.merged /\ x.text = t
         /\ x.tags <=> t \in Private
<1> DEFINE b == Tagged(t)
           x == [row EXCEPT !.text = t, !.vector = v, !.tags = b]
<1>1. b \in BOOLEAN /\ (b <=> t \in Private)
  BY DEF Tagged
<1>2. Rewritten(row, t, v) = x
  BY DEF Rewritten
<1> HIDE DEF b
<1>3. x \in Rows
  BY <1>1 DEF Rows
<1>4. x.source = row.source /\ x.merged = row.merged /\ x.text = t
  BY DEF Rows
<1>5. x.tags = b
  BY DEF Rows
<1> HIDE DEF x
<1> QED
  BY <1>1, <1>2, <1>3, <1>4, <1>5

(* The rows are updated, deleted, ranked and read.                            *)
LEMMA RowsKeep ==
  ASSUME MemoryInv, NEW w \in Workers, NEW c \in ChunkIds,
         \/ \E t \in Texts, embed \in BOOLEAN : UpdateChunk(w, c, t, embed)
         \/ DeleteChunk(w, c)
         \/ \E consent \in BOOLEAN : Rank(w, c, consent)
  PROVE  MemoryInv'
<1>1. /\ MemoryShape /\ work[w].pc = "none" /\ works' \in 0..MaxWork /\ chunks[c] # NoChunk
      /\ chunks \in [ChunkIds -> Rows \cup {NoChunk}] /\ chunks[c] \in Rows /\ DOMAIN work = Workers
      /\ UNCHANGED <<nextChunk, relations, kept, crowded, leaked>> /\ c < nextChunk
      /\ \A d \in ChunkIds : chunks[d] # NoChunk => (chunks[d].tags <=> chunks[d].text \in Private)
  BY TakesUpFacts DEF MemoryInv, MemoryShape, UpdateChunk, DeleteChunk, Rank, graphVars, treeVars
<1>2. ASSUME NEW t \in Texts, NEW embed \in BOOLEAN, UpdateChunk(w, c, t, embed)
      PROVE  MemoryInv'
  <2> DEFINE v == IF embed THEN Topic[t] ELSE chunks[c].vector
             x == Rewritten(chunks[c], t, v)
  <2>1. chunks' = [chunks EXCEPT ![c] = x] /\ messy' = messy \cup {c} /\ work' = work
    BY <1>2 DEF UpdateChunk
  <2>2. v \in Vectors
    BY <1>1 DEF Vectors, Rows
  <2> HIDE DEF v
  <2>3. x \in Rows /\ x.source = chunks[c].source /\ x.merged = chunks[c].merged
        /\ x.text = t /\ (x.tags <=> t \in Private)
    BY <1>1, <2>2, RewrittenFacts
  <2> HIDE DEF x
  <2>4. chunks' \in [ChunkIds -> Rows \cup {NoChunk}] /\ chunks'[c] = x
        /\ \A d \in ChunkIds \ {c} : chunks'[d] = chunks[d]
    BY <1>1, <2>1, <2>3
  <2> QED
    BY <1>1, <2>1, <2>3, <2>4, PlainKeeps
<1>3. CASE DeleteChunk(w, c)
  <2>1. chunks' = [chunks EXCEPT ![c] = NoChunk] /\ messy' = messy /\ work' = work
    BY <1>3 DEF DeleteChunk
  <2>2. chunks' \in [ChunkIds -> Rows \cup {NoChunk}] /\ chunks'[c] = NoChunk
        /\ \A d \in ChunkIds \ {c} : chunks'[d] = chunks[d]
    BY <1>1, <2>1
  <2> QED
    BY <1>1, <2>1, <2>2, PlainKeeps
<1>4. ASSUME NEW consent \in BOOLEAN, Rank(w, c, consent) PROVE MemoryInv'
  <2> DEFINE x == [pc |-> "hydrate", chunk |-> c, consent |-> consent]
  <2>1. chunks' = chunks /\ messy' = messy /\ Does(w, x)
    BY <1>4 DEF Rank, treeVars
  <2>2. work'[w] = x /\ DOMAIN work' = Workers /\ \A u \in Workers \ {w} : work'[u] = work[u]
    BY <1>1, <2>1, DoesFacts
  <2>3. WorkIs(work[w])' /\ x.pc = "hydrate"
    BY <1>1, <2>2 DEF WorkIs, Grips
  <2> QED
    BY <1>1, <2>1, <2>2, <2>3, PlainKeeps DEF Grips
<1> QED
  BY <1>2, <1>3, <1>4

(* A call begins or ends outside the graph.                                   *)
LEMMA CallsKeep ==
  ASSUME MemoryInv, NEW w \in Workers,
         \/ Hydrate(w)
         \/ \E t \in Texts : FindNearDuplicate(w, t)
  PROVE  MemoryInv'
<1>1. /\ MemoryShape /\ works \in 0..MaxWork /\ chunks \in [ChunkIds -> Rows \cup {NoChunk}]
      /\ DOMAIN work = Workers /\ leaked = FALSE
      /\ \A d \in ChunkIds : chunks[d] # NoChunk => d < nextChunk /\ (chunks[d].tags <=> chunks[d].text \in Private)
  BY DEF MemoryInv, MemoryShape
<1>2. CASE Hydrate(w)
  <2>1. /\ work[w].pc = "hydrate" /\ Does(w, NoWork) /\ UNCHANGED <<chunks, nextChunk, relations, works, kept, crowded, messy>>
        /\ leaked' = (leaked \/ (chunks[work[w].chunk] # NoChunk /\ Exposed(chunks[work[w].chunk], work[w].consent)))
    BY <1>2 DEF Hydrate, treeVars, graphVars
  <2>2. work[w].chunk \in ChunkIds
    BY <1>1, <2>1 DEF MemoryShape, WorkIs
  <2>3. leaked' = FALSE
    BY <1>1, <2>1, <2>2 DEF Exposed, Shown
  <2>4. work'[w] = NoWork /\ DOMAIN work' = Workers /\ \A u \in Workers \ {w} : work'[u] = work[u]
    BY <1>1, <2>1, DoesFacts
  <2>5. WorkIs(work[w])' /\ work'[w].pc = "none"
    BY <2>4 DEF WorkIs, NoWork, Grips
  <2> QED
    BY <1>1, <2>1, <2>3, <2>4, <2>5, PlainKeeps DEF Grips
<1>3. CASE \E t \in Texts : FindNearDuplicate(w, t)
  <2>1. PICK t \in Texts : FindNearDuplicate(w, t)
    BY <1>3
  <2>2. work[w].pc = "none" /\ works' \in 0..MaxWork /\ UNCHANGED <<chunks, nextChunk, relations, kept, crowded, messy, leaked>>
    BY <2>1, TakesUpFacts DEF FindNearDuplicate, treeVars, graphVars
  <2>3. PICK x : /\ Does(w, x)
                 /\ \/ x = [pc |-> "insert", source |-> works, text |-> t]
                    \/ \E c \in ChunkIds : c < nextChunk /\ x = [pc |-> "read", source |-> works, chunk |-> c]
    BY <1>1, <2>1 DEF FindNearDuplicate
  <2>4. work'[w] = x /\ DOMAIN work' = Workers /\ \A u \in Workers \ {w} : work'[u] = work[u]
    BY <1>1, <2>3, DoesFacts
  <2>5. WorkIs(work[w])' /\ work'[w].pc \in {"insert", "read"}
    BY <1>1, <2>2, <2>3, <2>4 DEF WorkIs, Grips
  <2> QED
    BY <1>1, <2>2, <2>4, <2>5, PlainKeeps DEF Grips
<1> QED
  BY <1>2, <1>3

(* The list of the match is read; a second reader makes the chunk crowded.    *)
LEMMA ReadMergedKeeps ==
  ASSUME MemoryInv, NEW w \in Workers, ReadMerged(w)
  PROVE  MemoryInv'
<1> DEFINE c == work[w].chunk
           x == IF chunks[c] = NoChunk THEN NoWork
                ELSE [pc |-> "merge", source |-> work[w].source, chunk |-> c, list |-> chunks[c].merged]
<1>1. /\ work[w].pc = "read" /\ Does(w, x) /\ UNCHANGED <<chunks, nextChunk, relations, works, kept, messy, leaked>>
      /\ chunks[c] = NoChunk => crowded' = crowded
      /\ chunks[c] # NoChunk =>
           crowded' = IF \E v \in Workers : work[v].pc = "merge" /\ work[v].chunk = c
                      THEN crowded \cup {c} ELSE crowded
  BY DEF ReadMerged, treeVars, graphVars
<1>2. /\ MemoryShape /\ c \in ChunkIds /\ c < nextChunk /\ work[w].source \in 0..MaxWork /\ works \in 0..MaxWork
      /\ chunks \in [ChunkIds -> Rows \cup {NoChunk}] /\ relations \in [Edges \X ChunkIds -> Nat]
      /\ nextChunk \in 1..MaxChunks + 1 /\ nextChunk <= nextChunk /\ nextChunk \in Int
      /\ \A d \in ChunkIds : chunks[d] # NoChunk => d < nextChunk
  BY <1>1, MemoryAssumption DEF MemoryInv, MemoryShape, WorkIs
<1>3. work'[w] = x /\ DOMAIN work' = Workers /\ \A u \in Workers \ {w} : work'[u] = work[u]
  BY <1>1, <1>2, DoesFacts
<1>4. WorkIs(work[w])' /\ x.pc \in {"none", "merge"}
  <2>1. chunks[c] # NoChunk => chunks[c].merged \in Seq(0..MaxWork)
    BY <1>2 DEF Rows
  <2> QED
    BY <1>1, <1>2, <1>3, <2>1 DEF WorkIs, NoWork, Grips
<1>5. MemoryShape'
  BY <1>1, <1>2, <1>3, <1>4, ShapeKeeps
<1>6. GraphOk'
  BY <1>1, <1>2, <1>3, <1>4, GraphKeeps DEF MemoryInv, Grips
<1>7. Provenance'
  <2>1. \A u \in Workers, d \in ChunkIds : u # w => (Merging(u, d)' <=> Merging(u, d)) /\ work'[u] = work[u]
    BY <1>3 DEF Merging
  <2>2. \A d \in ChunkIds : Merging(w, d)' => d = c /\ chunks[c] # NoChunk /\ work'[w].list = chunks[c].merged
    BY <1>3 DEF Merging, NoWork
  <2>3. crowded \subseteq crowded'
    BY <1>1
  <2>4. chunks[c] # NoChunk /\ c \notin crowded' => \A u \in Workers : ~Merging(u, c)
    BY <1>1 DEF Merging
  <2> HIDE DEF c, x
  <2>5. \A d \in ChunkIds \ crowded' :
       /\ \A u, z \in Workers : Merging(u, d)' /\ Merging(z, d)' => u = z
       /\ \A u \in Workers : Merging(u, d)' /\ chunks'[d] # NoChunk => work'[u].list = chunks'[d].merged
    BY <1>1, <2>1, <2>2, <2>3, <2>4 DEF MemoryInv, Provenance
  <2>6. ProvenanceIsKept'
    BY <1>1, <2>3 DEF MemoryInv, Provenance, ProvenanceIsKept
  <2> QED
    BY <1>1, <2>5, <2>6 DEF MemoryInv, Provenance
<1> QED
  BY <1>1, <1>5, <1>6, <1>7 DEF MemoryInv

(* The list is written: alone, it is the chunk's own and one source more.     *)
LEMMA WriteMergedKeeps ==
  ASSUME MemoryInv, NEW w \in Workers, WriteMerged(w)
  PROVE  MemoryInv'
<1> DEFINE c == work[w].chunk
           src == work[w].source
           list == work[w].list
           more == MergedWith(list, src)
           x == [chunks[c] EXCEPT !.merged = more]
<1>1. /\ Merging(w, c) /\ Does(w, NoWork) /\ kept' = kept \cup {<<src, c>>}
      /\ UNCHANGED <<nextChunk, relations, works, crowded, messy, leaked>>
      /\ chunks[c] = NoChunk => chunks' = chunks
      /\ chunks[c] # NoChunk => chunks' = [chunks EXCEPT ![c].merged = more]
  BY DEF WriteMerged, graphVars, Merging
<1>2. /\ MemoryShape /\ c \in ChunkIds /\ c < nextChunk /\ src \in 0..MaxWork /\ list \in Seq(0..MaxWork)
      /\ works \in 0..MaxWork /\ DOMAIN work = Workers
      /\ chunks \in [ChunkIds -> Rows \cup {NoChunk}] /\ relations \in [Edges \X ChunkIds -> Nat]
      /\ nextChunk \in 1..MaxChunks + 1 /\ nextChunk <= nextChunk /\ nextChunk \in Int
      /\ \A d \in ChunkIds : chunks[d] # NoChunk => d < nextChunk
  BY <1>1, MemoryAssumption DEF MemoryInv, MemoryShape, WorkIs, Merging
<1>3. /\ more \in Seq(0..MaxWork) /\ src \in {more[i] : i \in DOMAIN more}
      /\ {list[i] : i \in DOMAIN list} \subseteq {more[i] : i \in DOMAIN more}
  <2>1. /\ more \in Seq(0..MaxWork) /\ Len(list) + 1 \in DOMAIN more /\ more[Len(list) + 1] = src
        /\ \A i \in DOMAIN list : i \in DOMAIN more /\ more[i] = list[i]
    BY <1>2 DEF MergedWith
  <2> HIDE DEF more
  <2> QED
    BY <2>1
<1> HIDE DEF more
<1>4. chunks[c] # NoChunk =>
        /\ chunks' = [chunks EXCEPT ![c] = x] /\ x \in Rows /\ x.merged = more /\ x.source = chunks[c].source
        /\ x.done = chunks[c].done /\ x.tags = chunks[c].tags /\ x.text = chunks[c].text
  BY <1>1, <1>2, <1>3 DEF Rows
<1> HIDE DEF x
<1>5. /\ \A d \in ChunkIds \ {c} : chunks'[d] = chunks[d]
      /\ chunks[c] = NoChunk => chunks'[c] = NoChunk
      /\ chunks[c] # NoChunk => chunks'[c] = x
      /\ chunks' \in [ChunkIds -> Rows \cup {NoChunk}]
  BY <1>1, <1>2, <1>4
<1>6. work'[w] = NoWork /\ DOMAIN work' = Workers /\ \A u \in Workers \ {w} : work'[u] = work[u]
  BY <1>1, <1>2, DoesFacts
<1>7. WorkIs(work[w])' /\ work'[w].pc = "none"
  BY <1>6 DEF WorkIs, NoWork, Grips
<1>8. MemoryShape'
  BY <1>1, <1>2, <1>4, <1>5, <1>6, <1>7, ShapeKeeps
<1>9. GraphOk'
  BY <1>1, <1>2, <1>4, <1>5, <1>6, <1>7, GraphKeeps DEF MemoryInv, Grips, Merging
<1>10. Provenance'
  <2>1. \A u \in Workers, d \in ChunkIds : Merging(u, d)' => u # w /\ Merging(u, d) /\ work'[u] = work[u]
    BY <1>6, <1>7 DEF Merging
  <2>2. \A d \in ChunkIds \ crowded' :
       /\ \A u, z \in Workers : Merging(u, d)' /\ Merging(z, d)' => u = z
       /\ \A u \in Workers : Merging(u, d)' /\ chunks'[d] # NoChunk => work'[u].list = chunks'[d].merged
    BY <1>1, <1>5, <2>1 DEF MemoryInv, Provenance
  <2>3. c \notin crowded /\ chunks[c] # NoChunk => list = chunks[c].merged
    BY <1>1, <1>2 DEF MemoryInv, Provenance
  <2>4. c \notin crowded /\ chunks[c] # NoChunk => Sources(chunks[c]) \subseteq Sources(x) /\ src \in Sources(x)
    <3> SUFFICES ASSUME c \notin crowded, chunks[c] # NoChunk
                 PROVE  Sources(chunks[c]) \subseteq Sources(x) /\ src \in Sources(x)
      OBVIOUS
    <3>1. Sources(x) = {chunks[c].source} \cup {more[i] : i \in DOMAIN more}
      BY <1>4 DEF Sources
    <3>2. Sources(chunks[c]) = {chunks[c].source} \cup {list[i] : i \in DOMAIN list}
      BY <2>3 DEF Sources
    <3> QED
      BY <1>3, <3>1, <3>2
  <2>5. \A k \in kept : k[2] \in ChunkIds
    BY DEF MemoryInv, Provenance
  <2>6. ProvenanceIsKept
    BY DEF MemoryInv, Provenance
  <2> HIDE DEF c, src, list
  <2>7. ASSUME NEW k \in kept', k[2] \notin crowded, chunks'[k[2]] # NoChunk
        PROVE  k[1] \in Sources(chunks'[k[2]])
    <3>1. CASE k \in kept
      BY <1>5, <2>4, <2>5, <2>6, <2>7, <3>1 DEF ProvenanceIsKept
    <3>2. CASE k = <<src, c>>
      BY <1>5, <2>4, <2>7, <3>2
    <3> QED
      BY <1>1, <3>1, <3>2
  <2>8. ProvenanceIsKept'
    BY <1>1, <2>7 DEF ProvenanceIsKept
  <2>9. \A k \in kept' : k[2] \in ChunkIds /\ k[2] < nextChunk'
    BY <1>1, <1>2 DEF MemoryInv, Provenance
  <2> QED
    BY <2>2, <2>8, <2>9 DEF Provenance
<1> QED
  BY <1>1, <1>8, <1>9, <1>10 DEF MemoryInv

(* What every step of a backfill leaves alone.                                *)
LEMMA GripKeeps ==
  ASSUME MemoryInv, NEW w \in Workers, NEW x, Does(w, x), WorkIs(x), x.pc \in Grips \cup {"none"},
         UNCHANGED <<nextChunk, kept, crowded>>, leaked' = FALSE, works' \in 0..MaxWork,
         chunks' \in [ChunkIds -> Rows \cup {NoChunk}],
         \A c \in ChunkIds : chunks'[c] # NoChunk =>
           /\ chunks[c] # NoChunk /\ chunks'[c].tags = chunks[c].tags /\ chunks'[c].text = chunks[c].text
           /\ chunks'[c].source = chunks[c].source /\ chunks'[c].merged = chunks[c].merged,
         relations' \in [Edges \X ChunkIds -> Nat],
         \A c \in ChunkIds, e \in Edges : nextChunk <= c => relations'[<<e, c>>] = relations[<<e, c>>],
         \A c \in ChunkIds \ messy' : chunks'[c] # NoChunk => ChunkGraph(c)'
  PROVE  MemoryInv'
<1>1. /\ MemoryShape /\ nextChunk \in 1..MaxChunks + 1 /\ nextChunk <= nextChunk /\ nextChunk \in Int
      /\ \A c \in ChunkIds : chunks[c] # NoChunk => c < nextChunk
  BY MemoryAssumption DEF MemoryInv, MemoryShape
<1>2. work'[w] = x /\ DOMAIN work' = Workers /\ \A u \in Workers \ {w} : work'[u] = work[u]
  BY <1>1, DoesFacts
<1>3. WorkIs(work[w])'
  BY <1>2 DEF WorkIs
<1>4. MemoryShape'
  BY <1>1, <1>2, <1>3, ShapeKeeps
<1>5. Provenance'
  <2>1. x.pc # "merge"
    BY DEF Grips
  <2> QED
    BY <1>1, <1>2, <2>1, ProvenanceKeeps DEF MemoryInv
<1>6. GraphOk'
  BY DEF MemoryInv, GraphOk
<1> QED
  BY <1>4, <1>5, <1>6 DEF MemoryInv

(* A worker that lets go of chunks, and of the one it has taken before an     *)
(* edge of it was stored.                                                     *)
LEMMA LettingGo ==
  ASSUME MemoryInv, NEW w \in Workers, NEW x, work'[w] = x,
         \A u \in Workers \ {w} : work'[u] = work[u],
         NEW c \in ChunkIds, ChunkGraph(c), UNCHANGED <<chunks, relations>>,
         Holding(w, c)' => Holding(w, c),
         ~Taken(w, c)', WritingGraph(w, c) => ~work[w].written
  PROVE  ChunkGraph(c)'
<1>1. CASE ~WritingGraph(w, c)
  BY <1>1, ChunkGraphKeeps DEF Holding, Taken, WritingGraph
<1>2. CASE WritingGraph(w, c)
  <2>1. \A v \in Workers : (Holding(v, c)' => Holding(v, c)) /\ (Taken(v, c)' => Taken(v, c) /\ work'[v] = work[v])
                            /\ (WritingGraph(v, c)' => WritingGraph(v, c) /\ work'[v] = work[v])
    BY DEF Holding, Taken, WritingGraph
  <2>2. Holding(w, c) /\ Taken(w, c)
    BY <1>2 DEF Holding, WritingGraph, Taken
  <2>3. ~chunks[c].done /\ work[w].edges = Seen(chunks[c])
    BY <1>2, <2>2 DEF ChunkGraph
  <2>4. \A v \in Workers : ~WritingGraph(v, c)'
    <3> SUFFICES ASSUME NEW v \in Workers, WritingGraph(v, c)' PROVE FALSE
      OBVIOUS
    <3>1. Holding(v, c)
      BY <2>1 DEF WritingGraph, Holding
    <3>2. v = w
      BY <2>2, <3>1 DEF ChunkGraph
    <3> QED
      BY <3>2 DEF Taken, WritingGraph
  <2>5. \A e \in Edges : relations[<<e, c>>] = 0
    BY <1>2, <2>3 DEF ChunkGraph
  <2> QED
    <3>1. chunks' = chunks /\ relations' = relations
      OBVIOUS
    <3>2. /\ \A v, u \in Workers : Holding(v, c)' /\ Holding(u, c)' => v = u
          /\ \A v \in Workers : Holding(v, c)' => ~chunks'[c].done
      BY <2>1, <2>3, <3>1 DEF ChunkGraph
    <3>3. \A v \in Workers : Taken(v, c)' => work'[v].edges \subseteq Seen(chunks'[c])
      BY <2>1, <3>1 DEF ChunkGraph
    <3>4. \A v \in Workers : Taken(v, c)' => v = w
      BY <2>1, <2>2 DEF ChunkGraph, Taken, Holding
    <3> QED
      BY <2>3, <2>4, <2>5, <3>1, <3>2, <3>3, <3>4 DEF ChunkGraph
<1> QED
  BY <1>1, <1>2

(* A backfill selects the chunks that are not marked (memory/tree.py,         *)
(* backfill).                                                                 *)
LEMMA BackfillKeeps ==
  ASSUME MemoryInv, NEW w \in Workers, Backfill(w)
  PROVE  MemoryInv'
<1> DEFINE ids == PendingExtraction
           x == [pc |-> "next", queue |-> ids]
<1>1. /\ work[w].pc = "none" /\ works' \in 0..MaxWork /\ Does(w, x)
      /\ messy' = messy \cup (ids \cap UNION {InHand(v) : v \in Workers})
      /\ UNCHANGED <<chunks, nextChunk, relations, kept, crowded, leaked>>
  BY TakesUpFacts DEF Backfill, treeVars, graphVars
<1>2. /\ MemoryShape /\ chunks \in [ChunkIds -> Rows \cup {NoChunk}] /\ relations \in [Edges \X ChunkIds -> Nat]
      /\ leaked = FALSE /\ \A c \in ChunkIds : chunks[c] # NoChunk => c < nextChunk
  BY DEF MemoryInv, MemoryShape
<1>3. ids \subseteq ChunkIds /\ \A c \in ids : chunks[c] # NoChunk /\ ~chunks[c].done
  BY DEF PendingExtraction
<1> HIDE DEF ids
<1>4. WorkIs(x) /\ x.pc \in Grips \cup {"none"}
  BY <1>2, <1>3 DEF WorkIs, Grips
<1>5. work'[w] = x /\ DOMAIN work' = Workers /\ \A u \in Workers \ {w} : work'[u] = work[u]
  BY <1>1, <1>2, DoesFacts
<1>6. ASSUME NEW c \in ChunkIds \ messy', chunks'[c] # NoChunk PROVE ChunkGraph(c)'
  <2>1. ChunkGraph(c) /\ \A u \in Workers : c \in ids => ~Holding(u, c)
    BY <1>1, <1>6, InHandIs DEF MemoryInv, GraphOk
  <2>2. /\ \A u \in Workers \ {w} : (Holding(u, c)' <=> Holding(u, c)) /\ (Taken(u, c)' <=> Taken(u, c))
                                      /\ (WritingGraph(u, c)' <=> WritingGraph(u, c))
        /\ ~Taken(w, c) /\ ~WritingGraph(w, c) /\ ~Taken(w, c)' /\ ~WritingGraph(w, c)' /\ ~Holding(w, c)
        /\ Holding(w, c)' <=> c \in ids
    BY <1>1, <1>5 DEF Holding, Taken, WritingGraph, Grips
  <2>3. CASE c \notin ids
    BY <1>1, <1>5, <2>1, <2>2, <2>3, ChunkGraphKeeps
  <2>4. CASE c \in ids
    BY <1>1, <1>3, <1>5, <2>1, <2>2, <2>4 DEF ChunkGraph
  <2> QED
    BY <2>3, <2>4
<1> QED
  BY <1>1, <1>2, <1>4, <1>6, GripKeeps

(* The next chunk of a backfill is taken up.                                  *)
LEMMA TakeChunkKeeps ==
  ASSUME MemoryInv, NEW w \in Workers, TakeChunk(w)
  PROVE  MemoryInv'
<1> DEFINE q == work[w].queue
           n == CHOOSE y \in q : \A z \in q : y <= z
           x == IF chunks[n] = NoChunk THEN [pc |-> "next", queue |-> q \ {n}]
                ELSE [pc |-> "extract", queue |-> q \ {n}, chunk |-> n, edges |-> Seen(chunks[n])]
<1>1. /\ work[w].pc = "next" /\ q # {} /\ Does(w, x)
      /\ UNCHANGED <<chunks, nextChunk, relations, works, kept, crowded, messy>>
      /\ leaked' = leaked \/ (chunks[n] # NoChunk /\ leaked' = (leaked \/ Exposed(chunks[n], FALSE)))
  BY DEF TakeChunk, treeVars, graphVars
<1>2. /\ MemoryShape /\ chunks \in [ChunkIds -> Rows \cup {NoChunk}] /\ relations \in [Edges \X ChunkIds -> Nat]
      /\ leaked = FALSE /\ works \in 0..MaxWork
      /\ \A c \in ChunkIds : chunks[c] # NoChunk => chunks[c] \in Rows
  BY DEF MemoryInv, MemoryShape
<1>3. q \subseteq ChunkIds /\ \A c \in q : c < nextChunk
  BY <1>1, <1>2 DEF MemoryShape, WorkIs, Grips
<1>4. n \in q
  <2> HIDE DEF q
  <2> QED
    BY <1>1, <1>3, LeastOf
<1> HIDE DEF n
<1>5. leaked' = FALSE
  <2>1. chunks[n] # NoChunk => ~Exposed(chunks[n], FALSE)
    BY <1>2, <1>3, <1>4, ExposesNothing
  <2> QED
    BY <1>1, <1>2, <2>1
<1>6. chunks[n] # NoChunk => Seen(chunks[n]) \subseteq Edges
  BY <1>2, <1>3, <1>4, MemoryAssumption DEF Seen, Rows
<1>7. WorkIs(x) /\ x.pc \in Grips \cup {"none"}
  BY <1>3, <1>4, <1>6 DEF WorkIs, Grips
<1>8. work'[w] = x /\ DOMAIN work' = Workers /\ \A u \in Workers \ {w} : work'[u] = work[u]
  BY <1>1, <1>2, DoesFacts
<1>9. ASSUME NEW c \in ChunkIds \ messy', chunks'[c] # NoChunk PROVE ChunkGraph(c)'
  <2>1. ChunkGraph(c)
    BY <1>1, <1>9 DEF MemoryInv, GraphOk
  <2>2. /\ \A u \in Workers \ {w} : (Holding(u, c)' <=> Holding(u, c)) /\ (Taken(u, c)' <=> Taken(u, c))
                                      /\ (WritingGraph(u, c)' <=> WritingGraph(u, c))
        /\ ~Taken(w, c) /\ ~WritingGraph(w, c) /\ ~WritingGraph(w, c)' /\ (Holding(w, c)' => Holding(w, c))
        /\ Holding(w, c) <=> c \in q
    BY <1>1, <1>4, <1>8 DEF Holding, Taken, WritingGraph, Grips
  <2>3. CASE ~(c = n)
    <3>1. ~Taken(w, c)'
      BY <1>8, <2>3 DEF Taken
    <3> QED
      BY <1>1, <1>8, <2>1, <2>2, <3>1, ChunkGraphKeeps
  <2>4. CASE c = n
    <3>1. work'[w].edges = Seen(chunks[c]) /\ chunks' = chunks /\ relations' = relations
      BY <1>1, <1>8, <1>9, <2>4
    <3>2. \A u \in Workers : ~Taken(u, c)
      <4> SUFFICES ASSUME NEW u \in Workers, Taken(u, c) PROVE FALSE
        OBVIOUS
      <4>1. Holding(u, c) /\ Holding(w, c)
        BY <1>4, <2>2, <2>4 DEF Taken, Holding
      <4>2. u = w
        BY <2>1, <4>1 DEF ChunkGraph
      <4> QED
        BY <2>2, <4>2
    <3>3. \A u \in Workers : (Taken(u, c)' => u = w) /\ ~WritingGraph(u, c)' /\ ~WritingGraph(u, c) /\ (Holding(u, c)' => Holding(u, c))
      BY <2>2, <3>2 DEF Taken, WritingGraph
    <3> QED
      BY <2>1, <3>1, <3>3 DEF ChunkGraph
  <2> QED
    BY <2>3, <2>4
<1> QED
  BY <1>1, <1>2, <1>5, <1>7, <1>9, GripKeeps

(* The walk ends, is skipped, or dies: chunks are let go of. One that has a   *)
(* part of its edges is messy.                                                *)
LEMMA LetGoKeeps ==
  ASSUME MemoryInv, NEW w \in Workers, BackfillEnds(w) \/ Skip(w) \/ WorkerDies(w)
  PROVE  MemoryInv'
<1>1. PICK x \in {NoWork, [pc |-> "next", queue |-> work[w].queue]} :
        Does(w, x) /\ (x # NoWork => work[w].pc \in {"extract", "write"})
  BY DEF BackfillEnds, Skip, WorkerDies
<1>2. /\ UNCHANGED <<chunks, nextChunk, relations, works, kept, crowded, leaked>>
      /\ messy \subseteq messy'
      /\ work[w].pc = "write" /\ work[w].written => work[w].chunk \in messy'
  BY DEF BackfillEnds, Skip, WorkerDies, treeVars, graphVars
<1>3. /\ MemoryShape /\ chunks \in [ChunkIds -> Rows \cup {NoChunk}] /\ relations \in [Edges \X ChunkIds -> Nat]
      /\ leaked = FALSE /\ works \in 0..MaxWork /\ WorkIs(work[w])
  BY DEF MemoryInv, MemoryShape
<1>4. WorkIs(x) /\ x.pc \in Grips \cup {"none"}
  BY <1>1, <1>3 DEF WorkIs, NoWork, Grips
<1>5. work'[w] = x /\ DOMAIN work' = Workers /\ \A u \in Workers \ {w} : work'[u] = work[u]
  BY <1>1, <1>3, DoesFacts
<1>6. ASSUME NEW c \in ChunkIds \ messy', chunks'[c] # NoChunk PROVE ChunkGraph(c)'
  <2>1. ChunkGraph(c)
    BY <1>2, <1>6 DEF MemoryInv, GraphOk
  <2>2. (Holding(w, c)' => Holding(w, c)) /\ ~Taken(w, c)'
    BY <1>1, <1>5 DEF Holding, Taken, NoWork, Grips
  <2>3. WritingGraph(w, c) => ~work[w].written
    BY <1>2, <1>6 DEF WritingGraph
  <2> QED
    BY <1>2, <1>5, <2>1, <2>2, <2>3, LettingGo
<1> QED
  BY <1>1, <1>2, <1>3, <1>4, <1>6, GripKeeps

(* The extractor replies: the worker has the edges of the text it gave.       *)
LEMMA RepliesKeeps ==
  ASSUME MemoryInv, NEW w \in Workers, ExtractorReplies(w)
  PROVE  MemoryInv'
<1> DEFINE n == work[w].chunk
           x == [pc |-> "write", queue |-> work[w].queue, chunk |-> n, edges |-> work[w].edges, written |-> FALSE]
<1>1. work[w].pc = "extract" /\ Does(w, x) /\ UNCHANGED <<chunks, nextChunk, relations, works, kept, crowded, messy, leaked>>
  BY DEF ExtractorReplies, treeVars, graphVars
<1>2. /\ MemoryShape /\ chunks \in [ChunkIds -> Rows \cup {NoChunk}] /\ relations \in [Edges \X ChunkIds -> Nat]
      /\ leaked = FALSE /\ works \in 0..MaxWork /\ WorkIs(work[w])
  BY DEF MemoryInv, MemoryShape
<1>3. WorkIs(x) /\ x.pc \in Grips \cup {"none"}
  BY <1>1, <1>2 DEF WorkIs, Grips
<1>4. work'[w] = x /\ DOMAIN work' = Workers /\ \A u \in Workers \ {w} : work'[u] = work[u]
  BY <1>1, <1>2, DoesFacts
<1>5. ASSUME NEW c \in ChunkIds \ messy', chunks'[c] # NoChunk PROVE ChunkGraph(c)'
  <2>1. ChunkGraph(c)
    BY <1>1, <1>5 DEF MemoryInv, GraphOk
  <2>2. \A u \in Workers : (Holding(u, c)' <=> Holding(u, c)) /\ (Taken(u, c)' <=> Taken(u, c))
    BY <1>1, <1>4 DEF Holding, Taken, Grips
  <2>3. \A u \in Workers \ {w} : (WritingGraph(u, c)' <=> WritingGraph(u, c))
    BY <1>4 DEF WritingGraph
  <2>4. ~WritingGraph(w, c) /\ (WritingGraph(w, c)' <=> Taken(w, c))
    BY <1>1, <1>4 DEF WritingGraph, Taken
  <2>5. CASE ~Taken(w, c)
    BY <1>1, <1>4, <2>1, <2>2, <2>3, <2>4, <2>5, ChunkGraphKeeps
  <2>6. CASE Taken(w, c)
    <3>1. \A u \in Workers : Taken(u, c) => u = w
      BY <2>1, <2>6 DEF ChunkGraph, Taken, Holding
    <3>2. \A u \in Workers : ~WritingGraph(u, c)
      BY <2>4, <3>1 DEF WritingGraph, Taken
    <3>3. Holding(w, c)
      BY <2>6 DEF Taken, Holding
    <3>4. ~chunks[c].done /\ work[w].edges = Seen(chunks[c]) /\ \A e \in Edges : relations[<<e, c>>] = 0
      BY <2>1, <2>4, <2>6, <3>2, <3>3 DEF ChunkGraph
    <3>5. work'[w].edges = work[w].edges /\ chunks' = chunks /\ relations' = relations
      BY <1>1, <1>4
    <3>6. \A u \in Workers : WritingGraph(u, c)' => u = w
      BY <2>3, <3>2
    <3> QED
      BY <2>1, <2>2, <2>4, <2>6, <3>1, <3>4, <3>5, <3>6 DEF ChunkGraph
  <2> QED
    BY <2>5, <2>6
<1> QED
  BY <1>1, <1>2, <1>3, <1>5, GripKeeps

(* What is left of a call once an edge is stored.                             *)
LEMMA StoredEdge ==
  ASSUME NEW w \in Workers, NEW n, NEW edges, NEW e,
         work[w] = [pc |-> "write", queue |-> work[w].queue, chunk |-> n, edges |-> edges,
                    written |-> work[w].written],
         Does(w, [work[w] EXCEPT !.edges = edges \ {e}, !.written = TRUE])
  PROVE  Does(w, [pc |-> "write", queue |-> work[w].queue, chunk |-> n, edges |-> edges \ {e},
                  written |-> TRUE])
<1> DEFINE y == work[w]
           q == y.queue
           b == y.written
           f == edges \ {e}
<1>1. y = [pc |-> "write", queue |-> q, chunk |-> n, edges |-> edges, written |-> b]
  OBVIOUS
<1> HIDE DEF y, q, b, f
<1>2. [y EXCEPT !.edges = f, !.written = TRUE] = [[y EXCEPT !.edges = f] EXCEPT !.written = TRUE]
  OBVIOUS
<1>3. [y EXCEPT !.edges = f] = [pc |-> "write", queue |-> q, chunk |-> n, edges |-> f, written |-> b]
  BY <1>1
<1>a. ASSUME NEW z, z = [pc |-> "write", queue |-> q, chunk |-> n, edges |-> f, written |-> b], NEW v
      PROVE  [z EXCEPT !.written = v] = [pc |-> "write", queue |-> q, chunk |-> n, edges |-> f, written |-> v]
  BY <1>a
<1>4. [[y EXCEPT !.edges = f] EXCEPT !.written = TRUE]
        = [pc |-> "write", queue |-> q, chunk |-> n, edges |-> f, written |-> TRUE]
  BY <1>3, <1>a
<1> QED
  BY <1>2, <1>4 DEF y, q, f

(* One more of the edges is stored.                                           *)
LEMMA AddRelationKeeps ==
  ASSUME MemoryInv, NEW w \in Workers, AddRelation(w)
  PROVE  MemoryInv'
<1> DEFINE n == work[w].chunk
           edges == work[w].edges
<1>1. PICK e \in edges :
        /\ work[w].pc = "write"
        /\ relations' = [relations EXCEPT ![<<e, n>>] = @ + 1]
        /\ Does(w, [work[w] EXCEPT !.edges = edges \ {e}, !.written = TRUE])
        /\ UNCHANGED <<chunks, nextChunk, works, kept, crowded, messy, leaked>>
  BY DEF AddRelation, treeVars
<1>2. /\ MemoryShape /\ chunks \in [ChunkIds -> Rows \cup {NoChunk}] /\ relations \in [Edges \X ChunkIds -> Nat]
      /\ leaked = FALSE /\ works \in 0..MaxWork /\ WorkIs(work[w]) /\ n \in ChunkIds /\ n < nextChunk
      /\ edges \subseteq Edges /\ e \in Edges
      /\ work[w] = [pc |-> "write", queue |-> work[w].queue, chunk |-> n, edges |-> edges, written |-> work[w].written]
      /\ nextChunk \in Nat /\ ChunkIds \subseteq Nat
  BY <1>1, MemoryAssumption DEF MemoryInv, MemoryShape, WorkIs, Grips, ChunkIds
<1> DEFINE x == [pc |-> "write", queue |-> work[w].queue, chunk |-> n, edges |-> edges \ {e}, written |-> TRUE]
<1>3. Does(w, x)
  BY <1>1, <1>2, StoredEdge
<1>4. WorkIs(x) /\ x.pc \in Grips \cup {"none"}
  BY <1>1, <1>2 DEF WorkIs, Grips
<1>5. work'[w] = x /\ DOMAIN work' = Workers /\ \A u \in Workers \ {w} : work'[u] = work[u]
  BY <1>2, <1>3, DoesFacts
<1>6. /\ relations' \in [Edges \X ChunkIds -> Nat] /\ relations'[<<e, n>>] = relations[<<e, n>>] + 1
      /\ \A f \in Edges, c \in ChunkIds : f # e \/ c # n => relations'[<<f, c>>] = relations[<<f, c>>]
  <2>1. <<e, n>> \in Edges \X ChunkIds /\ relations[<<e, n>>] \in Nat
    BY <1>2
  <2>2. relations' = [relations EXCEPT ![<<e, n>>] = relations[<<e, n>>] + 1]
    BY <1>1
  <2>3. relations[<<e, n>>] + 1 \in Nat
    BY <2>1
  <2> QED
    BY <1>2, <2>1, <2>2, <2>3
<1>7. \A c \in ChunkIds, f \in Edges : nextChunk <= c => relations'[<<f, c>>] = relations[<<f, c>>]
  <2>1. n < nextChunk /\ n \in Nat /\ nextChunk \in Nat /\ ChunkIds \subseteq Nat
    BY <1>2
  <2> HIDE DEF n
  <2>2. \A c \in ChunkIds : nextChunk <= c => c # n
    BY <2>1
  <2> QED
    BY <1>6, <2>2
<1>8. ASSUME NEW c \in ChunkIds \ messy', chunks'[c] # NoChunk PROVE ChunkGraph(c)'
  <2>1. ChunkGraph(c) /\ chunks' = chunks
    BY <1>1, <1>8 DEF MemoryInv, GraphOk
  <2>2. \A u \in Workers : (Holding(u, c)' <=> Holding(u, c)) /\ (Taken(u, c)' <=> Taken(u, c))
                             /\ (WritingGraph(u, c)' <=> WritingGraph(u, c))
    BY <1>1, <1>5 DEF Holding, Taken, WritingGraph, Grips
  <2>3. WritingGraph(w, c) <=> c = n
    BY <1>1 DEF WritingGraph
  <2>4. CASE ~(c = n)
    <3>1. \A f \in Edges : relations'[<<f, c>>] = relations[<<f, c>>]
      BY <1>6, <2>4
    <3>2. ~Taken(w, c)'
      BY <1>5, <2>4 DEF Taken
    <3> QED
      BY <1>5, <2>1, <2>2, <2>3, <2>4, <3>1, <3>2, ChunkGraphKeeps
  <2>5. CASE c = n
    <3>1. Holding(w, c) /\ Taken(w, c) /\ WritingGraph(w, c)
      BY <2>3, <2>5 DEF Taken, WritingGraph, Holding
    <3>2. \A u \in Workers : Holding(u, c) => u = w
      BY <2>1, <3>1 DEF ChunkGraph
    <3>3. \A u \in Workers : Taken(u, c) \/ WritingGraph(u, c) => u = w
      BY <3>2 DEF Taken, WritingGraph, Holding
    <3>4. /\ ~chunks[c].done /\ edges \subseteq Seen(chunks[c])
          /\ \A f \in Edges : relations[<<f, c>>] = IF f \in Seen(chunks[c]) \ edges THEN 1 ELSE 0
      BY <2>1, <3>1 DEF ChunkGraph
    <3>5. work'[w].edges = edges \ {e} /\ work'[w].written = TRUE /\ e \in edges
      BY <1>5
    <3> HIDE DEF x, n, edges
    <3>6. \A f \in Edges : relations'[<<f, c>>] = IF f \in Seen(chunks[c]) \ (edges \ {e}) THEN 1 ELSE 0
      <4>1. relations'[<<e, c>>] = relations[<<e, c>>] + 1 /\ e \in Seen(chunks[c]) \ (edges \ {e})
        BY <1>6, <2>5, <3>4, <3>5
      <4>2. relations[<<e, c>>] = 0
        BY <1>2, <3>4, <3>5
      <4>3. \A f \in Edges \ {e} :
              /\ relations'[<<f, c>>] = relations[<<f, c>>]
              /\ f \in Seen(chunks[c]) \ (edges \ {e}) <=> f \in Seen(chunks[c]) \ edges
        BY <1>2, <1>6, <2>5
      <4>4. relations'[<<e, c>>] = 1
        BY <4>1, <4>2
      <4> QED
        BY <3>4, <4>1, <4>3, <4>4
    <3>7. \A u \in Workers : Taken(u, c)' \/ WritingGraph(u, c)' \/ Holding(u, c)' => u = w
      BY <2>2, <3>2, <3>3
    <3>8. WritingGraph(w, c)'
      BY <2>2, <3>1
    <3> QED
      BY <2>1, <3>4, <3>5, <3>6, <3>7, <3>8 DEF ChunkGraph
  <2> QED
    BY <2>4, <2>5
<1> HIDE DEF x
<1> QED
  BY <1>1, <1>2, <1>3, <1>4, <1>6, <1>7, <1>8, GripKeeps

(* All edges are stored, and the chunk is marked.                             *)
LEMMA MarkExtractedKeeps ==
  ASSUME MemoryInv, NEW w \in Workers, MarkExtracted(w)
  PROVE  MemoryInv'
<1> DEFINE n == work[w].chunk
           y == [chunks[n] EXCEPT !.done = TRUE]
           x == [pc |-> "next", queue |-> work[w].queue]
<1>1. /\ work[w].pc = "write" /\ work[w].edges = {} /\ Does(w, x)
      /\ UNCHANGED <<nextChunk, relations, works, kept, crowded, messy, leaked>>
      /\ chunks[n] = NoChunk => chunks' = chunks
      /\ chunks[n] # NoChunk => chunks' = [chunks EXCEPT ![n].done = TRUE]
  BY DEF MarkExtracted, graphVars
<1>2. /\ MemoryShape /\ chunks \in [ChunkIds -> Rows \cup {NoChunk}] /\ relations \in [Edges \X ChunkIds -> Nat]
      /\ leaked = FALSE /\ works \in 0..MaxWork /\ WorkIs(work[w]) /\ n \in ChunkIds
  BY <1>1 DEF MemoryInv, MemoryShape, WorkIs
<1>3. WorkIs(x) /\ x.pc \in Grips \cup {"none"}
  BY <1>1, <1>2 DEF WorkIs, Grips
<1>4. work'[w] = x /\ DOMAIN work' = Workers /\ \A u \in Workers \ {w} : work'[u] = work[u]
  BY <1>1, <1>2, DoesFacts
<1>5. chunks[n] # NoChunk =>
        /\ chunks' = [chunks EXCEPT ![n] = y] /\ y \in Rows /\ y.done = TRUE /\ y.source = chunks[n].source
        /\ y.merged = chunks[n].merged /\ y.tags = chunks[n].tags /\ y.text = chunks[n].text
  BY <1>1, <1>2 DEF Rows
<1> HIDE DEF y
<1>6. /\ chunks' \in [ChunkIds -> Rows \cup {NoChunk}]
      /\ \A c \in ChunkIds \ {n} : chunks'[c] = chunks[c]
      /\ chunks[n] = NoChunk => chunks'[n] = NoChunk
      /\ chunks[n] # NoChunk => chunks'[n] = y
  BY <1>1, <1>2, <1>5
<1>7. ASSUME NEW c \in ChunkIds \ messy', chunks'[c] # NoChunk PROVE ChunkGraph(c)'
  <2>1. ChunkGraph(c) /\ chunks[c] # NoChunk /\ relations' = relations
    BY <1>1, <1>6, <1>7 DEF MemoryInv, GraphOk
  <2>2. \A u \in Workers \ {w} : (Holding(u, c)' <=> Holding(u, c)) /\ (Taken(u, c)' <=> Taken(u, c))
                             /\ (WritingGraph(u, c)' <=> WritingGraph(u, c))
    BY <1>4 DEF Holding, Taken, WritingGraph
  <2>3. ~Taken(w, c)' /\ ~WritingGraph(w, c)' /\ (Holding(w, c)' => Holding(w, c) /\ c # n) /\ (WritingGraph(w, c) <=> c = n)
    BY <1>1, <1>2, <1>4 DEF Holding, Taken, WritingGraph, Grips, WorkIs
  <2>4. CASE ~(c = n)
    <3>1. chunks'[c] = chunks[c]
      BY <1>6, <2>4
    <3> QED
      BY <1>4, <2>1, <2>2, <2>3, <2>4, <3>1, ChunkGraphKeeps
  <2>5. CASE c = n
    <3>1. Holding(w, c) /\ WritingGraph(w, c) /\ Taken(w, c)
      BY <2>3, <2>5 DEF WritingGraph, Holding, Taken
    <3>2. \A u \in Workers : Holding(u, c) => u = w
      BY <2>1, <3>1 DEF ChunkGraph
    <3>3. \A u \in Workers : ~Holding(u, c)'
      BY <2>2, <2>3, <2>5, <3>2
    <3>4. \A u \in Workers : ~Taken(u, c)' /\ ~WritingGraph(u, c)'
      BY <3>3 DEF Taken, WritingGraph, Holding
    <3>5. chunks'[c].done = TRUE /\ Seen(chunks'[c]) = Seen(chunks[c])
      BY <1>5, <1>6, <2>1, <2>5 DEF Seen, Shown
    <3>6. \A e \in Edges : relations[<<e, c>>] = IF e \in Seen(chunks[c]) THEN 1 ELSE 0
      BY <1>1, <2>1, <3>1 DEF ChunkGraph
    <3> QED
      BY <2>1, <3>3, <3>4, <3>5, <3>6 DEF ChunkGraph
  <2> QED
    BY <2>4, <2>5
<1>8. \A c \in ChunkIds : chunks'[c] # NoChunk =>
           /\ chunks[c] # NoChunk /\ chunks'[c].tags = chunks[c].tags /\ chunks'[c].text = chunks[c].text
           /\ chunks'[c].source = chunks[c].source /\ chunks'[c].merged = chunks[c].merged
  <2> HIDE DEF n
  <2> QED
    BY <1>5, <1>6
<1> HIDE DEF x
<1> QED
  BY <1>1, <1>2, <1>3, <1>6, <1>7, <1>8, GripKeeps

(* Every step keeps the invariant of the memory.                              *)
LEMMA MemoryStays == MemorySpec => []MemoryInv
<1>1. MemoryInit => MemoryInv
  <2> SUFFICES ASSUME MemoryInit PROVE MemoryInv
    OBVIOUS
  <2>1. /\ \A c \in ChunkIds : chunks[c] = NoChunk
        /\ chunks \in [ChunkIds -> Rows \cup {NoChunk}] /\ nextChunk \in 1..MaxChunks + 1 /\ works \in 0..MaxWork
        /\ relations \in [Edges \X ChunkIds -> Nat] /\ \A e \in Edges, c \in ChunkIds : relations[<<e, c>>] = 0
        /\ DOMAIN work = Workers /\ \A w \in Workers : work[w] = NoWork /\ work[w].pc = "none"
        /\ kept = {} /\ leaked = FALSE
    BY MemoryAssumption DEF MemoryInit, NoWork
  <2>2. MemoryShape
    BY <2>1 DEF MemoryShape, WorkIs, Grips
  <2>3. Provenance
    BY <2>1 DEF Provenance, ProvenanceIsKept, Merging
  <2>4. GraphOk
    BY <2>1 DEF GraphOk
  <2> QED
    BY <2>1, <2>2, <2>3, <2>4 DEF MemoryInv
<1>2. MemoryInv /\ [MemoryNext]_memoryVars => MemoryInv'
  <2> SUFFICES ASSUME MemoryInv, [MemoryNext]_memoryVars PROVE MemoryInv'
    OBVIOUS
  <2>1. CASE UNCHANGED memoryVars
    <3>1. UNCHANGED <<chunks, nextChunk, relations, work, works, kept, crowded, messy, leaked>>
      BY <2>1 DEF memoryVars
    <3> QED
      BY <3>1 DEF MemoryInv, MemoryShape, Provenance, ProvenanceIsKept, GraphOk, ChunkGraph, Merging,
                  Holding, Taken, WritingGraph, WorkIs
  <2>2. CASE MemoryNext
    <3>1. PICK w \in Workers :
            \/ \E t \in Texts :
                 \/ \E v \in {Topic[t], NoVector} : AddChunk(w, t, v)
                 \/ FindNearDuplicate(w, t)
                 \/ \E c \in ChunkIds, embed \in BOOLEAN : UpdateChunk(w, c, t, embed)
            \/ \E c \in ChunkIds :
                 \/ DeleteChunk(w, c)
                 \/ \E consent \in BOOLEAN : Rank(w, c, consent)
            \/ AddUnmatched(w) \/ ReadMerged(w) \/ WriteMerged(w)
            \/ Backfill(w) \/ TakeChunk(w) \/ BackfillEnds(w) \/ ExtractorReplies(w)
            \/ Skip(w) \/ AddRelation(w) \/ MarkExtracted(w)
            \/ Hydrate(w) \/ WorkerDies(w)
      BY <2>2 DEF MemoryNext
    <3>2. ASSUME NEW t \in Texts, NEW v \in {Topic[t], NoVector}, AddChunk(w, t, v) PROVE MemoryInv'
      <4>1. /\ v \in Vectors /\ InsertRow(works, t, v) /\ work' = work
            /\ works \in 0..MaxWork /\ works' \in 0..MaxWork
        BY <3>2, TakesUpFacts DEF AddChunk, Vectors
      <4> QED
        BY <3>2, <4>1, InsertKeeps DEF AddChunk
    <3>3. CASE AddUnmatched(w)
      <4> DEFINE t == work[w].text
                 src == work[w].source
      <4>1. /\ work[w].pc = "insert" /\ InsertRow(src, t, Topic[t]) /\ Does(w, NoWork)
            /\ UNCHANGED <<graphVars, works, crowded, messy, leaked>>
        BY <3>3 DEF AddUnmatched
      <4>2. t \in Texts /\ src \in 0..MaxWork /\ works' \in 0..MaxWork
        BY <4>1 DEF MemoryInv, MemoryShape, WorkIs
      <4>3. Topic[t] \in Vectors
        BY <4>2 DEF Vectors
      <4> HIDE DEF t, src
      <4> QED
        BY <4>1, <4>2, <4>3, InsertKeeps
    <3> QED
      BY <3>1, <3>2, <3>3, RowsKeep, CallsKeep, ReadMergedKeeps, WriteMergedKeeps, BackfillKeeps,
         TakeChunkKeeps, LetGoKeeps, RepliesKeeps, AddRelationKeeps, MarkExtractedKeeps
  <2> QED
    BY <2>1, <2>2
<1> QED
  BY <1>1, <1>2, PTL DEF MemorySpec

(* A backfill that may yet store an edge of a chunk: it has the chunk in its  *)
(* queue, or the edge in its hands. However often a chunk is extracted, each  *)
(* call stores an edge of it once.                                            *)
MayStore(w, e, c) ==
  /\ work[w].pc \in Grips
  /\ c \in work[w].queue \/ (work[w].pc # "next" /\ work[w].chunk = c /\ e \in work[w].edges)
Storers(e, c) == {w \in Workers : MayStore(w, e, c)}
StoredOnce(e, c) ==
  IsFiniteSet(Storers(e, c)) /\ relations[<<e, c>>] + Cardinality(Storers(e, c)) <= works
Counted ==
  /\ entities \subseteq Names
  /\ \A e \in Edges, c \in ChunkIds : StoredOnce(e, c)

(* What the step of one worker does to the count.                             *)
LEMMA CountKeeps ==
  ASSUME NEW w \in Workers, \A u \in Workers \ {w} : work'[u] = work[u],
         NEW e \in Edges, NEW c \in ChunkIds, StoredOnce(e, c),
         works \in Nat, works' \in Nat, relations[<<e, c>>] \in Nat,
         \/ /\ MayStore(w, e, c)' => MayStore(w, e, c)
            /\ works <= works' /\ relations'[<<e, c>>] = relations[<<e, c>>]
         \/ works' = works + 1 /\ relations'[<<e, c>>] = relations[<<e, c>>]
         \/ /\ MayStore(w, e, c) /\ ~MayStore(w, e, c)'
            /\ works' = works /\ relations'[<<e, c>>] = relations[<<e, c>>] + 1
  PROVE  StoredOnce(e, c)'
<1> DEFINE S == Storers(e, c)
           T == {u \in Workers : MayStore(u, e, c)'}
<1>1. \A u \in Workers \ {w} : MayStore(u, e, c)' <=> MayStore(u, e, c)
  BY DEF MayStore
<1>2. T \ {w} = S \ {w} /\ (w \in T <=> MayStore(w, e, c)') /\ (w \in S <=> MayStore(w, e, c))
  BY <1>1 DEF Storers
<1>3. IsFiniteSet(S) /\ relations[<<e, c>>] + Cardinality(S) <= works
  BY DEF StoredOnce
<1>4. Storers(e, c)' = T
  BY DEF Storers
<1> HIDE DEF S, T
<1>5. Cardinality(S) \in Nat /\ IsFiniteSet(S \ {w}) /\ Cardinality(S \ {w}) \in Nat
      /\ Cardinality(S \ {w}) = IF w \in S THEN Cardinality(S) - 1 ELSE Cardinality(S)
  BY <1>3, FS_CardinalityType, FS_RemoveElement
<1>6. IsFiniteSet(T) /\ Cardinality(T) = IF w \in T THEN Cardinality(S \ {w}) + 1 ELSE Cardinality(S \ {w})
  <2>1. w \in T => T = (S \ {w}) \cup {w}
    BY <1>2
  <2>2. w \notin T => T = S \ {w}
    BY <1>2
  <2>3. /\ IsFiniteSet((S \ {w}) \cup {w})
        /\ Cardinality((S \ {w}) \cup {w}) = Cardinality(S \ {w}) + 1
    <3>1. w \notin S \ {w}
      OBVIOUS
    <3> QED
      BY <1>5, <3>1, FS_AddElement
  <2> QED
    BY <1>5, <2>1, <2>2, <2>3
<1>7. relations'[<<e, c>>] + Cardinality(T) <= works'
  BY <1>2, <1>3, <1>5, <1>6
<1> QED
  BY <1>4, <1>6, <1>7 DEF StoredOnce

(* A step that stores no edge: no call gets more to do but one that begins.   *)
LEMMA CountStays ==
  ASSUME MemoryInv, Counted, NEW w \in Workers, \A u \in Workers \ {w} : work'[u] = work[u],
         UNCHANGED <<entities, relations>>,
         \/ works' = works + 1
         \/ works' = works /\ \A e \in Edges, c \in ChunkIds : MayStore(w, e, c)' => MayStore(w, e, c)
  PROVE  Counted'
<1>1. works \in Nat /\ works' \in Nat /\ works <= works' /\ relations \in [Edges \X ChunkIds -> Nat]
  BY MemoryAssumption DEF MemoryInv, MemoryShape
<1>2. ASSUME NEW e \in Edges, NEW c \in ChunkIds PROVE StoredOnce(e, c)'
  <2>1. relations[<<e, c>>] \in Nat /\ relations'[<<e, c>>] = relations[<<e, c>>]
    BY <1>1
  <2> QED
    BY <1>1, <1>2, <2>1, CountKeeps DEF Counted
<1> QED
  BY <1>2 DEF Counted

(* Every step keeps the count (memory/tree.py, memory/graph.py).              *)
LEMMA CountedStep == MemoryInv /\ Counted /\ [MemoryNext]_memoryVars => Counted'
<1> SUFFICES ASSUME MemoryInv, Counted, [MemoryNext]_memoryVars PROVE Counted'
  OBVIOUS
<1>0. MemoryShape /\ DOMAIN work = Workers
  BY DEF MemoryInv, MemoryShape
<1>1. CASE UNCHANGED memoryVars
  BY <1>1 DEF memoryVars, Counted, StoredOnce, Storers, MayStore
<1>2. ASSUME NEW w \in Workers, NEW x, Does(w, x), UNCHANGED <<entities, relations>>,
             \/ works' = works + 1
             \/ /\ works' = works
                /\ \/ x.pc \notin Grips
                   \/ /\ work[w].pc \in Grips /\ x.queue \subseteq work[w].queue
                      /\ \/ x.pc = "next"
                         \/ work[w].pc # "next" /\ x.chunk = work[w].chunk /\ x.edges \subseteq work[w].edges
                         \/ x.chunk \in work[w].queue
      PROVE  Counted'
  <2>1. work'[w] = x /\ \A u \in Workers \ {w} : work'[u] = work[u]
    BY <1>0, <1>2, DoesFacts
  <2>2. ASSUME works' = works, NEW e \in Edges, NEW c \in ChunkIds, MayStore(w, e, c)'
        PROVE  MayStore(w, e, c)
    <3>1. /\ x.pc \in Grips
          /\ c \in x.queue \/ (x.pc # "next" /\ x.chunk = c /\ e \in x.edges)
      BY <2>1, <2>2 DEF MayStore
    <3>2. /\ work[w].pc \in Grips /\ x.queue \subseteq work[w].queue
          /\ \/ x.pc = "next"
             \/ work[w].pc # "next" /\ x.chunk = work[w].chunk /\ x.edges \subseteq work[w].edges
             \/ x.chunk \in work[w].queue
      <4>1. works \in Int
        BY DEF MemoryInv, MemoryShape
      <4>2. works' # works + 1
        BY <2>2, <4>1
      <4> QED
        BY <1>2, <3>1, <4>2
    <3> QED
      BY <3>1, <3>2 DEF MayStore
  <2> QED
    BY <1>2, <2>1, <2>2, CountStays
<1>3. ASSUME NEW w \in Workers, work' = work, UNCHANGED <<entities, relations>>, works' = works + 1
      PROVE  Counted'
  BY <1>3, CountStays
<1>4. ASSUME NEW w \in Workers, AddRelation(w) PROVE Counted'
  <2> DEFINE n == work[w].chunk
             edges == work[w].edges
  <2>1. PICK e \in edges :
          /\ work[w].pc = "write" /\ entities' = entities \cup {e[1], e[2]}
          /\ relations' = [relations EXCEPT ![<<e, n>>] = @ + 1]
          /\ Does(w, [work[w] EXCEPT !.edges = edges \ {e}, !.written = TRUE])
          /\ works' = works
    BY <1>4 DEF AddRelation
  <2>2. /\ work[w] = [pc |-> "write", queue |-> work[w].queue, chunk |-> n, edges |-> edges, written |-> work[w].written]
        /\ n \in ChunkIds /\ edges \subseteq Edges /\ e \in Edges /\ n \notin work[w].queue
    BY <1>0, <2>1 DEF MemoryShape, WorkIs, Grips
  <2> DEFINE x == [pc |-> "write", queue |-> work[w].queue, chunk |-> n, edges |-> edges \ {e}, written |-> TRUE]
  <2>3. Does(w, x)
    BY <2>1, <2>2, StoredEdge
  <2>4. work'[w] = x /\ \A u \in Workers \ {w} : work'[u] = work[u]
    BY <1>0, <2>3, DoesFacts
  <2>5. works \in Nat /\ relations \in [Edges \X ChunkIds -> Nat]
    BY <1>0, MemoryAssumption DEF MemoryShape
  <2>6. ASSUME NEW f \in Edges, NEW c \in ChunkIds PROVE StoredOnce(f, c)'
    <3>1. StoredOnce(f, c) /\ relations[<<f, c>>] \in Nat
      BY <2>5 DEF Counted
    <3>2. CASE f = e /\ c = n
      <4>1. relations'[<<f, c>>] = relations[<<f, c>>] + 1
        BY <2>1, <2>2, <2>5, <3>2
      <4>2. MayStore(w, f, c) /\ ~MayStore(w, f, c)'
        BY <2>1, <2>2, <2>4, <3>2 DEF MayStore, Grips
      <4> QED
        BY <2>1, <2>4, <2>5, <3>1, <4>1, <4>2, CountKeeps
    <3>3. CASE ~(f = e /\ c = n)
      <4>1. relations'[<<f, c>>] = relations[<<f, c>>]
        BY <2>1, <2>2, <2>5, <3>3
      <4>2. MayStore(w, f, c)' => MayStore(w, f, c)
        BY <2>1, <2>4 DEF MayStore, Grips
      <4> QED
        BY <2>1, <2>4, <2>5, <3>1, <4>1, <4>2, CountKeeps
    <3> QED
      BY <3>2, <3>3
  <2>7. entities' \subseteq Names
    BY <2>1, <2>2 DEF Counted, Names
  <2> QED
    BY <2>6, <2>7 DEF Counted
<1>5. ASSUME NEW w \in Workers, TakeChunk(w) PROVE Counted'
  <2> DEFINE q == work[w].queue
             n == CHOOSE y \in q : \A z \in q : y <= z
             x == IF chunks[n] = NoChunk THEN [pc |-> "next", queue |-> q \ {n}]
                  ELSE [pc |-> "extract", queue |-> q \ {n}, chunk |-> n, edges |-> Seen(chunks[n])]
  <2>1. work[w].pc = "next" /\ q # {} /\ Does(w, x) /\ UNCHANGED <<entities, relations, works>>
    BY <1>5 DEF TakeChunk, graphVars
  <2>2. q \subseteq ChunkIds
    BY <1>0, <2>1 DEF MemoryShape, WorkIs, Grips
  <2>3. n \in q
    <3> HIDE DEF q
    <3> QED
      BY <2>1, <2>2, LeastOf
  <2>4. x.queue \subseteq q /\ (x.pc = "next" \/ x.chunk = n)
    OBVIOUS
  <2> HIDE DEF x, n
  <2> QED
    BY <1>2, <2>1, <2>3, <2>4 DEF Grips
<1>6. ASSUME NEW w \in Workers, AddUnmatched(w) \/ ReadMerged(w) \/ WriteMerged(w) \/ BackfillEnds(w)
             \/ Hydrate(w) \/ WorkerDies(w)
      PROVE  Counted'
  <2>1. PICK x : Does(w, x) /\ x.pc \notin Grips
    BY <1>6 DEF AddUnmatched, ReadMerged, WriteMerged, BackfillEnds, Hydrate, WorkerDies, NoWork, Grips
  <2>2. UNCHANGED <<entities, relations, works>>
    BY <1>6 DEF AddUnmatched, ReadMerged, WriteMerged, BackfillEnds, Hydrate, WorkerDies, graphVars
  <2> QED
    BY <1>2, <2>1, <2>2
<1>7. ASSUME NEW w \in Workers, ExtractorReplies(w) \/ Skip(w) \/ MarkExtracted(w) PROVE Counted'
  <2>1. PICK x : /\ Does(w, x) /\ x.queue = work[w].queue /\ work[w].pc \in {"extract", "write"}
                 /\ x.pc = "next" \/ (x.chunk = work[w].chunk /\ x.edges = work[w].edges)
    BY <1>7 DEF ExtractorReplies, Skip, MarkExtracted
  <2>2. UNCHANGED <<entities, relations, works>>
    BY <1>7 DEF ExtractorReplies, Skip, MarkExtracted, graphVars
  <2> QED
    BY <1>2, <2>1, <2>2 DEF Grips
<1>8. ASSUME NEW w \in Workers, NEW t \in Texts,
             \/ \E v \in {Topic[t], NoVector} : AddChunk(w, t, v)
             \/ FindNearDuplicate(w, t)
             \/ \E c \in ChunkIds, embed \in BOOLEAN : UpdateChunk(w, c, t, embed)
      PROVE  Counted'
  <2>1. UNCHANGED <<entities, relations>> /\ works' = works + 1 /\ (work' = work \/ \E x : Does(w, x))
    BY <1>8 DEF AddChunk, FindNearDuplicate, UpdateChunk, TakesUp, graphVars
  <2> QED
    BY <1>2, <1>3, <2>1
<1>9. ASSUME NEW w \in Workers,
             \/ Backfill(w)
             \/ \E c \in ChunkIds : DeleteChunk(w, c) \/ \E consent \in BOOLEAN : Rank(w, c, consent)
      PROVE  Counted'
  <2>1. UNCHANGED <<entities, relations>> /\ works' = works + 1 /\ (work' = work \/ \E x : Does(w, x))
    BY <1>9 DEF Backfill, DeleteChunk, Rank, TakesUp, graphVars
  <2> QED
    BY <1>2, <1>3, <2>1
<1> QED
  BY <1>1, <1>4, <1>5, <1>6, <1>7, <1>8, <1>9 DEF MemoryNext

(* Every variable of the memory has its type; and no edge is stored with a    *)
(* chunk more often than there were calls (memory/tree.py, memory/graph.py).  *)
LEMMA MemoryKeepsTypes == MemorySpec => []MemoryTypes
<1>1. MemoryInit => Counted
  <2> SUFFICES ASSUME MemoryInit PROVE Counted
    OBVIOUS
  <2>1. ASSUME NEW e \in Edges, NEW c \in ChunkIds PROVE StoredOnce(e, c)
    <3>1. Storers(e, c) = {} /\ relations[<<e, c>>] = 0 /\ works = 0
      BY DEF MemoryInit, Storers, MayStore, NoWork, Grips
    <3> QED
      BY <3>1, FS_EmptySet DEF StoredOnce
  <2> QED
    BY <2>1 DEF MemoryInit, Counted
<1>2. MemoryInv /\ Counted => MemoryTypes
  <2> SUFFICES ASSUME MemoryInv, Counted PROVE MemoryTypes
    OBVIOUS
  <2>1. works \in 0..MaxWork /\ relations \in [Edges \X ChunkIds -> Nat]
    BY DEF MemoryInv, MemoryShape
  <2>2. ASSUME NEW e \in Edges, NEW c \in ChunkIds PROVE relations[<<e, c>>] \in 0..MaxWork
    <3>1. IsFiniteSet(Storers(e, c)) /\ relations[<<e, c>>] + Cardinality(Storers(e, c)) <= works
      BY DEF Counted, StoredOnce
    <3>2. Cardinality(Storers(e, c)) \in Nat
      BY <3>1, FS_CardinalityType
    <3>3. relations[<<e, c>>] \in Nat
      BY <2>1
    <3> QED
      BY <2>1, <3>1, <3>2, <3>3, MemoryAssumption
  <2>3. relations \in [Edges \X ChunkIds -> 0..MaxWork]
    BY <2>1, <2>2
  <2>4. ASSUME NEW c \in ChunkIds, chunks[c] # NoChunk
        PROVE  /\ c < nextChunk
               /\ chunks[c].text \in Texts /\ chunks[c].source \in 0..MaxWork
               /\ chunks[c].tags \in BOOLEAN /\ chunks[c].done \in BOOLEAN
               /\ chunks[c].vector \in {Topic[t] : t \in Texts} \cup {NoVector}
    <3>1. chunks[c] \in Rows /\ c < nextChunk
      BY <2>4 DEF MemoryInv, MemoryShape
    <3> QED
      BY <3>1 DEF Rows, Vectors
  <2> QED
    BY <2>1, <2>3, <2>4 DEF MemoryInv, MemoryShape, Counted, MemoryTypes
<1>3. MemoryInv /\ MemoryInv' /\ Counted /\ [MemoryNext]_memoryVars => Counted'
  BY CountedStep
<1> QED
  BY <1>1, <1>2, <1>3, MemoryStays, PTL DEF MemorySpec

(* Whatever the workers interleave, a chunk that no two merged into at once   *)
(* names every source that was merged into it, and a chunk whose backfill     *)
(* nobody disturbed has every edge of its text once, or none (memory/tree.py, *)
(* memory/graph.py).                                                          *)
THEOREM MemoryStaysExact == MemorySpec => []MemoryIsExact
<1>1. MemoryInv => MemoryIsExact
  <2> SUFFICES ASSUME MemoryInv PROVE GraphIsExact
    BY DEF MemoryInv, Provenance, MemoryIsExact
  <2> QED
    BY DEF MemoryInv, GraphOk, ChunkGraph, GraphIsExact, WritingGraph
<1> QED
  BY <1>1, MemoryStays, PTL

(* No private text is shown without consent, neither by a search nor to the   *)
(* extractor, whatever was updated between the ranking and the reading        *)
(* (memory/tree.py, memory/search.py, memory/privacy.py).                     *)
THEOREM NothingPrivateIsShown == MemorySpec => []NothingPrivateLeaks
<1>1. MemoryInv => NothingPrivateLeaks
  BY DEF MemoryInv, NothingPrivateLeaks
<1> QED
  BY <1>1, MemoryStays, PTL

-----------------------------------------------------------------------------
\* The files of the vault

(* The files a walk is done with, and what holds of each of them while nobody *)
(* else writes.                                                               *)
Walked ==
  IF sync.pc = "next" THEN Present \ sync.queue
  ELSE IF sync.pc \in {"embed", "rewrite"} THEN Present \ (sync.queue \cup {sync.file})
  ELSE IF sync.pc = "synced" THEN Present
  ELSE {}
Single(f) == \A g \in Present \ {f} : disk[g].id # disk[f].id
InStep(f) ==
  /\ disk[f].id \in RowIds /\ mirrored[disk[f].id] # NoRow
  /\ Single(f) => mirrored[disk[f].id] = disk[f].body
(* The files, the chunks and the walk are well-formed.                        *)
DiskFiles == [id : 0..MaxRows, body : Bodies, mtime : 1..MaxWrites]
MirrorShape ==
  /\ disk \in [FilesOf -> DiskFiles \cup {NoFileYet}]
  /\ \A f \in Present : disk[f].id < nextRow
  /\ mirrored \in [RowIds -> Bodies \cup {NoRow}]
  /\ \A c \in RowIds : mirrored[c] # NoRow => c < nextRow
  /\ nextRow \in 1..MaxRows + 1 /\ stamp \in 0..MaxWrites
WalkShape ==
  /\ sync.pc = "write" => sync.chunk \in RowIds /\ sync.chunk < nextRow /\ sync.body \in Bodies /\ ~clean
  /\ sync.pc \in {"next", "embed", "rewrite"} => sync.queue \subseteq FilesOf
  /\ sync.pc \in {"embed", "rewrite"} =>
       sync.file \in FilesOf /\ sync.id \in 0..MaxRows /\ sync.id < nextRow /\ sync.body \in Bodies
(* While nobody else writes, every file the walk is done with is in step.     *)
WalkInv ==
  clean =>
    /\ \A f \in Walked : InStep(f)
    /\ sync.pc \in {"embed", "rewrite"} => sync.file \in Present
    /\ sync.pc = "embed" => sync.id = disk[sync.file].id /\ sync.body = disk[sync.file].body
    /\ sync.pc = "rewrite" =>
         /\ sync.id \in RowIds /\ mirrored[sync.id] = sync.body
         /\ \A f \in Present : disk[f].id # sync.id
         /\ \A f \in Walked : disk[f].id # disk[sync.file].id
MirrorInv == MirrorShape /\ WalkShape /\ WalkInv

(* A write to one file.                                                       *)
LEMMA WritingFacts ==
  ASSUME MirrorShape, NEW f \in FilesOf, NEW id \in 0..MaxRows, NEW b \in Bodies,
         Writes, Writing(f, id, b)
  PROVE  /\ disk' \in [FilesOf -> DiskFiles \cup {NoFileYet}] /\ stamp' \in 0..MaxWrites
         /\ Present' = Present \cup {f}
         /\ disk'[f].id = id /\ disk'[f].body = b
         /\ \A g \in FilesOf \ {f} : disk'[g] = disk[g]
<1> DEFINE x == [id |-> id, body |-> b, mtime |-> stamp + 1]
<1>1. stamp \in 0..MaxWrites /\ stamp < MaxWrites /\ MaxWrites \in Nat /\ stamp' = stamp + 1
  BY MirrorAssumption DEF MirrorShape, Writes
<1>2. stamp + 1 \in 1..MaxWrites
  BY <1>1
<1>3. x \in DiskFiles /\ x.id = id /\ x.body = b
  BY <1>2 DEF DiskFiles
<1>4. x # NoFileYet
  BY <1>3, MirrorAssumption DEF DiskFiles
<1>5. disk' = [disk EXCEPT ![f] = x]
  BY DEF Writing
<1> HIDE DEF x
<1>6. disk \in [FilesOf -> DiskFiles \cup {NoFileYet}]
  BY DEF MirrorShape
<1>7. disk'[f] = x /\ \A g \in FilesOf \ {f} : disk'[g] = disk[g]
  BY <1>5, <1>6
<1>8. Present' = Present \cup {f}
  BY <1>4, <1>7 DEF Present
<1> QED
  BY <1>1, <1>2, <1>3, <1>5, <1>6, <1>7, <1>8

(* Whoever else writes ends the promise of the walk.                          *)
LEMMA DisturbedKeeps ==
  ASSUME MirrorInv, MirrorShape', nextRow' \in 1..MaxRows + 1, nextRow <= nextRow',
         sync' = sync \/ sync'.pc = "none", clean' = FALSE
  PROVE  MirrorInv'
<1>1. MaxRows \in Nat /\ nextRow \in 1..MaxRows + 1
  BY MirrorAssumption DEF MirrorInv, MirrorShape
<1>2. WalkShape'
  BY <1>1 DEF MirrorInv, WalkShape, RowIds
<1> QED
  BY <1>2 DEF MirrorInv, WalkInv

(* The user writes a note or removes one.                                     *)
LEMMA UserKeeps ==
  ASSUME MirrorInv, NEW f \in FilesOf,
         (\E b \in Bodies : UserWrites(f, b)) \/ UserRemoves(f)
  PROVE  MirrorInv'
<1>1. MirrorShape /\ MaxRows \in Nat /\ nextRow \in 1..MaxRows + 1
      /\ UNCHANGED <<mirrored, nextRow, sync>> /\ clean' = FALSE /\ Writes
  BY MirrorAssumption DEF MirrorInv, MirrorShape, UserWrites, UserRemoves
<1>2. \A g \in Present : g \in FilesOf /\ disk[g] \in DiskFiles /\ disk[g].id \in 0..MaxRows /\ disk[g].id < nextRow
  BY <1>1 DEF MirrorShape, Present, DiskFiles
<1>3. MirrorShape'
  <2>1. CASE \E b \in Bodies : UserWrites(f, b)
    <3>1. PICK b \in Bodies : Writing(f, IF f \in Present THEN disk[f].id ELSE 0, b)
      BY <2>1 DEF UserWrites
    <3> DEFINE id == IF f \in Present THEN disk[f].id ELSE 0
    <3>2. id \in 0..MaxRows /\ id < nextRow
      BY <1>1, <1>2
    <3>3. Writing(f, id, b)
      BY <3>1
    <3> HIDE DEF id
    <3>4. /\ disk' \in [FilesOf -> DiskFiles \cup {NoFileYet}] /\ stamp' \in 0..MaxWrites
          /\ Present' = Present \cup {f} /\ disk'[f].id = id
          /\ \A g \in FilesOf \ {f} : disk'[g] = disk[g]
      BY <1>1, <3>2, <3>3, WritingFacts
    <3> QED
      BY <1>1, <1>2, <3>2, <3>4 DEF MirrorShape
  <2>2. CASE UserRemoves(f)
    <3>1. disk' = [disk EXCEPT ![f] = NoFileYet] /\ stamp' = stamp + 1 /\ stamp < MaxWrites
      BY <2>2 DEF UserRemoves, Writes
    <3>2. stamp' \in 0..MaxWrites
      BY <3>1, MirrorAssumption DEF MirrorInv, MirrorShape
    <3>3. disk' \in [FilesOf -> DiskFiles \cup {NoFileYet}] /\ \A g \in Present' : g \in Present /\ disk'[g] = disk[g]
      BY <1>1, <3>1 DEF MirrorShape, Present
    <3> QED
      BY <1>1, <3>2, <3>3 DEF MirrorShape
  <2> QED
    BY <2>1, <2>2
<1>4. nextRow' \in 1..MaxRows + 1 /\ nextRow <= nextRow'
  BY <1>1
<1> QED
  BY <1>1, <1>3, <1>4, DisturbedKeeps

(* Somebody else changes the chunks while a walk may be under way.            *)
LEMMA TreeKeeps ==
  ASSUME MirrorInv,
         \/ \E c \in RowIds : (\E b \in Bodies : ChunkChanges(c, b)) \/ ChunkDeleted(c)
         \/ \E b \in Bodies : ChunkAdded(b)
  PROVE  MirrorInv'
<1>1. MirrorShape /\ MaxRows \in Nat /\ MaxWrites \in Nat /\ nextRow \in 1..MaxRows + 1 /\ stamp \in 0..MaxWrites
  BY MirrorAssumption DEF MirrorInv, MirrorShape
<1>2. UNCHANGED <<disk, sync>> /\ clean' = FALSE /\ stamp' = stamp + 1 /\ stamp < MaxWrites
  BY DEF ChunkChanges, ChunkDeleted, ChunkAdded, Writes
<1>3. stamp' \in 0..MaxWrites /\ Present' = Present
  BY <1>1, <1>2 DEF Present
<1>4. /\ mirrored' \in [RowIds -> Bodies \cup {NoRow}] /\ nextRow' \in 1..MaxRows + 1 /\ nextRow <= nextRow'
      /\ \A c \in RowIds : mirrored'[c] # NoRow => c < nextRow'
  <2>1. CASE \E c \in RowIds, b \in Bodies : ChunkChanges(c, b)
    BY <1>1, <2>1 DEF ChunkChanges, MirrorShape, Updated
  <2>2. CASE \E c \in RowIds : ChunkDeleted(c)
    BY <1>1, <2>2 DEF ChunkDeleted, MirrorShape
  <2>3. CASE \E b \in Bodies : ChunkAdded(b)
    <3>1. nextRow \in RowIds /\ nextRow' = nextRow + 1 /\ \A c \in RowIds : c < nextRow => c < nextRow + 1
      BY <1>1, <2>3 DEF ChunkAdded, RowIds
    <3> QED
      BY <1>1, <2>3, <3>1 DEF ChunkAdded, MirrorShape
  <2> QED
    BY <2>1, <2>2, <2>3
<1>5. \A f \in Present : disk[f].id < nextRow'
  <2> SUFFICES ASSUME NEW f \in Present PROVE disk[f].id < nextRow'
    OBVIOUS
  <2>1. disk[f].id \in 0..MaxRows /\ disk[f].id < nextRow
    BY <1>1 DEF MirrorShape, Present, DiskFiles
  <2> QED
    BY <1>1, <1>4, <2>1
<1>6. MirrorShape'
  BY <1>1, <1>2, <1>3, <1>4, <1>5 DEF MirrorShape
<1> QED
  BY <1>2, <1>4, <1>6, DisturbedKeeps

(* A walk begins and ends.                                                    *)
LEMMA WalkEndsKeep ==
  ASSUME MirrorInv,
         (\E c \in RowIds : Export(c)) \/ SyncFromDisk \/ SyncFails \/ SyncDone \/ AfterSync
  PROVE  MirrorInv'
<1>1. UNCHANGED <<disk, mirrored, nextRow, stamp>> /\ MirrorShape
  BY DEF MirrorInv, Export, SyncFromDisk, SyncFails, SyncDone, AfterSync
<1>2. MirrorShape' /\ Present' = Present /\ Present \subseteq FilesOf
  BY <1>1 DEF MirrorShape, Present
<1>3. CASE \E c \in RowIds : Export(c)
  <2>1. PICK c \in RowIds : mirrored[c] # NoRow /\ sync' = [pc |-> "write", chunk |-> c, body |-> mirrored[c]] /\ clean' = FALSE
    BY <1>3 DEF Export
  <2>2. c < nextRow /\ mirrored[c] \in Bodies
    BY <1>1, <2>1 DEF MirrorShape
  <2> QED
    BY <1>1, <1>2, <2>1, <2>2 DEF MirrorInv, WalkShape, WalkInv
<1>4. CASE SyncFromDisk
  <2>1. sync' = [pc |-> "next", queue |-> Present]
    BY <1>4 DEF SyncFromDisk
  <2> QED
    BY <1>2, <2>1 DEF MirrorInv, WalkShape, WalkInv, Walked
<1>5. CASE SyncFails
  BY <1>2, <1>5 DEF SyncFails, MirrorInv, WalkShape, WalkInv, Rest
<1>6. CASE SyncDone
  <2>1. sync.pc = "next" /\ sync.queue = {} /\ clean' = clean /\ (clean => sync'.pc = "synced") /\ sync'.pc \in {"none", "synced"}
    BY <1>6 DEF SyncDone, Rest
  <2>2. clean => Walked = Present /\ Walked' = Present
    BY <1>2, <2>1 DEF Walked
  <2>3. WalkInv'
    BY <1>1, <1>2, <2>1, <2>2 DEF MirrorInv, WalkInv, InStep, Single
  <2> QED
    BY <1>2, <2>1, <2>3 DEF MirrorInv, WalkShape
<1>7. CASE AfterSync
  BY <1>2, <1>7 DEF AfterSync, MirrorInv, WalkShape, WalkInv, Walked, Rest
<1> QED
  BY <1>3, <1>4, <1>5, <1>6, <1>7

(* The walk reads the next file.                                              *)
LEMMA ReadFileKeeps ==
  ASSUME MirrorInv, NEW f \in FilesOf, ReadFile(f)
  PROVE  MirrorInv'
<1>1. UNCHANGED <<disk, mirrored, nextRow, stamp, clean>> /\ MirrorShape /\ sync.pc = "next" /\ f \in sync.queue /\ sync.queue \subseteq FilesOf
  BY DEF MirrorInv, WalkShape, ReadFile
<1>2. MirrorShape' /\ Present' = Present
  BY <1>1 DEF MirrorShape, Present
<1>3. CASE f \notin Present
  BY <1>2, <1>3 DEF ReadFile, MirrorInv, WalkShape, WalkInv, Walked, Rest
<1>4. CASE f \in Present
  <2>1. sync' = [pc |-> "embed", queue |-> sync.queue \ {f}, file |-> f, id |-> disk[f].id, body |-> disk[f].body]
    BY <1>4 DEF ReadFile
  <2>2. disk[f].id \in 0..MaxRows /\ disk[f].body \in Bodies /\ disk[f].id < nextRow
    BY <1>1, <1>4 DEF MirrorShape, Present, DiskFiles
  <2>3. Walked' = Walked
    BY <1>1, <1>2, <2>1 DEF Walked
  <2> QED
    BY <1>1, <1>2, <1>4, <2>1, <2>2, <2>3 DEF MirrorInv, WalkShape, WalkInv, InStep, Single
<1> QED
  BY <1>3, <1>4

(* An export writes the file of its chunk.                                    *)
LEMMA WriteChunkKeeps ==
  ASSUME MirrorInv, WriteChunk
  PROVE  MirrorInv'
<1>1. /\ sync.pc = "write" /\ MirrorShape /\ sync.chunk \in RowIds /\ sync.chunk < nextRow /\ sync.body \in Bodies
      /\ ~clean /\ Writes /\ Writing(sync.chunk, sync.chunk, sync.body) /\ sync' = Rest
      /\ UNCHANGED <<mirrored, nextRow, clean>>
  BY DEF MirrorInv, WalkShape, WriteChunk
<1>2. sync.chunk \in FilesOf /\ sync.chunk \in 0..MaxRows
  BY <1>1, MirrorAssumption DEF FilesOf, RowIds
<1>3. /\ disk' \in [FilesOf -> DiskFiles \cup {NoFileYet}] /\ stamp' \in 0..MaxWrites
      /\ Present' = Present \cup {sync.chunk} /\ disk'[sync.chunk].id = sync.chunk
      /\ \A g \in FilesOf \ {sync.chunk} : disk'[g] = disk[g]
  BY <1>1, <1>2, WritingFacts
<1>4. MirrorShape'
  BY <1>1, <1>3 DEF MirrorShape, Present
<1> QED
  BY <1>1, <1>4 DEF MirrorInv, WalkShape, WalkInv, Rest

(* The file of a chunk updates the chunk. Another file of that chunk is not   *)
(* single, and no file of another chunk is touched.                           *)
LEMMA UpsertUpdates ==
  ASSUME MirrorInv, sync.pc = "embed", Exists(sync.id),
         mirrored' = Updated(sync.id, sync.body),
         sync' = [pc |-> "next", queue |-> sync.queue],
         UNCHANGED <<nextRow, disk, stamp, clean>>
  PROVE  MirrorInv'
<1> DEFINE g == sync.file
           n == sync.id
<1>1. /\ MirrorShape /\ g \in FilesOf /\ sync.body \in Bodies /\ n \in RowIds /\ mirrored[n] # NoRow
      /\ sync.queue \subseteq FilesOf
  BY DEF MirrorInv, WalkShape, Exists
<1>2. mirrored'[n] = sync.body /\ \A c \in RowIds \ {n} : mirrored'[c] = mirrored[c]
  BY <1>1 DEF Updated, MirrorShape
<1>3. mirrored' \in [RowIds -> Bodies \cup {NoRow}] /\ \A c \in RowIds : mirrored'[c] # NoRow => mirrored[c] # NoRow
  BY <1>1 DEF Updated, MirrorShape
<1>4. MirrorShape' /\ Present' = Present
  BY <1>1, <1>3 DEF MirrorShape, Present
<1>5. WalkShape'
  BY <1>1 DEF WalkShape
<1>6. ASSUME clean PROVE WalkInv'
  <2>1. g \in Present /\ n = disk[g].id /\ sync.body = disk[g].body /\ \A f \in Walked : InStep(f)
    BY <1>6 DEF MirrorInv, WalkInv
  <2>2. Walked' \subseteq Walked \cup {g} /\ Walked \subseteq Present
    BY <1>4 DEF Walked
  <2>3. sync.body # NoRow
    BY <1>1, MirrorAssumption
  <2>4. \A f \in {g} : InStep(f)'
    BY <1>1, <1>2, <2>1, <2>3 DEF InStep
  <2>5. ASSUME NEW f \in Walked, f # g PROVE InStep(f)'
    <3>1. InStep(f) /\ f \in Present /\ disk' = disk
      BY <2>1, <2>2
    <3>2. CASE disk[f].id = n
      BY <1>1, <1>2, <1>4, <2>1, <2>3, <2>5, <3>1, <3>2 DEF InStep, Single
    <3>3. CASE disk[f].id # n
      BY <1>2, <1>4, <3>1, <3>3 DEF InStep, Single
    <3> QED
      BY <3>2, <3>3
  <2> QED
    BY <2>2, <2>4, <2>5 DEF WalkInv
<1>7. ~clean => WalkInv'
  BY DEF WalkInv
<1> QED
  BY <1>4, <1>5, <1>6, <1>7 DEF MirrorInv

(* Any other file is inserted. No file is of the new chunk, nor is a file the *)
(* walk is done with of the chunk the file was of.                            *)
LEMMA UpsertInserts ==
  ASSUME MirrorInv, sync.pc = "embed", ~Exists(sync.id), nextRow <= MaxRows,
         mirrored' = [mirrored EXCEPT ![nextRow] = sync.body],
         nextRow' = nextRow + 1,
         sync' = [pc |-> "rewrite", queue |-> sync.queue, file |-> sync.file,
                  id |-> nextRow, body |-> sync.body],
         UNCHANGED <<disk, stamp, clean>>
  PROVE  MirrorInv'
<1> DEFINE g == sync.file
<1>1. /\ MirrorShape /\ g \in FilesOf /\ sync.body \in Bodies /\ sync.queue \subseteq FilesOf
      /\ MaxRows \in Nat /\ nextRow \in 1..MaxRows + 1 /\ nextRow \in RowIds
  BY MirrorAssumption DEF MirrorInv, MirrorShape, WalkShape, RowIds
<1>2. /\ mirrored'[nextRow] = sync.body /\ \A c \in RowIds \ {nextRow} : mirrored'[c] = mirrored[c]
      /\ mirrored' \in [RowIds -> Bodies \cup {NoRow}]
  BY <1>1 DEF MirrorShape
<1>3. Present' = Present /\ \A f \in Present : disk[f].id \in 0..MaxRows /\ disk[f].id < nextRow
  BY <1>1 DEF MirrorShape, Present, DiskFiles
<1>4. nextRow' \in 1..MaxRows + 1 /\ nextRow < nextRow' /\ nextRow \in 0..MaxRows
      /\ \A c \in RowIds : c < nextRow => c < nextRow'
  BY <1>1 DEF RowIds
<1>5. \A f \in Present : disk[f].id < nextRow' /\ disk[f].id # nextRow
  BY <1>1, <1>3
<1>6. MirrorShape'
  BY <1>1, <1>2, <1>3, <1>4, <1>5 DEF MirrorShape
<1>7. WalkShape'
  BY <1>1, <1>4 DEF WalkShape
<1>8. ASSUME clean PROVE WalkInv'
  <2>1. g \in Present /\ sync.id = disk[g].id /\ sync.body = disk[g].body /\ \A f \in Walked : InStep(f)
    BY <1>8 DEF MirrorInv, WalkInv
  <2>2. Walked' = Walked /\ Walked \subseteq Present
    BY <1>3 DEF Walked
  <2>3. \A f \in Walked : disk[f].id # disk[g].id
    BY <2>1 DEF InStep, Exists
  <2>4. \A f \in Walked : InStep(f)'
    BY <1>2, <1>3, <1>5, <2>1, <2>2 DEF InStep, Single
  <2> QED
    BY <1>1, <1>2, <1>3, <1>5, <2>1, <2>2, <2>3, <2>4 DEF WalkInv
<1>9. ~clean => WalkInv'
  BY DEF WalkInv
<1> QED
  BY <1>6, <1>7, <1>8, <1>9 DEF MirrorInv

(* The file of a new chunk gets its id.                                       *)
LEMMA RewriteKeeps ==
  ASSUME MirrorInv, Rewrite
  PROVE  MirrorInv'
<1> DEFINE g == sync.file
           n == sync.id
<1>1. /\ sync.pc = "rewrite" /\ MirrorShape /\ g \in FilesOf /\ n \in 0..MaxRows /\ n < nextRow /\ sync.body \in Bodies
      /\ sync.queue \subseteq FilesOf /\ Writes /\ Writing(g, n, sync.body)
      /\ sync' = [pc |-> "next", queue |-> sync.queue] /\ UNCHANGED <<mirrored, nextRow, clean>>
  BY DEF MirrorInv, WalkShape, Rewrite
<1>2. /\ disk' \in [FilesOf -> DiskFiles \cup {NoFileYet}] /\ stamp' \in 0..MaxWrites
      /\ Present' = Present \cup {g} /\ disk'[g].id = n /\ disk'[g].body = sync.body
      /\ \A f \in FilesOf \ {g} : disk'[f] = disk[f]
  BY <1>1, WritingFacts
<1>3. MirrorShape' /\ WalkShape' /\ Present \subseteq FilesOf
  BY <1>1, <1>2 DEF MirrorShape, WalkShape, Present
<1>4. ASSUME clean PROVE WalkInv'
  <2>1. /\ g \in Present /\ n \in RowIds /\ mirrored[n] = sync.body /\ \A f \in Walked : InStep(f)
        /\ \A f \in Present : disk[f].id # n
        /\ \A f \in Walked : disk[f].id # disk[g].id
    BY <1>1, <1>4 DEF MirrorInv, WalkInv
  <2>2. /\ Present' = Present /\ Walked' \subseteq Walked \cup {g} /\ Walked \subseteq Present
        /\ g \notin Walked
    BY <1>1, <1>2, <2>1 DEF Walked
  <2>3. mirrored[n] # NoRow
    BY <1>1, <2>1, MirrorAssumption
  <2>4. \A f \in {g} : InStep(f)'
    BY <1>1, <1>2, <2>1, <2>3 DEF InStep
  <2>5. ASSUME NEW f \in Walked PROVE InStep(f)'
    <3>1. InStep(f) /\ f \in Present /\ f # g /\ disk'[f] = disk[f] /\ mirrored' = mirrored
      BY <1>1, <1>2, <1>3, <2>1, <2>2
    <3>2. Single(f)' => Single(f)
      <4>1. \A h \in Present \ {f, g} : disk'[h] = disk[h]
        BY <1>2, <1>3
      <4> QED
        BY <2>1, <2>2, <3>1, <4>1 DEF Single
    <3> QED
      BY <3>1, <3>2 DEF InStep
  <2> QED
    BY <1>1, <2>2, <2>4, <2>5 DEF WalkInv
<1>5. ~clean => WalkInv'
  BY <1>1 DEF WalkInv
<1> QED
  BY <1>3, <1>4, <1>5 DEF MirrorInv

(* After a synchronisation that nobody disturbed the files and the chunks     *)
(* agree, and the rows and files are well-formed (vault.py).                  *)
THEOREM SyncLeavesNoDrift == MirrorSpec => [](MirrorTypes /\ SyncIsFaithful)
<1>1. MirrorInit => MirrorInv
  <2> SUFFICES ASSUME MirrorInit PROVE MirrorInv
    OBVIOUS
  <2>1. Present = {} /\ sync.pc = "none" /\ clean = FALSE
    BY DEF MirrorInit, Present, Rest
  <2> QED
    BY <2>1, MirrorAssumption DEF MirrorInit, MirrorInv, MirrorShape, WalkShape, WalkInv
<1>2. MirrorInv /\ [MirrorNext]_mirrorVars => MirrorInv'
  <2> SUFFICES ASSUME MirrorInv, [MirrorNext]_mirrorVars PROVE MirrorInv'
    OBVIOUS
  <2>1. CASE UNCHANGED <<disk, mirrored, nextRow, sync, stamp, clean>>
    BY <2>1 DEF MirrorInv, MirrorShape, WalkShape, WalkInv, Walked, Present, InStep, Single
  <2>2. CASE Upsert
    <3>1. sync.pc = "embed" /\ UNCHANGED <<disk, stamp, clean>>
      BY <2>2 DEF Upsert
    <3>2. CASE Exists(sync.id)
      BY <2>2, <3>1, <3>2, UpsertUpdates DEF Upsert
    <3>3. CASE ~Exists(sync.id)
      BY <2>2, <3>1, <3>3, UpsertInserts DEF Upsert
    <3> QED
      BY <3>2, <3>3
  <2> QED
    BY <2>1, <2>2, UserKeeps, TreeKeeps, WalkEndsKeep, ReadFileKeeps, WriteChunkKeeps, RewriteKeeps
       DEF MirrorNext, mirrorVars, Poll
<1>3. MirrorInv => MirrorTypes
  BY DEF MirrorInv, MirrorShape, MirrorTypes, Present, DiskFiles
<1>4. MirrorInv => SyncIsFaithful
  BY DEF MirrorInv, WalkInv, Walked, InStep, Single, SyncIsFaithful
<1> QED
  BY <1>1, <1>2, <1>3, <1>4, PTL DEF MirrorSpec

-----------------------------------------------------------------------------
\* What the model is shown

(* The rows of a history, and where a run of results ends.                    *)
ViewRows == [role : {"user", "assistant", "tool"}, size : Sizes \cup {1}, calls : 0..MaxToolCalls]
Ends(s, i) == {j \in (i + 1)..Len(s) : s[j].role # "tool"} \cup {Len(s) + 1}
(* The view is the compacted history of this attempt or the one before.       *)
ViewIsShown ==
  /\ messages # <<>>
  /\ \E t \in {Threshold, LowThreshold} :
       view = Compacted(messages, t).rows /\ cut = Compacted(messages, t).cut
ViewInv ==
  /\ messages \in Seq(ViewRows) /\ view \in Seq(ViewRows)
  /\ cut \in BOOLEAN /\ attempt \in 0..2
  /\ attempt # 0 => ViewIsShown

(* The empty history.                                                         *)
LEMMA NoRows == <<>> \in Seq(ViewRows)
OBVIOUS

(* The least of a set is the one that is below all others.                    *)
LEMMA MinIs ==
  ASSUME NEW S \in SUBSET Int, NEW m \in S, \A y \in S : m <= y
  PROVE  Min(S) = m
<1>1. \A x \in S : (\A y \in S : x <= y) => x = m
  OBVIOUS
<1> QED
  BY <1>1 DEF Min

(* A set of naturals that is not empty has a least element.                   *)
LEMMA MinExists ==
  ASSUME NEW S \in SUBSET Nat, S # {}
  PROVE  Min(S) \in S /\ \A y \in S : Min(S) <= y
<1>1. PICK m \in S : \A y \in S : ~(<<y, m>> \in OpToRel(<, Nat))
  BY NatLessThanWellFounded, WFMin
<1>2. \A y \in S : m <= y
  <2>1. \A y \in S : ~(y < m)
    BY <1>1 DEF OpToRel
  <2> QED
    BY <2>1
<1>3. Min(S) = m
  <2>1. S \in SUBSET Int
    OBVIOUS
  <2> QED
    BY <1>2, <2>1, MinIs
<1> QED
  BY <1>2, <1>3

(* Two sequences with the same end have the same results in it.               *)
LEMMA ResultsShift ==
  ASSUME NEW s \in Seq(ViewRows), NEW r \in Seq(ViewRows), NEW d \in Int, NEW i \in 1..Len(s),
         Len(s) = Len(r) + d, i - d \in 1..Len(r),
         \A j \in (i + 1)..Len(s) : r[j - d] = s[j]
  PROVE  Results(r, i - d) = Results(s, i)
<1> DEFINE m == Min(Ends(s, i))
<1>1. /\ Len(s) \in Nat /\ Len(r) \in Nat /\ i \in Nat
      /\ Ends(s, i) \subseteq Nat /\ Ends(r, i - d) \subseteq Int /\ Len(s) + 1 \in Ends(s, i)
  BY DEF Ends
<1>2. m \in Ends(s, i) /\ \A y \in Ends(s, i) : m <= y
  <2>1. Ends(s, i) # {}
    BY <1>1
  <2> QED
    BY <1>1, <2>1, MinExists
<1>3. m - d \in Ends(r, i - d)
  BY <1>1, <1>2 DEF Ends
<1>4. \A y \in Ends(r, i - d) : y + d \in Ends(s, i) /\ y \in Int
  <2> SUFFICES ASSUME NEW y \in Ends(r, i - d) PROVE y + d \in Ends(s, i) /\ y \in Int
    OBVIOUS
  <2>1. CASE y = Len(r) + 1
    BY <1>1, <2>1 DEF Ends
  <2>2. CASE y \in (i - d + 1)..Len(r) /\ r[y].role # "tool"
    <3>1. y + d \in (i + 1)..Len(s) /\ (y + d) - d = y
      BY <1>1, <2>2
    <3>2. s[y + d].role # "tool"
      BY <2>2, <3>1
    <3> QED
      BY <3>1, <3>2, <2>2 DEF Ends
  <2> QED
    BY <2>1, <2>2 DEF Ends
<1>5. m \in Int
  BY <1>1, <1>2
<1> HIDE DEF m
<1>6. \A y \in Ends(r, i - d) : m - d <= y
  BY <1>2, <1>4, <1>5
<1>7. Min(Ends(r, i - d)) = m - d
  BY <1>1, <1>3, <1>6, MinIs
<1>8. Results(s, i) = m - i - 1 /\ Results(r, i - d) = Min(Ends(r, i - d)) - (i - d) - 1
  BY DEF Results, Ends, m
<1> QED
  BY <1>1, <1>5, <1>7, <1>8

(* A first row that is not followed by tool rows has no result.               *)
LEMMA NoResults ==
  ASSUME NEW r \in Seq(ViewRows), 2 \in 1..Len(r), r[2].role # "tool"
  PROVE  Results(r, 1) = 0
<1>1. 2 \in Ends(r, 1) /\ Ends(r, 1) \in SUBSET Int /\ \A y \in Ends(r, 1) : 2 <= y
  BY DEF Ends
<1>2. Min(Ends(r, 1)) = 2
  BY <1>1, MinIs
<1>3. Results(r, 1) = Min(Ends(r, 1)) - 1 - 1
  BY DEF Results, Ends
<1> QED
  BY <1>2, <1>3

(* The rows a tail leaves out, and what is behind them.                       *)
LEMMA FromFacts ==
  ASSUME NEW s \in Seq(ViewRows), NEW i \in 1..Len(s)
  PROVE  /\ From(s, i) \in Seq(ViewRows) /\ Len(From(s, i)) = Len(s) - i + 1
         /\ \A j \in 1..(Len(s) - i + 1) : From(s, i)[j] = s[i + j - 1]
BY DEF From

(* The summary in front of a tail.                                            *)
LEMMA WithSummary ==
  ASSUME NEW s \in Seq(ViewRows)
  PROVE  /\ <<SummaryRow>> \o s \in Seq(ViewRows) /\ Len(<<SummaryRow>> \o s) = Len(s) + 1
         /\ (<<SummaryRow>> \o s)[1] = SummaryRow
         /\ \A i \in 2..(Len(s) + 1) : (<<SummaryRow>> \o s)[i] = s[i - 1]
         /\ SummaryRow.role = "assistant" /\ SummaryRow.calls = 0
<1>1. SummaryRow \in ViewRows /\ SummaryRow.role = "assistant" /\ SummaryRow.calls = 0
  BY ViewAssumption DEF SummaryRow, Message, ViewRows
<1> QED
  BY <1>1

(* The tail that is kept begins inside the history, with a row that is no     *)
(* result (context/compressor.py).                                            *)
LEMMA StartFacts ==
  ASSUME NEW s \in Seq(ViewRows), s # <<>>
  PROVE  RepairedStart(s) # 0 =>
           RepairedStart(s) \in 1..Len(s) /\ s[RepairedStart(s)].role # "tool"
<1> DEFINE starts == {i \in DOMAIN s : Tokens(From(s, i)) <= TailBudget} \cup {Len(s)}
           left == {i \in TailStart(s)..Len(s) : s[i].role # "tool"}
<1>1. Len(s) \in Nat /\ Len(s) # 0 /\ starts \in SUBSET Nat /\ starts # {} /\ starts \subseteq 1..Len(s)
  OBVIOUS
<1>2. TailStart(s) \in 1..Len(s)
  <2>1. TailStart(s) = Min(starts)
    BY DEF TailStart
  <2> HIDE DEF starts
  <2> QED
    BY <1>1, <2>1, MinExists
<1>3. left \in SUBSET Nat /\ left \subseteq 1..Len(s)
  BY <1>1, <1>2
<1>4. RepairedStart(s) = IF left = {} THEN 0 ELSE Min(left)
  BY DEF RepairedStart
<1>5. CASE left # {}
  <2>1. Min(left) \in left
    <3> HIDE DEF left
    <3> QED
      BY <1>3, <1>5, MinExists
  <2> QED
    BY <1>3, <1>4, <1>5, <2>1
<1>6. CASE left = {}
  <2> HIDE DEF left
  <2>1. RepairedStart(s) = 0
    BY <1>4, <1>6, Zenon
  <2> QED
    BY <2>1
<1> QED
  BY <1>5, <1>6

(* Without its leading results a history is a history.                        *)
LEMMA StrippedIsRows ==
  ASSUME NEW s \in Seq(ViewRows), s # <<>>
  PROVE  Stripped(s) \in Seq(ViewRows)
<1>1. s[1] \in ViewRows /\ 1 \in DOMAIN s
  OBVIOUS
<1>2. [s[1] EXCEPT !.calls = 0] \in ViewRows
  BY <1>1, ViewAssumption DEF ViewRows
<1>3. [s EXCEPT ![1].calls = 0] = [s EXCEPT ![1] = [s[1] EXCEPT !.calls = 0]]
  BY <1>1
<1> QED
  BY <1>1, <1>2, <1>3 DEF Stripped

(* A compacted history is a history.                                          *)
LEMMA CompactedIsRows ==
  ASSUME NEW s \in Seq(ViewRows), s # <<>>, NEW t
  PROVE  Compacted(s, t).rows \in Seq(ViewRows) /\ Compacted(s, t).cut \in BOOLEAN
<1> DEFINE start == RepairedStart(s)
           from == IF start = 0 THEN Max({1, Len(s) - 2}) ELSE start
           back == From(s, from)
<1>1. Len(s) \in Nat /\ Len(s) # 0
  OBVIOUS
<1>2. Max({1, Len(s) - 2}) \in 1..Len(s)
  <2> DEFINE two == {1, Len(s) - 2}
             m == IF 1 >= Len(s) - 2 THEN 1 ELSE Len(s) - 2
  <2>1. m \in two /\ (\A y \in two : m >= y) /\ m \in 1..Len(s) /\ two \subseteq Int
    BY <1>1
  <2>2. \A x \in two : (\A y \in two : x >= y) => x = m
    BY <2>1
  <2> HIDE DEF two, m
  <2>3. Max(two) \in two /\ Max(two) = m
    BY <2>1, <2>2 DEF Max
  <2> QED
    BY <2>1, <2>3 DEF two
<1>3. from \in 1..Len(s)
  BY <1>2, StartFacts
<1>4. Compacted(s, t) = IF ~Compacts(s, t) \/ from = 1 THEN [rows |-> s, cut |-> FALSE]
        ELSE [rows |-> <<SummaryRow>> \o IF start = 0 THEN back ELSE Stripped(back), cut |-> start = 0]
  BY DEF Compacted
<1> HIDE DEF from, start
<1>5. back \in Seq(ViewRows) /\ back # <<>>
  <2>1. back \in Seq(ViewRows) /\ Len(back) = Len(s) - from + 1
    BY <1>3, FromFacts
  <2> QED
    BY <1>1, <1>3, <2>1
<1>6. (IF start = 0 THEN back ELSE Stripped(back)) \in Seq(ViewRows)
  BY <1>5, StrippedIsRows
<1> DEFINE stays == IF start = 0 THEN back ELSE Stripped(back)
<1>7. stays \in Seq(ViewRows)
  BY <1>6
<1> HIDE DEF stays
<1>8. <<SummaryRow>> \o stays \in Seq(ViewRows)
  BY <1>7, WithSummary
<1>9. Compacted(s, t) = IF ~Compacts(s, t) \/ from = 1 THEN [rows |-> s, cut |-> FALSE]
        ELSE [rows |-> <<SummaryRow>> \o stays, cut |-> start = 0]
  BY <1>4 DEF stays
<1>10. CASE ~Compacts(s, t) \/ from = 1
  <2>1. Compacted(s, t) = [rows |-> s, cut |-> FALSE]
    BY <1>9, <1>10
  <2> QED
    BY <2>1
<1>11. CASE ~(~Compacts(s, t) \/ from = 1)
  <2>1. Compacted(s, t) = [rows |-> <<SummaryRow>> \o stays, cut |-> start = 0]
    BY <1>9, <1>11
  <2>2. Compacted(s, t).rows = <<SummaryRow>> \o stays /\ Compacted(s, t).cut = (start = 0)
    BY <2>1
  <2>3. (start = 0) \in BOOLEAN
    OBVIOUS
  <2> QED
    BY <1>8, <2>2, <2>3
<1> QED
  BY <1>10, <1>11

(* What compaction leaves of rows that are accepted is accepted: the tail     *)
(* begins with a row that is no result, and its calls keep their results.     *)
LEMMA CompactionIsAccepted ==
  ASSUME NEW s \in Seq(ViewRows), s # <<>>, NEW t, Accepted(s), ~Compacted(s, t).cut
  PROVE  Accepted(Compacted(s, t).rows)
<1> DEFINE start == RepairedStart(s)
           from == IF start = 0 THEN Max({1, Len(s) - 2}) ELSE start
           back == From(s, start)
           v == <<SummaryRow>> \o back
<1>1. Compacted(s, t) = IF ~Compacts(s, t) \/ from = 1 THEN [rows |-> s, cut |-> FALSE]
        ELSE [rows |-> <<SummaryRow>> \o IF start = 0 THEN From(s, from) ELSE Stripped(From(s, from)),
              cut |-> start = 0]
  BY DEF Compacted
<1>2. CASE ~Compacts(s, t) \/ from = 1
  BY <1>1, <1>2
<1>3. CASE ~(~Compacts(s, t) \/ from = 1)
  <2>0. Compacted(s, t) = [rows |-> <<SummaryRow>> \o IF start = 0 THEN From(s, from) ELSE Stripped(From(s, from)),
                           cut |-> start = 0]
    BY <1>1, <1>3
  <2>1. start # 0 /\ from = start /\ start # 1 /\ Compacted(s, t).rows = <<SummaryRow>> \o Stripped(back)
    <3>1. ~(start = 0)
      <4> HIDE DEF start, from
      <4>1. Compacted(s, t).cut = (start = 0)
        BY <2>0
      <4> QED
        BY <4>1
    <3>2. from = start /\ start # 1
      BY <1>3, <3>1
    <3> HIDE DEF start, from
    <3> QED
      BY <2>0, <3>1, <3>2
  <2>2. start \in 2..Len(s) /\ s[start].role # "tool" /\ Len(s) \in Nat /\ start \in 1..Len(s)
    BY <2>1, StartFacts
  <2> HIDE DEF start, from
  <2>3. /\ back \in Seq(ViewRows) /\ Len(back) = Len(s) - start + 1
        /\ \A j \in 1..(Len(s) - start + 1) : back[j] = s[start + j - 1]
    BY <2>2, FromFacts
  <2> HIDE DEF back
  <2>4. back[1] = s[start] /\ 1 \in 1..Len(back) /\ DOMAIN back = 1..Len(back)
    BY <2>2, <2>3
  <2>5. Results(back, 1) = Results(s, start)
    <3>1. Len(s) = Len(back) + (start - 1) /\ start - (start - 1) = 1 /\ start - 1 \in Int
      BY <2>2, <2>3
    <3>2. \A j \in (start + 1)..Len(s) : back[j - (start - 1)] = s[j]
      BY <2>2, <2>3
    <3>3. start - (start - 1) \in 1..Len(back)
      BY <2>4, <3>1
    <3>4. Results(back, start - (start - 1)) = Results(s, start)
      BY <2>2, <2>3, <3>1, <3>2, <3>3, ResultsShift
    <3> QED
      BY <3>1, <3>4
  <2>6. Results(s, start) = s[start].calls /\ s[start].calls \in Nat
    <3>1. s[start] \in ViewRows /\ start \in DOMAIN s
      BY <2>2
    <3>2. s[start].calls \in Nat
      BY <3>1, ViewAssumption DEF ViewRows
    <3> QED
      BY <2>2, <3>1, <3>2 DEF Accepted
  <2>7. Stripped(back) = back
    BY <2>4, <2>5, <2>6 DEF Stripped
  <2>8. /\ v \in Seq(ViewRows) /\ Len(v) = Len(back) + 1 /\ v[1] = SummaryRow
        /\ \A i \in 2..(Len(back) + 1) : v[i] = back[i - 1]
        /\ SummaryRow.role = "assistant" /\ SummaryRow.calls = 0
    BY <2>3, WithSummary
  <2>9. \A i \in 2..Len(v) : v[i] = s[i + (start - 2)]
    BY <2>2, <2>3, <2>8
  <2> HIDE DEF v
  <2>10. Results(v, 1) = 0
    <3>1. 2 \in 2..Len(v) /\ 2 \in 1..Len(v) /\ 2 + (start - 2) = start
      <4>1. Len(back) >= 1 /\ Len(back) \in Nat /\ Len(v) = Len(back) + 1 /\ start \in Int
        BY <2>2, <2>3, <2>8
      <4> QED
        BY <4>1
    <3>2. v[2] = s[2 + (start - 2)]
      BY <2>9, <3>1
    <3>3. v[2].role # "tool"
      BY <2>2, <3>1, <3>2
    <3>4. v \in Seq(ViewRows)
      BY <2>8
    <3> QED
      BY <3>1, <3>3, <3>4, NoResults
  <2>11. ASSUME NEW i \in 2..Len(v), v[i].role # "tool" PROVE Results(v, i) = v[i].calls
    <3> DEFINE k == i + (start - 2)
    <3>a. /\ start \in Int /\ Len(s) \in Nat /\ Len(v) \in Nat /\ i \in Int /\ start \in 1..Len(s)
          /\ 2 <= i /\ i <= Len(v) /\ Len(v) = Len(s) - start + 2
      <4>1. start \in 1..Len(s) /\ start \in Int /\ Len(s) \in Nat
        BY <2>2
      <4>2. Len(v) = Len(s) - start + 2 /\ Len(v) \in Nat
        BY <2>3, <2>8, <4>1
      <4> QED
        BY <2>11, <4>1, <4>2
    <3>1. k \in 1..Len(s) /\ k - (start - 2) = i /\ Len(s) = Len(v) + (start - 2) /\ start - 2 \in Int
          /\ i \in 1..Len(v) /\ Len(v) \in Nat
      BY <3>a
    <3>2. \A j \in (k + 1)..Len(s) : v[j - (start - 2)] = s[j]
      <4> SUFFICES ASSUME NEW j \in (k + 1)..Len(s) PROVE v[j - (start - 2)] = s[j]
        OBVIOUS
      <4>1. j - (start - 2) \in 2..Len(v) /\ (j - (start - 2)) + (start - 2) = j
        BY <2>2, <3>1, <2>11
      <4> QED
        BY <2>9, <4>1
    <3>3. v[i] = s[k] /\ k \in DOMAIN s
      BY <2>9, <3>1
    <3> HIDE DEF k
    <3>4. Results(v, k - (start - 2)) = Results(s, k)
      BY <2>8, <3>1, <3>2, ResultsShift
    <3>5. Results(s, k) = s[k].calls
      BY <2>11, <3>3 DEF Accepted
    <3> QED
      BY <3>1, <3>3, <3>4, <3>5
  <2>12. DOMAIN v = 1..Len(v) /\ \A i \in 1..Len(v) : i = 1 \/ (i \in 2..Len(v) /\ i # 1)
    BY <2>8
  <2>13. Accepted(v)
    BY <2>8, <2>10, <2>11, <2>12 DEF Accepted
  <2> QED
    BY <2>1, <2>7, <2>13 DEF v
<1> QED
  BY <1>2, <1>3

(* When a provider accepts the rows of a session it accepts what compaction   *)
(* makes of them, at either ratio and wherever the tail begins, but where no  *)
(* tail was left (context/compressor.py as agent/loop.py calls it); and every *)
(* variable has its type.                                                     *)
THEOREM ViewsStayAccepted == ViewSpec => [](ViewTypes /\ ViewIsAccepted)
<1>1. ViewInit => ViewInv
  <2> SUFFICES ASSUME ViewInit PROVE ViewInv
    OBVIOUS
  <2>1. messages = <<>> /\ view = <<>> /\ cut = FALSE /\ attempt = 0
    BY DEF ViewInit
  <2> QED
    <3>1. messages \in Seq(ViewRows) /\ view \in Seq(ViewRows)
      BY <2>1, NoRows
    <3>2. cut \in BOOLEAN
      BY <2>1
    <3>3. attempt \in 0..2 /\ ~(attempt # 0)
      BY <2>1
    <3> QED
      BY <3>1, <3>2, <3>3 DEF ViewInv
<1>2. ViewInv /\ [ViewNext]_viewVars => ViewInv'
  <2> SUFFICES ASSUME ViewInv, [ViewNext]_viewVars PROVE ViewInv'
    OBVIOUS
  <2>1. CASE BuildView \/ ContextOverflow
    <3>1. PICK t \in {Threshold, LowThreshold} :
            view' = Compacted(messages, t).rows /\ cut' = Compacted(messages, t).cut
      BY <2>1 DEF BuildView, ContextOverflow
    <3>2. messages' = messages /\ messages # <<>> /\ attempt' \in {1, 2} /\ messages \in Seq(ViewRows)
      BY <2>1 DEF BuildView, ContextOverflow, ViewInv, ViewIsShown, Idle
    <3>3. view' \in Seq(ViewRows) /\ cut' \in BOOLEAN
      BY <3>1, <3>2, CompactedIsRows
    <3> QED
      BY <3>1, <3>2, <3>3 DEF ViewInv, ViewIsShown
  <2>2. ASSUME NEW row \in ViewRows, Adds(row), attempt' = 0,
               UNCHANGED <<view, cut>> \/ (view' = <<>> /\ cut' = FALSE)
        PROVE  ViewInv'
    <3>1. messages' = Append(messages, row) /\ messages \in Seq(ViewRows)
      BY <2>2 DEF ViewInv, Adds
    <3>2. messages' \in Seq(ViewRows)
      BY <3>1
    <3>3. view' \in Seq(ViewRows) /\ cut' \in BOOLEAN
      <4>1. CASE UNCHANGED <<view, cut>>
        BY <4>1 DEF ViewInv
      <4>2. CASE view' = <<>> /\ cut' = FALSE
        BY <4>2, NoRows
      <4> QED
        BY <2>2, <4>1, <4>2
    <3> QED
      BY <2>2, <3>2, <3>3 DEF ViewInv
  <2>3. \A n \in Sizes : \A role \in {"user", "assistant", "tool"}, k \in 0..MaxToolCalls :
          Message(role, n, k) \in ViewRows
    BY DEF Message, ViewRows
  <2>4. 0 \in 0..MaxToolCalls
    BY ViewAssumption
  <2>5. CASE \E n \in Sizes : UserSays(n) \/ ResultStored(n)
    BY <2>2, <2>3, <2>4, <2>5 DEF UserSays, ResultStored, Idle
  <2>6. CASE \E n \in Sizes, k \in 0..MaxToolCalls : ReplyStored(n, k)
    BY <2>2, <2>3, <2>6 DEF ReplyStored
  <2>7. CASE CallEnds
    <3>1. messages' = messages /\ attempt' = 0 /\ view' = <<>> /\ cut' = FALSE
      BY <2>7 DEF CallEnds
    <3> QED
      <4>1. messages' \in Seq(ViewRows) /\ view' \in Seq(ViewRows)
        BY <3>1, NoRows DEF ViewInv
      <4>2. cut' \in BOOLEAN
        BY <3>1
      <4>3. attempt' \in 0..2 /\ ~(attempt' # 0)
        BY <3>1
      <4> QED
        BY <4>1, <4>2, <4>3 DEF ViewInv
  <2>8. CASE UNCHANGED viewVars
    BY <2>8 DEF viewVars, ViewInv, ViewIsShown
  <2> QED
    BY <2>1, <2>5, <2>6, <2>7, <2>8 DEF ViewNext
<1>3. ViewInv => ViewTypes
  <2> SUFFICES ASSUME ViewInv PROVE ViewTypes
    OBVIOUS
  <2>1. \A s \in Seq(ViewRows) : \A i \in DOMAIN s : s[i] \in ViewRows
    OBVIOUS
  <2> QED
    BY <2>1 DEF ViewInv, ViewTypes, ViewRows
<1>4. ViewInv => ViewIsAccepted
  BY CompactionIsAccepted DEF ViewInv, ViewIsShown, ViewIsAccepted, Idle
<1> QED
  BY <1>1, <1>2, <1>3, <1>4, PTL DEF ViewSpec

-----------------------------------------------------------------------------
\* The tools that the agent writes

(* A tool that passed all three checks; the tasks by what they are doing.     *)
Good == Safe \cap Typed \cap Loads
Generating == [pc : {"mypy", "dry_run", "import", "unlink"}, dir : Dirs]
Evaluating == [pc : {"cases"}, tool : Tools]
Waiting == toolFile["quarantine"]
InQuarantine(x) == x \in Generating /\ x.dir = "quarantine"

(* What a task that is alone knows of w, the file in quarantine.              *)
TaskKnows(x, w) ==
  /\ x \in {Ended} \cup Generating \cup Evaluating
  /\ x \in Generating /\ x.dir = "auto" => w = NoTool
  /\ InQuarantine(x) =>
       /\ x.pc = "mypy" => w \in Safe
       /\ x.pc = "dry_run" => w \in Safe \cap Typed
       /\ x.pc = "import" => w \in Good
  /\ x \in Evaluating => w \in {NoTool} \cup ({x.tool} \cap Good)

(* The file of a tool that is registered is the one that was checked.         *)
LiveIsWaiting(t, w) == t # NoTool => w \in {NoTool} \cup ({t} \cap Good)

TidyInv ==
  /\ \A a, b \in Authors : a # b => tasksAt[a] = Ended \/ tasksAt[b] = Ended
  /\ \A a \in Authors : TaskKnows(tasksAt[a], Waiting)
  /\ (\A a \in Authors : ~InQuarantine(tasksAt[a])) => LiveIsWaiting(live, Waiting)

GenesisInv ==
  /\ GenesisTypes
  /\ DOMAIN tasksAt = Authors
  /\ tidy => TidyInv
  /\ PromotedIsEvaluated

(* A task that ended knows nothing and holds nothing.                         *)
LEMMA EndedTask == ASSUME NEW w PROVE TaskKnows(Ended, w) /\ ~InQuarantine(Ended)
BY DEF TaskKnows, InQuarantine, Ended, Generating, Evaluating

(* One task acts while all others have ended.                                 *)
LEMMA OneActs ==
  ASSUME GenesisInv, NEW a \in Authors, NEW x, TaskAt(a, x),
         \A b \in Authors \ {a} : tasksAt[b] = Ended,
         TaskKnows(x, Waiting'),
         InQuarantine(x) \/ LiveIsWaiting(live', Waiting')
  PROVE  TidyInv' /\ DOMAIN tasksAt' = Authors
<1>1. tasksAt' = [tasksAt EXCEPT ![a] = x] /\ DOMAIN tasksAt = Authors
  BY DEF TaskAt, GenesisInv
<1>2. tasksAt'[a] = x /\ \A b \in Authors \ {a} : tasksAt'[b] = Ended
  BY <1>1
<1> QED
  BY <1>1, <1>2, EndedTask DEF TidyInv

(* As long as tasks ran one after the other, a task that is under way is      *)
(* alone.                                                                     *)
LEMMA ActsAlone ==
  ASSUME GenesisInv, tidy, NEW a \in Authors, tasksAt[a] # Ended
  PROVE  (\A b \in Authors \ {a} : tasksAt[b] = Ended) /\ TaskKnows(tasksAt[a], Waiting)
BY DEF GenesisInv, TidyInv

(* With no tool in quarantine, a registered tool is the one that was checked. *)
LEMMA NobodyGenerates ==
  ASSUME GenesisInv, tidy, NEW a \in Authors, \A b \in Authors \ {a} : tasksAt[b] = Ended,
         ~InQuarantine(tasksAt[a])
  PROVE  LiveIsWaiting(live, Waiting)
BY EndedTask DEF GenesisInv, TidyInv

(* Every step of a task keeps what it knows of the quarantine                 *)
(* (tools/genesis.py, eval/tool_eval.py).                                     *)
LEMMA GenesisStep == GenesisInv /\ [GenesisNext]_genesisVars => GenesisInv'
<1> SUFFICES ASSUME GenesisInv, [GenesisNext]_genesisVars PROVE GenesisInv'
  OBVIOUS
<1> USE GenesisAssumption
<1>1. ASSUME NEW a \in Authors, NEW t \in Tools, NEW d \in Dirs, Genesis(a, t, d) PROVE GenesisInv'
  <2> DEFINE x == [pc |-> "mypy", dir |-> d]
  <2>1. GenesisTypes' /\ PromotedIsEvaluated' /\ DOMAIN tasksAt' = Authors
    BY <1>1 DEF Genesis, TaskAt, GenesisInv, GenesisTypes, PromotedIsEvaluated, Dirs
  <2>2. ASSUME tidy' PROVE TidyInv'
    <3>1. tidy /\ TaskAt(a, x) /\ \A b \in Authors \ {a} : tasksAt[b] = Ended
      BY <1>1, <2>2 DEF Genesis, Alone
    <3>2. TaskKnows(x, Waiting')
      BY <1>1, <2>2 DEF Genesis, TaskKnows, InQuarantine, Generating, Evaluating, Waiting, Ended, Dirs, GenesisInv, GenesisTypes
    <3>3. d = "auto" => Waiting' = NoTool
      BY <1>1, <2>2 DEF Genesis, Waiting, Dirs, GenesisInv, GenesisTypes
    <3>4. InQuarantine(x) \/ LiveIsWaiting(live', Waiting')
      BY <3>3 DEF InQuarantine, Generating, LiveIsWaiting, Dirs
    <3> HIDE DEF x
    <3> QED
      BY <3>1, <3>2, <3>4, OneActs
  <2> QED
    BY <2>1, <2>2 DEF GenesisInv
<1>2. ASSUME NEW a \in Authors, MypyCheck(a) \/ SandboxDryRun(a) PROVE GenesisInv'
  <2>1. GenesisTypes' /\ PromotedIsEvaluated' /\ DOMAIN tasksAt' = Authors
    <3>1. UNCHANGED <<toolFile, live, origin, tidy>> /\ DOMAIN tasksAt' = DOMAIN tasksAt
      BY <1>2 DEF MypyCheck, SandboxDryRun, Checks, TaskAt
    <3> QED
      BY <3>1 DEF GenesisInv, GenesisTypes, PromotedIsEvaluated
  <2>2. ASSUME tidy' PROVE TidyInv'
    <3>0. tasksAt[a].pc \in {"mypy", "dry_run"} /\ tasksAt[a] # Ended
      BY <1>2 DEF MypyCheck, SandboxDryRun, Checks, Ended
    <3>4. /\ tasksAt[a] \in Generating /\ TaskKnows(tasksAt[a], Waiting)
          /\ \A b \in Authors \ {a} : tasksAt[b] = Ended
      <4>1. tidy
        BY <1>2, <2>2 DEF MypyCheck, SandboxDryRun, Checks
      <4>2. tasksAt[a] \notin Evaluating
        BY <3>0 DEF Evaluating
      <4> QED
        BY <3>0, <4>1, <4>2, ActsAlone DEF TaskKnows
    <3>1. PICK stage \in {"mypy", "dry_run"}, good \in {Typed, Loads}, next \in {"dry_run", "import"} :
             /\ Checks(a, stage, good, next)
             /\ stage = "mypy" => next = "dry_run" /\ good = Typed
             /\ stage = "dry_run" => next = "import" /\ good = Loads
      BY <1>2 DEF MypyCheck, SandboxDryRun
    <3> DEFINE x == [tasksAt[a] EXCEPT !.pc = IF toolFile[tasksAt[a].dir] \in good THEN next ELSE "unlink"]
    <3>2. TaskAt(a, x) /\ tasksAt[a].pc = stage /\ Waiting' = Waiting /\ live' = live
      BY <3>1 DEF Checks, Waiting
    <3>6. x \in Generating /\ x.dir = tasksAt[a].dir
      BY <3>1, <3>4 DEF Generating
    <3>7. x.dir = "quarantine" =>
            /\ x.pc # "mypy"
            /\ x.pc = "dry_run" => Waiting \in Safe \cap Typed
            /\ x.pc = "import" => Waiting \in Good
      BY <3>1, <3>2, <3>4 DEF TaskKnows, InQuarantine, Generating, Waiting, Good
    <3>8. x.dir = "auto" => Waiting = NoTool /\ ~InQuarantine(tasksAt[a])
      BY <3>4, <3>6 DEF TaskKnows, InQuarantine
    <3> HIDE DEF x
    <3>9. TaskKnows(x, Waiting')
      BY <3>2, <3>6, <3>7, <3>8 DEF TaskKnows, InQuarantine, Generating, Evaluating
    <3>10. InQuarantine(x) \/ LiveIsWaiting(live', Waiting')
      BY <3>2, <3>6, <3>8 DEF InQuarantine, Generating, Dirs, LiveIsWaiting
    <3> QED
      BY <3>2, <3>4, <3>9, <3>10, OneActs
  <2> QED
    BY <2>1, <2>2 DEF GenesisInv
<1>3. ASSUME NEW a \in Authors, RollBack(a) \/ LiveImport(a) PROVE GenesisInv'
  <2>1. TaskAt(a, Ended) /\ tasksAt[a].pc \in {"unlink", "import"} /\ tidy' = tidy /\ origin' = origin
    BY <1>3 DEF RollBack, LiveImport
  <2>2. ASSUME tidy PROVE tasksAt[a] \in Generating /\ TaskKnows(tasksAt[a], Waiting)
                          /\ \A b \in Authors \ {a} : tasksAt[b] = Ended
    <3>1. tasksAt[a] # Ended
      BY <2>1 DEF Ended
    <3> QED
      BY <2>1, <2>2, <3>1, ActsAlone DEF TaskKnows, Evaluating, Ended
  <2>3. DOMAIN tasksAt' = Authors
    BY <2>1 DEF TaskAt, GenesisInv
  <2>4. GenesisTypes' /\ PromotedIsEvaluated'
    BY <1>3, <2>1 DEF RollBack, LiveImport, Unlinked, GenesisInv, GenesisTypes, PromotedIsEvaluated, Dirs
  <2>5. ASSUME tidy' PROVE TidyInv'
    <3>1. LiveIsWaiting(live', Waiting')
      <4>1. CASE tasksAt[a].dir = "quarantine"
        BY <1>3, <2>1, <2>2, <2>5, <4>1 DEF RollBack, LiveImport, Unlinked, TaskKnows, InQuarantine,
             LiveIsWaiting, Waiting, GenesisInv, GenesisTypes, Dirs, Good
      <4>2. CASE tasksAt[a].dir = "auto"
        BY <1>3, <2>1, <2>2, <2>5, <4>2 DEF RollBack, LiveImport, Unlinked, TaskKnows,
             LiveIsWaiting, Waiting, GenesisInv, GenesisTypes, Dirs
      <4> QED
        BY <2>1, <2>2, <2>5, <4>1, <4>2 DEF Generating, Dirs
    <3> QED
      BY <2>1, <2>2, <2>5, <3>1, EndedTask, OneActs
  <2> QED
    BY <2>3, <2>4, <2>5 DEF GenesisInv
<1>5. ASSUME NEW a \in Authors, Promote(a) PROVE GenesisInv'
  <2>1. GenesisTypes' /\ PromotedIsEvaluated' /\ DOMAIN tasksAt' = Authors
    BY <1>5 DEF Promote, TaskAt, GenesisInv, GenesisTypes, PromotedIsEvaluated
  <2>2. ASSUME tidy' PROVE TidyInv'
    <3> DEFINE x == [pc |-> "cases", tool |-> live]
    <3>1. /\ tidy /\ TaskAt(a, x) /\ \A b \in Authors \ {a} : tasksAt[b] = Ended
          /\ tasksAt[a] = Ended /\ live # NoTool /\ live' = live /\ Waiting' = Waiting
      BY <1>5, <2>2 DEF Promote, Alone, Waiting
    <3>2. LiveIsWaiting(live, Waiting)
      BY <3>1, EndedTask, NobodyGenerates
    <3>3. live \in Tools
      BY <3>1 DEF GenesisInv, GenesisTypes
    <3>4. TaskKnows(x, Waiting')
      BY <3>1, <3>2, <3>3 DEF TaskKnows, LiveIsWaiting, Generating, Evaluating, InQuarantine
    <3> HIDE DEF x
    <3> QED
      BY <3>1, <3>2, <3>4, OneActs
  <2> QED
    BY <2>1, <2>2 DEF GenesisInv
<1>6. ASSUME NEW a \in Authors, EvalDone(a) PROVE GenesisInv'
  <2>1. TaskAt(a, Ended) /\ tasksAt[a].pc = "cases" /\ tidy' = tidy /\ live' = live
    BY <1>6 DEF EvalDone
  <2>2. ASSUME tidy PROVE /\ tasksAt[a] \in Evaluating /\ TaskKnows(tasksAt[a], Waiting)
                          /\ \A b \in Authors \ {a} : tasksAt[b] = Ended
                          /\ LiveIsWaiting(live, Waiting)
    <3>1. tasksAt[a] # Ended
      BY <2>1 DEF Ended
    <3>2. TaskKnows(tasksAt[a], Waiting) /\ \A b \in Authors \ {a} : tasksAt[b] = Ended
      BY <2>2, <3>1, ActsAlone
    <3>3. tasksAt[a] \notin Generating
      BY <2>1 DEF Generating
    <3>4. tasksAt[a] \in Evaluating /\ ~InQuarantine(tasksAt[a])
      BY <3>1, <3>2, <3>3 DEF TaskKnows, InQuarantine
    <3> QED
      BY <2>2, <3>2, <3>4, NobodyGenerates
  <2>3. DOMAIN tasksAt' = Authors
    BY <2>1 DEF TaskAt, GenesisInv
  <2>4. GenesisTypes'
    BY <1>6 DEF EvalDone, GenesisInv, GenesisTypes, Dirs
  <2>5. PromotedIsEvaluated'
    BY <1>6, <2>1, <2>2 DEF EvalDone, GenesisInv, GenesisTypes, PromotedIsEvaluated, TaskKnows, Waiting, Good
  <2>6. ASSUME tidy' PROVE TidyInv'
    <3>1. LiveIsWaiting(live', Waiting')
      BY <1>6, <2>1, <2>2, <2>6 DEF EvalDone, LiveIsWaiting, Waiting
    <3> QED
      BY <2>1, <2>2, <2>6, <3>1, EndedTask, OneActs
  <2> QED
    BY <2>3, <2>4, <2>5, <2>6 DEF GenesisInv
<1>7. CASE DeleteAutoTool
  <2>1. Waiting' = Waiting
    BY <1>7 DEF DeleteAutoTool, Unlinked, Waiting, GenesisInv, GenesisTypes, Dirs
  <2> QED
    BY <1>7, <2>1 DEF DeleteAutoTool, Unlinked, GenesisInv, GenesisTypes, TidyInv, PromotedIsEvaluated, Dirs
<1>8. CASE ProcessRestarts
  <2>1. TidyInv'
    BY <1>8, EndedTask DEF ProcessRestarts, TidyInv, LiveIsWaiting
  <2> QED
    BY <1>8, <2>1 DEF ProcessRestarts, GenesisInv, GenesisTypes, PromotedIsEvaluated
<1>9. CASE UNCHANGED genesisVars
  BY <1>9 DEF genesisVars, GenesisInv, GenesisTypes, TidyInv, Waiting, PromotedIsEvaluated
<1> QED
  BY <1>1, <1>2, <1>3, <1>5, <1>6, <1>7, <1>8, <1>9 DEF GenesisNext

(* As long as calls do not overlap and the two directories are not mixed, the *)
(* file of a promotion is safe, typed, loads and passed its cases, although   *)
(* the cases run the tool that is registered and the file is found by name;   *)
(* and every variable has its type (tools/genesis.py, eval/tool_eval.py).     *)
THEOREM PromotionsAreEvaluated == GenesisSpec => [](GenesisTypes /\ PromotedIsEvaluated)
<1>1. GenesisInit => GenesisInv
  <2> SUFFICES ASSUME GenesisInit PROVE GenesisInv
    OBVIOUS
  <2>1. TidyInv
    BY EndedTask DEF GenesisInit, TidyInv, LiveIsWaiting
  <2> QED
    BY <2>1 DEF GenesisInit, GenesisInv, GenesisTypes, PromotedIsEvaluated
<1>2. GenesisInv => GenesisTypes /\ PromotedIsEvaluated
  BY DEF GenesisInv
<1> QED
  BY <1>1, <1>2, GenesisStep, PTL DEF GenesisSpec

-----------------------------------------------------------------------------
\* The stores together

(* The stores share no state: a step of the whole is a step of each of them,  *)
(* or leaves it alone.                                                        *)
LEMMA EachStoreSteps ==
  [MCNext]_storeVars =>
    /\ [IdentityNext]_identityVars
    /\ [VaultNext]_vaultVars
    /\ [AuditNext]_auditVars
    /\ [MigrationNext]_migrationVars
    /\ [MemoryNext]_memoryVars
    /\ [MirrorNext]_mirrorVars
    /\ [ViewNext]_viewVars
    /\ [CuratorNext]_curatorVars
    /\ [GenesisNext]_genesisVars
<1> SUFFICES ASSUME [MCNext]_storeVars PROVE
       /\ [IdentityNext]_identityVars
       /\ [VaultNext]_vaultVars
       /\ [AuditNext]_auditVars
       /\ [MigrationNext]_migrationVars
       /\ [MemoryNext]_memoryVars
       /\ [MirrorNext]_mirrorVars
       /\ [ViewNext]_viewVars
       /\ [CuratorNext]_curatorVars
       /\ [GenesisNext]_genesisVars
  OBVIOUS
<1>1. CASE UNCHANGED storeVars
  BY <1>1 DEF storeVars
<1>2. ASSUME NEW p \in 1..9, Others(p)
      PROVE  /\ p # 1 => UNCHANGED identityVars
             /\ p # 2 => UNCHANGED vaultVars
             /\ p # 3 => UNCHANGED auditVars
             /\ p # 4 => UNCHANGED migrationVars
             /\ p # 5 => UNCHANGED memoryVars
             /\ p # 6 => UNCHANGED mirrorVars
             /\ p # 7 => UNCHANGED viewVars
             /\ p # 8 => UNCHANGED curatorVars
             /\ p # 9 => UNCHANGED genesisVars
  BY <1>2 DEF Others
<1>3. CASE MCNext
  <2>1. \/ Others(1) /\ IdentityNext
        \/ Others(2) /\ VaultNext
        \/ Others(3) /\ AuditNext
        \/ Others(4) /\ MigrationNext
        \/ Others(5) /\ MemoryNext
        \/ Others(6) /\ MirrorNext
        \/ Others(7) /\ ViewNext
        \/ Others(8) /\ CuratorNext
        \/ Others(9) /\ GenesisNext
    BY <1>3 DEF MCNext
  <2> QED
    BY <1>2, <2>1
<1> QED
  BY <1>1, <1>3

(* Whatever the stores beside the agent do, every variable of theirs keeps    *)
(* its type (gateway/identity.py, actions/, audit/log.py, memory/, context/,  *)
(* curator/, tools/genesis.py).                                               *)
THEOREM StoresKeepTypes == MCSpec => []MCTypes
<1>1. MCInit => /\ IdentityInit
                /\ VaultInit
                /\ AuditInit
                /\ MigrationInit
                /\ MemoryInit
                /\ MirrorInit
                /\ ViewInit
                /\ CuratorInit
                /\ GenesisInit
  BY DEF MCInit
<1>2. MCSpec => []IdentityTypes
  BY <1>1, EachStoreSteps, IdentitiesKeepTypes, PTL DEF MCSpec, IdentitySpec
<1>3. MCSpec => []VaultTypes
  BY <1>1, EachStoreSteps, VaultKeepsItsPromises, PTL DEF MCSpec, VaultSpec
<1>4. MCSpec => []AuditTypes
  BY <1>1, EachStoreSteps, VerifyAccusesTheEdited, PTL DEF MCSpec, AuditSpec
<1>5. MCSpec => []MigrationTypes
  BY <1>1, EachStoreSteps, MigrationsGoForward, PTL DEF MCSpec, MigrationSpec
<1>6. MCSpec => []MemoryTypes
  BY <1>1, EachStoreSteps, MemoryKeepsTypes, PTL DEF MCSpec, MemorySpec
<1>7. MCSpec => []MirrorTypes
  BY <1>1, EachStoreSteps, SyncLeavesNoDrift, PTL DEF MCSpec, MirrorSpec
<1>8. MCSpec => []ViewTypes
  BY <1>1, EachStoreSteps, ViewsStayAccepted, PTL DEF MCSpec, ViewSpec
<1>9. MCSpec => []CuratorTypes
  BY <1>1, EachStoreSteps, SessionsAreReviewedOnce, PTL DEF MCSpec, CuratorSpec
<1>10. MCSpec => []GenesisTypes
  BY <1>1, EachStoreSteps, PromotionsAreEvaluated, PTL DEF MCSpec, GenesisSpec
<1> QED
  BY <1>2, <1>3, <1>4, <1>5, <1>6, <1>7, <1>8, <1>9, <1>10, PTL DEF MCTypes
=============================================================================
