------------------------------- MODULE Chunker -------------------------------
(* memory/chunker.py: chunk_markdown over a document of headings, blank lines *)
(* and lines of text, one turn of its loop at a time. Lines are their numbers,*)
(* 0 the empty line between two parts of a chunk; what a line weighs follows  *)
(* from its length. A plain text is a document without headings.              *)
EXTENDS Integers, Sequences, SequencesExt

CONSTANTS
  Levels,           \* of headings
  Lengths,          \* of lines of text, in characters
  HeadingLength,
  MaxLines,         \* bound of a document
  ChunkLimit,       \* max_tokens
  OverlapTarget     \* int(max_tokens * overlap_ratio)

ASSUME ChunkerAssumption ==
  /\ Levels \subseteq 1..6 /\ Lengths \subseteq Nat \ {0} /\ HeadingLength \in Nat \ {0}
  /\ MaxLines \in Nat /\ ChunkLimit \in Nat \ {0} /\ OverlapTarget \in 0..ChunkLimit - 1

VARIABLES
  doc,
  next,             \* the line the loop is at, 0 before and one past the last behind it
  stack,            \* the headings in force
  chunks,
  builder

chunkVars == <<doc, next, stack, chunks, builder>>

DocLines ==
  {[kind |-> "blank", n |-> 0]} \cup [kind : {"heading"}, n : Levels]
    \cup [kind : {"text"}, n : Lengths]
IsKind(l, kind) == doc[l].kind = kind

-----------------------------------------------------------------------------

(* tokens.estimate without an encoder: a quarter of the characters, at least  *)
(* one for a text that is not empty. A text is its lines and their ends.      *)
LineLength(l) ==
  IF l = 0 THEN 0 ELSE IF IsKind(l, "heading") THEN HeadingLength ELSE doc[l].n
TextLength(q) == FoldLeft(LAMBDA sum, l : sum + 1 + LineLength(l), -1, q)
TokensOf(length) == IF length <= 0 THEN 0 ELSE IF length < 4 THEN 1 ELSE length \div 4
Estimate(q) == TokensOf(TextLength(q))
LineCost(l) == TokensOf(LineLength(l)) + 1
Cost(q) == FoldLeft(LAMBDA sum, l : sum + LineCost(l), 0, q)

(* Mutant of UpdatedPath: the heading of the same level stays.                *)
UpdatedPathDeep(path, level, l) ==
  Append(SubSeq(path, 1, IF level < Len(path) THEN level ELSE Len(path)), l)

(* _update_path: what is as deep or deeper goes, by its place in the path.    *)
UpdatedPath(path, level, l) ==
  Append(SubSeq(path, 1, IF level - 1 < Len(path) THEN level - 1 ELSE Len(path)), l)

(* _split_paragraph_by_lines                                                  *)
Pieces(q) ==
  FoldLeft(LAMBDA pieces, l :
             IF pieces # <<>> /\ Cost(Last(pieces)) + LineCost(l) <= ChunkLimit
             THEN Append(Front(pieces), Append(Last(pieces), l))
             ELSE Append(pieces, <<l>>),
           <<>>, q)

(* _carry_overlap: the last line in any case, and more while it fits.         *)
CarriedOverlap(q) ==
  IF OverlapTarget = 0 THEN <<>>
  ELSE SubSeq(q, CHOOSE k \in DOMAIN q :
                   /\ k = Len(q) \/ Cost(SubSeq(q, k, Len(q))) <= OverlapTarget
                   /\ \A j \in 1..k - 1 : Cost(SubSeq(q, j, Len(q))) > OverlapTarget,
              Len(q))

(* _Builder: reset, add and build.                                            *)
Reset(path, start) == [lines |-> <<>>, tokens |-> 0, path |-> path, start |-> start, end |-> start]
Added(b, q, end) ==
  [b EXCEPT !.lines = IF @ = <<>> THEN q ELSE @ \o <<0>> \o q,
            !.tokens = @ + Estimate(q), !.end = end]
Built(out) ==
  IF out.builder.lines = <<>> THEN out.chunks ELSE Append(out.chunks, out.builder)

(* flush_with_overlap: the new chunk begins where the old one ended, also     *)
(* when the lines it repeats begin before.                                    *)
Flushed(out) ==
  IF out.builder.lines = <<>> THEN out
  ELSE LET b == Reset(stack, out.builder.end)
           tail == CarriedOverlap(out.builder.lines) IN
       [chunks |-> Built(out), builder |-> IF tail = <<>> THEN b ELSE Added(b, tail, b.end)]

Out == [chunks |-> chunks, builder |-> builder]
Becomes(out) == chunks' = out.chunks /\ builder' = out.builder

-----------------------------------------------------------------------------

Opens ==
  /\ next = 0 /\ next' = 1
  /\ doc' \in UNION {[1..n -> DocLines] : n \in 1..MaxLines}
  /\ UNCHANGED <<stack, chunks, builder>>

LineIs(kind) == next \in DOMAIN doc /\ IsKind(next, kind)

SkipsBlank ==
  /\ LineIs("blank") /\ next' = next + 1
  /\ UNCHANGED <<doc, stack, chunks, builder>>

(* A heading ends the chunk, without overlap, and begins the next.            *)
TakesHeading ==
  /\ LineIs("heading") /\ next' = next + 1
  /\ stack' = UpdatedPath(stack, doc[next].n, next)
  /\ chunks' = Built(Out) /\ builder' = Added(Reset(stack', next), <<next>>, next)
  /\ UNCHANGED doc

(* The paragraph at this line: up to a blank line or a heading.               *)
ParagraphEnd ==
  CHOOSE j \in next..Len(doc) :
    /\ \A l \in next..j : IsKind(l, "text")
    /\ j = Len(doc) \/ ~IsKind(j + 1, "text")
Paragraph == [i \in 1..ParagraphEnd - next + 1 |-> next + i - 1]

(* Mutant of Overflows: a chunk that begins with an overlap takes more.       *)
OverflowsFirst(q) ==
  /\ builder.tokens + Estimate(q) > ChunkLimit
  /\ builder.lines = <<>> \/ chunks = <<>> \/ builder.lines[1] \notin ToSet(Last(chunks).lines)

Overflows(q) == builder.tokens + Estimate(q) > ChunkLimit

(* What an overlap weighs may leave too little room for the paragraph it was  *)
(* carried for; that one is added all the same.                               *)
TakesParagraph ==
  /\ LineIs("text") /\ Estimate(Paragraph) <= ChunkLimit
  /\ LET out == IF Overflows(Paragraph) THEN Flushed(Out) ELSE Out IN
     Becomes([out EXCEPT !.builder = Added(@, Paragraph, ParagraphEnd)])
  /\ next' = ParagraphEnd + 1
  /\ UNCHANGED <<doc, stack>>

(* One too large for a chunk: piece by piece, each in a chunk of its own, and *)
(* an overlap that nothing was added to becomes a chunk too.                  *)
WithPiece(out, piece) ==
  LET full == [chunks |-> Built(out),
               builder |-> Added(IF out.builder.lines = <<>> THEN out.builder
                                 ELSE Reset(stack, piece[1]), piece, Last(piece))] IN
  IF full.builder.tokens >= ChunkLimit THEN Flushed(full) ELSE full

SplitsParagraph ==
  /\ LineIs("text") /\ Estimate(Paragraph) > ChunkLimit
  /\ Becomes(FoldLeft(WithPiece, Flushed(Out), Pieces(Paragraph)))
  /\ next' = ParagraphEnd + 1
  /\ UNCHANGED <<doc, stack>>

Finishes ==
  /\ doc # <<>> /\ next = Len(doc) + 1 /\ next' = next + 1
  /\ chunks' = Built(Out) /\ builder' = Reset(<<>>, 1)
  /\ UNCHANGED <<doc, stack>>

ChunkerInit ==
  /\ doc = <<>> /\ next = 0 /\ stack = <<>> /\ chunks = <<>> /\ builder = Reset(<<>>, 1)
ChunkerNext == Opens \/ SkipsBlank \/ TakesHeading \/ TakesParagraph \/ SplitsParagraph \/ Finishes
ChunkerSpec == ChunkerInit /\ [][ChunkerNext]_chunkVars

-----------------------------------------------------------------------------

Chunked == doc # <<>> /\ next = Len(doc) + 2
LinesOf(c) == {chunks[c].lines[i] : i \in DOMAIN chunks[c].lines} \ {0}
LinesBefore(c) == IF c = 1 THEN <<>> ELSE chunks[c - 1].lines
RepeatedIn(c) == IF c = 1 THEN {} ELSE LinesOf(c) \cap LinesOf(c - 1)
LastLines(q, k) == SubSeq(q, Len(q) - k + 1, Len(q))

(* The headings over a line: of each level the last one with no heading of a  *)
(* higher rank behind it. Levels are skipped where a heading has no parent.   *)
Over(l) ==
  {h \in 1..l : /\ IsKind(h, "heading")
                /\ \A g \in h + 1..l : IsKind(g, "heading") => doc[g].n > doc[h].n}
NoLevelSkipped(l) == \A h \in Over(l) : \A k \in 1..doc[h].n : \E g \in Over(l) : doc[g].n = k

(* A chunk repeats the last k lines of the one before, first of all and none  *)
(* of them later; the overlap takes them; and what it adds weighs max_tokens  *)
(* at most, or it is a single line.                                           *)
AddsTo(chunk, before, k) ==
  /\ k <= Len(chunk.lines) /\ SubSeq(chunk.lines, 1, k) = LastLines(before, k)
  /\ \A i \in DOMAIN chunk.lines :
       i > k /\ chunk.lines[i] # 0 => \A j \in DOMAIN before : before[j] # chunk.lines[i]
  /\ k > 0 => OverlapTarget > 0 /\ (k = 1 \/ Cost(LastLines(before, k)) <= OverlapTarget)
  /\ chunk.tokens <= ChunkLimit + Estimate(LastLines(before, k)) \/ Len(chunk.lines) = 1

(* The chunks are the document: every line with text is in one of them, those *)
(* of a chunk in their order, and what a chunk does not repeat from the one   *)
(* before lies behind it, where its line numbers say. No chunk goes over a    *)
(* heading, and each names the headings over it, unless levels are skipped.   *)
(* What it repeats is the end of the one before, one line or within the       *)
(* overlap; the rest weighs max_tokens at most, or is a single line: a chunk  *)
(* is over max_tokens by no more than it repeats.                             *)
ChunksAreTheDocument ==
  Chunked =>
    /\ {l \in DOMAIN doc : ~IsKind(l, "blank")} = UNION {LinesOf(c) : c \in DOMAIN chunks}
    /\ \A c \in DOMAIN chunks :
         LET chunk == chunks[c]
             own == LinesOf(c) \ RepeatedIn(c) IN
         /\ \A i, j \in DOMAIN chunk.lines :
              i < j /\ chunk.lines[i] # 0 /\ chunk.lines[j] # 0 => chunk.lines[i] < chunk.lines[j]
         /\ \A l \in own : l \in chunk.start..chunk.end
         /\ c > 1 => \A l \in own, k \in LinesOf(c - 1) : k < l
         /\ \A i \in DOMAIN chunk.lines \ {1} :
              chunk.lines[i] # 0 => ~IsKind(chunk.lines[i], "heading")
         /\ \A l \in LinesOf(c) :
              NoLevelSkipped(l) => {chunk.path[i] : i \in DOMAIN chunk.path} = Over(l)
         /\ \E k \in 0..Len(LinesBefore(c)) : AddsTo(chunk, LinesBefore(c), k)
=============================================================================
