--------------------------- MODULE StreamScrubber ---------------------------
(* The scrubber of streamed model text (context/scrubber.py) as run_turn uses *)
(* it: chunks cut the text anywhere, the scrubber takes out every span from   *)
(* an opening tag to its closing tag and passes the rest on, holding back     *)
(* what may still become a tag.  A step is one turn of the loop in feed.      *)
(* Characters are abstract; the two tags, "m" followed by "c" and "c" alone,  *)
(* end alike and are open under different lengths, as memory-context and      *)
(* context are.                                                               *)
EXTENDS Integers, Sequences, SequencesExt, FiniteSetsExt

CONSTANTS
  TextPieces,  \* what a model's text is put together from
  MaxPieces    \* bound on the pieces of one text

ASSUME TextAssumption == TextPieces \subseteq Seq(STRING) /\ MaxPieces \in Nat

VARIABLES
  spoken,      \* what the model will have said when the stream ends
  fed,         \* how many characters of it the scrubber has been fed
  buf, inside, closer,   \* the state of the scrubber
  clean,       \* what has been passed on to the sink
  feeding,     \* feed is in its loop
  flushed      \* the stream has ended
scrubVars == <<spoken, fed, buf, inside, closer, clean, feeding, flushed>>

Tags == {<<"m", "c">>, <<"c">>}
Opener(t) == <<"<">> \o t \o <<">">>
Closer(t) == <<"<", "/">> \o t \o <<">">>
MaxPartialKeep == Max({Len(Opener(t)) : t \in Tags})

FindIn(s, sub) == {i \in 1..Len(s) : IsPrefix(sub, SubSeq(s, i, Len(s)))}
From(s, i) == SubSeq(s, i, Len(s))

Scrub(stillInside, awaited, rest) ==
  /\ inside' = stillInside /\ closer' = awaited /\ buf' = rest
  /\ UNCHANGED <<spoken, fed, flushed>>

BetweenChunks == ~feeding /\ ~flushed

Feed(n) ==
  /\ BetweenChunks /\ fed + n <= Len(spoken)
  /\ buf' = buf \o SubSeq(spoken, fed + 1, fed + n)
  /\ fed' = fed + n /\ feeding' = TRUE
  /\ UNCHANGED <<spoken, inside, closer, clean, flushed>>

LeavesFeed ==
  /\ feeding /\ buf = <<>>
  /\ feeding' = FALSE
  /\ UNCHANGED <<spoken, fed, buf, inside, closer, clean, flushed>>

(* Mutant: the scrubber keeps nothing of a span that is still open.           *)
KeptTail_Nothing(s, awaited) == <<>>

(* Inside a span: up to the closing tag, or all but what may begin one.       *)
KeptTail(s, awaited) ==
  From(s, Len(s) - Min({Len(s), Len(awaited) - 1}) + 1)

EndsSpan ==
  /\ feeding /\ inside /\ FindIn(buf, closer) # {}
  /\ Scrub(FALSE, <<>>, From(buf, Min(FindIn(buf, closer)) + Len(closer)))
  /\ UNCHANGED <<clean, feeding>>

DropsInside ==
  /\ feeding /\ inside /\ buf # <<>> /\ FindIn(buf, closer) = {}
  /\ Scrub(TRUE, closer, KeptTail(buf, closer))
  /\ feeding' = FALSE /\ UNCHANGED clean

(* Outside: what lies before the next "<" is passed on; then it is a tag,     *)
(* may become one, or is a character like others.                             *)
PassesAll ==
  /\ feeding /\ ~inside /\ buf # <<>> /\ FindIn(buf, <<"<">>) = {}
  /\ Scrub(FALSE, <<>>, <<>>)
  /\ clean' = clean \o buf /\ feeding' = FALSE

AtBracket(rest) ==
  /\ feeding /\ ~inside /\ FindIn(buf, <<"<">>) # {}
  /\ rest = From(buf, Min(FindIn(buf, <<"<">>)))
PassedBefore(rest) == clean \o SubSeq(buf, 1, Len(buf) - Len(rest))
StartsWith(t, s) == IsPrefix(Opener(t), s)
MayOpen(s) == Len(s) <= MaxPartialKeep /\ \E t \in Tags : IsPrefix(s, Opener(t))

BeginsSpan == \E rest \in Suffixes(buf), t \in Tags :
  /\ AtBracket(rest) /\ StartsWith(t, rest)
  /\ Scrub(TRUE, Closer(t), From(rest, Len(Opener(t)) + 1))
  /\ clean' = PassedBefore(rest) /\ UNCHANGED feeding

WaitsForMore == \E rest \in Suffixes(buf) :
  /\ AtBracket(rest) /\ (\A t \in Tags : ~StartsWith(t, rest)) /\ MayOpen(rest)
  /\ Scrub(FALSE, <<>>, rest)
  /\ clean' = PassedBefore(rest) /\ feeding' = FALSE

PassesBracket == \E rest \in Suffixes(buf) :
  /\ AtBracket(rest) /\ (\A t \in Tags : ~StartsWith(t, rest)) /\ ~MayOpen(rest)
  /\ Scrub(FALSE, <<>>, Tail(rest))
  /\ clean' = Append(PassedBefore(rest), "<") /\ UNCHANGED feeding

(* flush: the stream has ended; an unclosed span is dropped.                  *)
EndOfStream ==
  /\ BetweenChunks /\ fed = Len(spoken)
  /\ clean' = IF inside THEN clean ELSE clean \o buf
  /\ buf' = <<>> /\ inside' = FALSE
  /\ closer' = IF inside THEN <<>> ELSE closer
  /\ flushed' = TRUE /\ UNCHANGED <<spoken, fed, feeding>>

Texts(n) == {FlattenSeq(p) : p \in UNION {[1..k -> TextPieces] : k \in 0..n}}

ScrubInit ==
  /\ spoken \in Texts(MaxPieces)
  /\ fed = 0 /\ buf = <<>> /\ inside = FALSE /\ closer = <<>> /\ clean = <<>>
  /\ feeding = FALSE /\ flushed = FALSE

ScrubNext ==
  \/ \E n \in 1..Len(spoken) : Feed(n)
  \/ LeavesFeed \/ EndsSpan \/ DropsInside
  \/ PassesAll \/ BeginsSpan \/ WaitsForMore \/ PassesBracket
  \/ EndOfStream

ScrubSpec == ScrubInit /\ [][ScrubNext]_scrubVars
-----------------------------------------------------------------------------
(* The text without its spans, read as a whole: a span runs from an opening   *)
(* tag outside any span to the first closing tag of its name behind it, or    *)
(* to the end.                                                                *)
Unspanned(s) ==
  LET clear[i \in 1..Len(s) + 1] ==
        IF i > Len(s) THEN <<>> ELSE
        LET opening == {t \in Tags : StartsWith(t, From(s, i))}
            ends(t) == {j + Len(Closer(t)) : j \in
                          {k \in FindIn(s, Closer(t)) : k >= i + Len(Opener(t))}}
        IN IF opening = {} THEN <<s[i]>> \o clear[i + 1]
           ELSE LET t == CHOOSE u \in opening : TRUE
                IN IF ends(t) = {} THEN <<>> ELSE clear[Min(ends(t))]
  IN clear[1]

(* However the stream is cut into chunks, what is passed on is the text       *)
(* without its spans, the same as scrub() gives for the whole text; between   *)
(* two chunks the scrubber has passed on all it safely can: it holds back     *)
(* less than an opening tag, and passing that on too would give exactly the   *)
(* cleared text so far.                                                       *)
SpansAreStripped ==
  /\ BetweenChunks =>
       /\ clean \o (IF inside THEN <<>> ELSE buf) = Unspanned(SubSeq(spoken, 1, fed))
       /\ ~inside => Len(buf) < MaxPartialKeep
  /\ flushed => clean = Unspanned(spoken)
=============================================================================
