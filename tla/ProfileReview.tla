--------------------------- MODULE ProfileReview ----------------------------
(* profile_learning.py over profile.py: turns leave suggestions in a database,*)
(* a reviewer applies or rejects them, and applying one reads PROFILE.md,     *)
(* renders it anew and writes it, beside the user's editor, sera profile init *)
(* and other reviewers. The five managed sections are one here. Once the block*)
(* is there, rendering puts the bullets into the replacement of a pattern, and*)
(* so takes a backslash in them for an escape; the escape that stands for the *)
(* whole match is left out.                                                   *)
EXTENDS Integers, Sequences

CONSTANTS
  BulletTexts,      \* what a line of the block may say
  Bullets,          \* items that are suggested
  DefaultBullets,
  Awkward,          \* texts with a backslash that is no escape of a pattern
  Unescaped,        \* the bullets a text is read as once its escapes are done
  Reviewers,        \* processes that apply
  MaxSuggestions,   \* bound of the rows
  MaxHandEdits      \* bound of the user's edits and inits

ASSUME ProfileAssumption ==
  /\ Bullets \subseteq BulletTexts /\ DefaultBullets \subseteq BulletTexts /\ Awkward \subseteq BulletTexts
  /\ Unescaped \in [BulletTexts -> SUBSET BulletTexts]
  /\ DefaultBullets # {} /\ \A b \in DefaultBullets : b \notin Awkward /\ Unescaped[b] = {b}
  /\ MaxSuggestions \in Nat /\ MaxHandEdits \in Nat

VARIABLES
  suggestions,      \* the rows, in the order of their ids
  profile,          \* PROFILE.md: the user's own text, the managed block, its bullets
  reviewer,         \* of a process, how far its apply is
  handEdits,
  kept,             \* history: bullets applied and not taken out by hand since
  dropped,          \* history: bullets taken out by hand or by init
  ownText,          \* history: the user's text as last saved
  disturbed         \* history: two wrote at once, or one died while it wrote

profileVars ==
  <<suggestions, profile, reviewer, handEdits, kept, dropped, ownText, disturbed>>

Blank == [own |-> 0, block |-> FALSE, bullets |-> {}]
NoReview == [at |-> "idle", id |-> 0, text |-> Blank]

ReviewAt(r, label) == reviewer[r].at = label
Writing == {r \in Reviewers : reviewer[r].at \in {"rendered", "writing"}}
Has(item, status) ==
  \E i \in DOMAIN suggestions : suggestions[i] = [item |-> item, status |-> status]

-----------------------------------------------------------------------------

(* create, from the end of a turn or by hand: one pending row for an item,    *)
(* whatever became of earlier ones.                                           *)
Suggest(b) ==
  /\ ~Has(b, "pending") /\ Len(suggestions) < MaxSuggestions
  /\ suggestions' = Append(suggestions, [item |-> b, status |-> "pending"])
  /\ UNCHANGED <<profile, reviewer, handEdits, kept, dropped, ownText, disturbed>>

(* update_status, under the unique index of item and status: a second row of  *)
(* the item cannot take a status that another one has.                        *)
Free(i, status) ==
  \A j \in DOMAIN suggestions \ {i} :
    suggestions[j] # [suggestions[i] EXCEPT !.status = status]

Reject(i) ==
  /\ Free(i, "rejected")
  /\ suggestions' = [suggestions EXCEPT ![i].status = "rejected"]
  /\ UNCHANGED <<profile, reviewer, handEdits, kept, dropped, ownText, disturbed>>

(* apply: the row, if it is pending.                                          *)
Chooses(r, i) ==
  /\ ReviewAt(r, "idle") /\ suggestions[i].status = "pending"
  /\ reviewer' = [reviewer EXCEPT ![r].at = "chosen", ![r].id = i]
  /\ UNCHANGED <<suggestions, profile, handEdits, kept, dropped, ownText, disturbed>>

(* Mutant of Present: what the file holds is not looked at.                   *)
PresentByDefault(file) == DefaultBullets

(* current_profile_sections: a block without bullets counts as the defaults.  *)
Present(file) == IF file.bullets = {} THEN DefaultBullets ELSE file.bullets

(* render_profile: if the block is there already, one bullet with a bad       *)
(* escape is an error, and nothing is written; the others are written as they *)
(* read with their escapes done, every time anew.                             *)
Renders(file, bullets) == file.block => bullets \cap Awkward = {}

(* Mutant of Rendered: no more than what the block would have is new in it.   *)
RenderedFirst(file, bullets) == IF file.block THEN file.bullets ELSE bullets

Rendered(file, bullets) ==
  IF file.block THEN UNION {Unescaped[b] : b \in bullets} ELSE bullets

Reads(r) ==
  LET bullets == Present(profile) \cup {suggestions[reviewer[r].id].item} IN
  /\ ReviewAt(r, "chosen")
  /\ IF Renders(profile, bullets)
     THEN /\ reviewer' = [reviewer EXCEPT ![r].at = "rendered",
                            ![r].text = [own |-> profile.own, block |-> TRUE,
                                           bullets |-> Rendered(profile, bullets)]]
          /\ disturbed' = (disturbed \/ Writing # {})
     ELSE reviewer' = [reviewer EXCEPT ![r] = NoReview] /\ UNCHANGED disturbed
  /\ UNCHANGED <<suggestions, profile, handEdits, kept, dropped, ownText>>

(* write_text empties the file and fills it.                                  *)
Empties(r) ==
  /\ ReviewAt(r, "rendered") /\ profile' = Blank
  /\ reviewer' = [reviewer EXCEPT ![r].at = "writing"]
  /\ UNCHANGED <<suggestions, handEdits, kept, dropped, ownText, disturbed>>

Fills(r) ==
  LET item == suggestions[reviewer[r].id].item IN
  /\ ReviewAt(r, "writing") /\ profile' = reviewer[r].text
  /\ kept' = kept \cup {item} /\ dropped' = dropped \ {item}
  /\ reviewer' = [reviewer EXCEPT ![r].at = "written"]
  /\ UNCHANGED <<suggestions, handEdits, ownText, disturbed>>

(* The row is marked last; the index may refuse, and the bullet stays.        *)
Marks(r) ==
  LET i == reviewer[r].id IN
  /\ ReviewAt(r, "written")
  /\ suggestions' = IF Free(i, "applied")
                    THEN [suggestions EXCEPT ![i].status = "applied"] ELSE suggestions
  /\ reviewer' = [reviewer EXCEPT ![r] = NoReview]
  /\ UNCHANGED <<profile, handEdits, kept, dropped, ownText, disturbed>>

(* The process dies.                                                          *)
ReviewDies(r) ==
  /\ ~ReviewAt(r, "idle") /\ reviewer' = [reviewer EXCEPT ![r] = NoReview]
  /\ disturbed' = (disturbed \/ ReviewAt(r, "writing"))
  /\ UNCHANGED <<suggestions, profile, handEdits, kept, dropped, ownText>>

(* Somebody else saves the file, and takes bullets out of it.                 *)
Saves(file) ==
  LET out == kept \cap (profile.bullets \ file.bullets) IN
  /\ handEdits < MaxHandEdits /\ handEdits' = handEdits + 1
  /\ profile' = file /\ ownText' = file.own
  /\ kept' = kept \ out /\ dropped' = dropped \cup out
  /\ disturbed' = (disturbed \/ Writing # {})
  /\ UNCHANGED <<suggestions, reviewer>>

Edits ==
  \E bullets \in SUBSET profile.bullets :
    Saves([profile EXCEPT !.own = handEdits + 1, !.bullets = bullets])

(* init_profile: the default bullets in any case, and nothing else with force.*)
Initialises ==
  \E own \in {0, profile.own} :
    Saves([own |-> own, block |-> TRUE, bullets |-> DefaultBullets])

ProfileInit ==
  /\ suggestions = <<>> /\ profile = Blank /\ reviewer = [r \in Reviewers |-> NoReview]
  /\ handEdits = 0 /\ kept = {} /\ dropped = {} /\ ownText = 0 /\ disturbed = FALSE

ProfileNext ==
  \/ \E b \in Bullets : Suggest(b)
  \/ \E i \in DOMAIN suggestions : Reject(i) \/ \E r \in Reviewers : Chooses(r, i)
  \/ \E r \in Reviewers : Reads(r) \/ Empties(r) \/ Fills(r) \/ Marks(r) \/ ReviewDies(r)
  \/ Edits \/ Initialises

ProfileSpec == ProfileInit /\ [][ProfileNext]_profileVars

-----------------------------------------------------------------------------

(* A text that rendering leaves alone.                                        *)
Literal == {b \in BulletTexts : Unescaped[b] = {b}}

(* A text that b becomes in one or more renderings, or b itself.              *)
IsFormOf(t, b) ==
  \A texts \in SUBSET BulletTexts :
    b \in texts /\ (\A x \in texts : Unescaped[x] \subseteq texts) => t \in texts

(* As long as nobody wrote the file at the same time, or died while writing   *)
(* it, every applied bullet without an escape is in it until it is taken out  *)
(* by hand or by init, and so is the user's own text; and a suggestion is     *)
(* marked as applied only once the file was written for it, wherever its      *)
(* reviewer died. In any case the block has nothing but default bullets and   *)
(* what became of applied ones as their escapes were done, and no item has    *)
(* two rows of one status.                                                    *)
AppliedIsKept ==
  /\ ~disturbed =>
       /\ (\A r \in Reviewers : ~ReviewAt(r, "writing")) =>
            kept \cap Literal \subseteq profile.bullets /\ profile.own = ownText
       /\ \A i \in DOMAIN suggestions :
            suggestions[i].status = "applied" => suggestions[i].item \in kept \cup dropped
  /\ \A t \in profile.bullets \ DefaultBullets : \E b \in kept \cup dropped : IsFormOf(t, b)
  /\ \A i, j \in DOMAIN suggestions : suggestions[i] = suggestions[j] => i = j
=============================================================================
