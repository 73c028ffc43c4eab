--------------------------- MODULE MCSkillWorkshop ---------------------------
\* SkillWorkshop for TLC: one good body, one whose replay fails, one risky.
EXTENDS SkillWorkshop

\* The replay derived from a body matches that body only, and not a bare heading.
BodyPasses(b, r) == b = r /\ b # "heading"
=============================================================================
