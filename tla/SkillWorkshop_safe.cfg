SPECIFICATION Spec
CONSTANTS
  Names = {n1}
  Bodies = {"plain", "heading", "risky"}
  Risky = {"risky"}
  UserSkills = {}
  DefaultBody = "plain"
  Passes <- BodyPasses
  None = "none"
  Torn = "torn"
  Workers = {w1, w2}
  Runtimes = {r1}
  MaxProposals = 2
  MaxJobs = 2
  MaxCrashes = 1
INVARIANTS
  ServedSkillsAreSound
PROPERTIES
  CatchesUp
CHECK_DEADLOCK FALSE
