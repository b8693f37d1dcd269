SPECIFICATION Spec
CONSTANTS
  Tasks = {t1}
  Developers = {d1, d2}
  Projects = {p1}
  Reporters = {r1}
  NoDeveloper = NoDeveloper
  NoProject = NoProject
  MaxRejections = 3
  MaxDisputes = 2
  TalentLimits = {1}
SYMMETRY DeveloperSymmetry
CHECK_DEADLOCK FALSE
INVARIANTS
  OpenDisputeIsDecidable
