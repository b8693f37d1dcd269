SPECIFICATION RequestsSpec
CONSTANTS
  Tasks = {t1}
  Developers = {d1, d2}
  Projects = {}
  Reporters = {}
  NoDeveloper = NoDeveloper
  NoProject = NoProject
  MaxRejections = 3
  MaxDisputes = 0
  TalentLimits = {1}
  Requests = {q1, q2}
  Groups <- HiringGroup
  Idle = Idle
SYMMETRY Symmetry
CHECK_DEADLOCK FALSE
INVARIANTS
  OneAcceptedApplication
