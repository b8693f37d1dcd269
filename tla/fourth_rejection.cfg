SPECIFICATION RequestsSpec
CONSTANTS
  Tasks = {t1}
  Developers = {d1}
  Projects = {}
  Reporters = {}
  NoDeveloper = NoDeveloper
  NoProject = NoProject
  MaxRejections = 3
  MaxDisputes = 1
  TalentLimits = {1}
  Requests = {q1, q2}
  Groups <- WorkGroup
  Idle = Idle
SYMMETRY Symmetry
CHECK_DEADLOCK FALSE
INVARIANTS
  AtMostThreeRejections
