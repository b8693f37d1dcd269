SPECIFICATION RequestsSpec
CONSTANTS
  Tasks = {t1, t2}
  Developers = {}
  Projects = {p1}
  Reporters = {}
  NoDeveloper = NoDeveloper
  NoProject = NoProject
  MaxRejections = 3
  MaxDisputes = 0
  TalentLimits = {1}
  Requests = {q1, q2}
  Groups <- PublishGroup
  Idle = Idle
CHECK_DEADLOCK FALSE
PROPERTIES
  PublishedWithinLimit
