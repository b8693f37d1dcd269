SPECIFICATION CachedSpec
CONSTANTS
  Tasks = {t1}
  Developers = {d1, d2}
  Projects = {p1}
  Reporters = {r1}
  NoDeveloper = NoDeveloper
  NoProject = NoProject
  MaxRejections = 2
  MaxDisputes = 2
  TalentLimits = {1}
  Requests = {q1}
  Groups <- AllGroups
  Scenes <- AllScenes
  Idle = Idle
CHECK_DEADLOCK FALSE
INVARIANTS
  StaleHasReason
PROPERTIES
  ImplementsSerial
