SPECIFICATION RequestsSpec
CONSTANTS
  Tasks = {t1}
  Developers = {d1, d2}
  Projects = {p1}
  Reporters = {r1}
  NoDeveloper = NoDeveloper
  NoProject = NoProject
  MaxRejections = 2
  MaxDisputes = 2
  TalentLimits = {1, 2}
  Requests = {q1, q2}
  Groups <- OverlapGroups
  Idle = Idle
SYMMETRY Symmetry
CONSTRAINT FewRejections
CHECK_DEADLOCK FALSE
INVARIANTS
  RejectionsCounted
  OutcomesWereTold
  DisputeHasOpenRow
PROPERTIES
  ThreadForGood
  OnlyLateWriters
