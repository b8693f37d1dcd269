SPECIFICATION StandingSpec
CONSTANTS
  Requests = {q1, q2, q3}
  Idle = Idle
  MaxPictures = 3
  MaxReviews = 2
  MaxEdits = 1
  MaxFaults = 1
  MaxVersion = 2
SYMMETRY RequestSymmetry
CHECK_DEADLOCK FALSE
INVARIANTS
  StandingTypeOK
  RoleWasTold
  TourIsNotRepeated
  PictureIsStored
  DeactivatedIsAnonymous
  PublicTextIsSettled
