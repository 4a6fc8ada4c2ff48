\* A budget of one epsilon.
SPECIFICATION CoordinatorSpec
CONSTANTS
  Station = {s1, s2}
  Drifting = {}
  MinParticipants = 2
  MaxParticipants = 2
  Budget = 1
  NoRound = NoRound
  MaxRounds = 2
INVARIANT UpdatesAreNoised
CHECK_DEADLOCK FALSE
