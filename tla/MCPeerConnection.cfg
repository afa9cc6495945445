SPECIFICATION FairSpec
CONSTANTS
  Peers = {p1, p2}
  Callers = {a, b}
  Torn = TRUE
  MaxRequests = 2
  MaxBreaks = 1
INVARIANTS SetOnce ExecutedInOrder AnswersAreReal
CHECK_DEADLOCK FALSE
PROPERTY Reconnects
