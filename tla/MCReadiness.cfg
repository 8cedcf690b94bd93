SPECIFICATION FairSpec
CONSTANTS
  p1 = p1
  Probes <- MCOne
  Checks = {1, 2}
  CheckTimeout = 0
  MaxFlips = 3
  MaxChecks = 3
INVARIANTS
  AnswerExact
  DrainingWins
PROPERTY ProbeAnswered
