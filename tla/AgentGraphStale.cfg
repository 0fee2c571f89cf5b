SPECIFICATION AgentSpec
CONSTANTS
  Turns = 3
  MaxToolRounds = 2
  MaxRegenerations = 2
  Limit = 12
CHECK_DEADLOCK FALSE
INVARIANT AnswersThisTurn
